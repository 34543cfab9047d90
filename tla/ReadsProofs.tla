---------------------------- MODULE ReadsProofs -----------------------------
(* For every set of objects, page size, timeout, interval and bound: the wait *)
(* for the indexer implements AwaitIndexed within a bounded number of polls,  *)
(* and the lookups after it return what the transaction changed.              *)
EXTENDS Reads, FiniteSetTheorems, SequenceTheorems, WellFoundedInduction, TLAPS

(* SetToSeq lists a finite set: every element is in it, and as many as there  *)
(* are in the set.                                                            *)
LEMMA Listing ==
  ASSUME NEW S, IsFiniteSet(S)
  PROVE  /\ SetToSeq(S) \in Seq(S)
         /\ Len(SetToSeq(S)) = Cardinality(S)
<1>1. Cardinality(S) \in Nat /\ ExistsBijection(1..Cardinality(S), S)
  BY FS_CardinalityType
<1>2. \E f \in [1..Cardinality(S) -> S] : IsInjective(f)
  BY <1>1 DEF ExistsBijection, Bijection, Injection
<1>3. SetToSeq(S) \in [1..Cardinality(S) -> S]
  BY <1>2 DEF SetToSeq
<1> QED
  BY <1>1, <1>3, SeqDef

-----------------------------------------------------------------------------
(* What the program waits for: the versions its transaction wrote.            *)
Targets == {<<id, VersionAt(mine, id)>> : id \in log[mine].wrote}

(* The chain and the program's place in it.  Packages never change, so that a *)
(* package at its own version is shown only with the transaction that         *)
(* published it.  Effects are of the first format only where nodes have them. *)
ChainInv ==
  /\ log \in Seq(Tx)
  /\ ingested \in Nat /\ ingested <= Len(log)
  /\ mine \in 0 .. Len(log)
  /\ \A i \in 1 .. Len(log) : log[i].wrote \cap Packages # {} => i = mine
  /\ \A i \in 1 .. Len(log) : log[i].v1 => OldEffects
  /\ mine # 0 => Gas \in log[mine].wrote
  /\ mine = 0 <=> pc = "idle"

(* Until the wait is over nothing is answered; what is still to be polled are *)
(* targets, and when none is left the indexer has come to the transaction.    *)
WaitInv ==
  /\ pc \in {"idle", "sent", "poll", "sleep"} => waited = "none"
  /\ pc \in {"poll", "sleep"} => todo \in Seq(Targets)
  /\ pc \in {"poll", "sleep"} /\ ~Unreadable => mine <= ingested \/ todo # <<>>

(* The targets of a wait are versions the transaction wrote, and unless the   *)
(* effects cannot be read there is at least the coin.                         *)
LEMMA TargetsListed ==
  ASSUME ChainInv, mine # 0
  PROVE  /\ TargetVersions \in Seq(Targets)
         /\ ~Unreadable => TargetVersions # <<>>
<1>1. log[mine] \in Tx
  BY ElementOfSeq DEF ChainInv
<1>2. IsFiniteSet(log[mine].wrote) /\ IsFiniteSet({})
  BY <1>1, ObjectsAssumption, FS_Subset, FS_EmptySet DEF Tx
<1> DEFINE W == IF Unreadable THEN {} ELSE Effects.wrote
           ids == SetToSeq(W)
<1>3. ids \in Seq(W) /\ Len(ids) = Cardinality(W)
  BY <1>2, Listing DEF Effects
<1>4. \A i \in 1 .. Len(ids) : ids[i] \in log[mine].wrote
  BY <1>3, ElementOfSeq DEF Effects
<1>5. TargetVersions = [i \in 1 .. Len(ids) |-> <<ids[i], VersionAt(mine, ids[i])>>]
  BY <1>3, LenProperties DEF TargetVersions
<1>6. Len(ids) \in Nat
  BY <1>3, LenProperties
<1>7. TargetVersions \in [1 .. Len(ids) -> Targets]
  BY <1>4, <1>5 DEF Targets
<1>8. TargetVersions \in Seq(Targets)
  BY <1>6, <1>7, SeqDef
<1>9. ASSUME ~Unreadable
      PROVE  TargetVersions # <<>>
  <2>1. Len(ids) # 0
    BY <1>2, <1>3, <1>9, FS_EmptySet DEF Effects, ChainInv
  <2>2. DOMAIN TargetVersions = 1 .. Len(ids)
    BY <1>5
  <2> QED
    BY <1>6, <2>1, <2>2
<1> QED
  BY <1>8, <1>9

(* An object is at a version of the transaction only in it, a package because *)
(* no other transaction writes it: to find a target is to be shown all that   *)
(* the transaction did.                                                       *)
LEMMA FoundIsShown ==
  ASSUME ChainInv, NEW t \in Targets, Served(t[1], t[2])
  PROVE  mine <= ingested
<1>1. PICK id \in log[mine].wrote : t = <<id, VersionAt(mine, id)>>
  BY DEF Targets
<1>2. PICK i \in 1 .. ingested :
        id \in log[i].wrote /\ VersionAt(i, id) = VersionAt(mine, id)
  BY <1>1 DEF Served
<1>3. i \in 1 .. Len(log)
  BY <1>2 DEF ChainInv
<1>4. CASE id \in Packages
  BY <1>2, <1>3, <1>4 DEF ChainInv
<1>5. CASE id \notin Packages
  BY <1>2, <1>5 DEF VersionAt
<1> QED
  BY <1>2, <1>4, <1>5

(* Where nodes have no effects of the first format, all effects are read.     *)
LEMMA Readable ==
  ASSUME ChainInv, mine # 0, ~OldEffects
  PROVE  ~Unreadable
BY DEF ChainInv, Unreadable, Effects

-----------------------------------------------------------------------------
(* The log only grows, and the indexer follows it.                            *)
LEMMA Grown ==
  ASSUME log \in Seq(Tx), NEW tx \in Tx, log' = Append(log, tx)
  PROVE  /\ log' \in Seq(Tx) /\ Len(log') = Len(log) + 1 /\ Len(log) \in Nat
         /\ \A i \in 1 .. Len(log) : log'[i] = log[i]
         /\ log'[Len(log) + 1] = tx
BY AppendProperties, LenProperties

(* Steps that neither execute a transaction nor write to the log.             *)
Still == UNCHANGED <<log, mine>> /\ ingested' = ingested /\ pc # "idle" /\ pc' # "idle"

(* Only the program's transaction writes packages, and it stays where it is.  *)
LEMMA ChainStep ==
  ASSUME ChainInv, [Next]_vars
  PROVE  ChainInv'
<1> USE DEF ChainInv, env
<1>1. CASE Execute
  <2>1. PICK tx \in Tx : /\ log' = Append(log, tx) /\ Gas \in tx.wrote
                         /\ tx.v1 => OldEffects
    BY <1>1, ObjectsAssumption DEF Execute, Tx, Live
  <2>2. mine = 0 /\ mine' = Len(log) + 1 /\ pc' = "sent" /\ ingested' = ingested
    BY <1>1 DEF Execute
  <2>3. /\ log' \in Seq(Tx) /\ Len(log') = Len(log) + 1 /\ Len(log) \in Nat
        /\ \A i \in 1 .. Len(log) : log'[i] = log[i]
        /\ log'[Len(log) + 1] = tx
    BY <2>1, Grown
  <2>4. ASSUME NEW i \in 1 .. Len(log'), log'[i].wrote \cap Packages # {}
        PROVE  i = mine'
    BY <2>2, <2>3, <2>4
  <2>5. \A i \in 1 .. Len(log') : log'[i].v1 => OldEffects
    BY <2>1, <2>3
  <2> QED
    BY <2>1, <2>2, <2>3, <2>4, <2>5
<1>2. CASE Others
  <2>1. PICK id \in Objects \ Packages :
          \/ log' = Append(log, [NoTx EXCEPT !.wrote = {id}])
          \/ log' = Append(log, [NoTx EXCEPT !.gone = {id}])
    BY <1>2 DEF Others, Live
  <2>2. PICK tx \in Tx : log' = Append(log, tx) /\ tx.wrote \cap Packages = {} /\ ~tx.v1
    <3>1. /\ [NoTx EXCEPT !.wrote = {id}] \in Tx /\ [NoTx EXCEPT !.wrote = {id}].wrote = {id}
          /\ [NoTx EXCEPT !.gone = {id}] \in Tx /\ [NoTx EXCEPT !.gone = {id}].wrote = {}
          /\ ~[NoTx EXCEPT !.wrote = {id}].v1 /\ ~[NoTx EXCEPT !.gone = {id}].v1
      BY DEF Tx, NoTx
    <3> QED
      BY <2>1, <3>1
  <2>3. /\ log' \in Seq(Tx) /\ Len(log') = Len(log) + 1 /\ Len(log) \in Nat
        /\ \A i \in 1 .. Len(log) : log'[i] = log[i]
        /\ log'[Len(log) + 1] = tx
    BY <2>2, Grown
  <2>4. mine # 0 /\ UNCHANGED <<mine, pc, ingested>>
    BY <1>2 DEF Others
  <2>5. ASSUME NEW i \in 1 .. Len(log'), log'[i].wrote \cap Packages # {}
        PROVE  i = mine
    BY <2>2, <2>3, <2>5
  <2>6. \A i \in 1 .. Len(log') : log'[i].v1 => OldEffects
    BY <2>2, <2>3
  <2> QED
    BY <2>3, <2>4, <2>5, <2>6
<1>3. CASE Ingest
  BY <1>3, LenProperties DEF Ingest
<1>4. CASE Still
  BY <1>4 DEF Still
<1>5. CASE UNCHANGED vars
  BY <1>5 DEF vars
<1>6. CASE Call
  BY <1>4, <1>6 DEF Call, TxFailed, WaitForEffects, WaitForObject, NotInEffects,
                    WaitOver, End, Still
<1>7. CASE Poll \/ PollError
  BY <1>4, <1>7 DEF Poll, PollFound, PollFoundObject, PollMissing, PollError, Polling,
                    Pause, WaitOver, End, Still
<1>8. CASE Indexed \/ Wake \/ Tick
  BY <1>4, <1>8 DEF Indexed, Wake, Tick, Still
<1>9. CASE Lookup \/ LookupError
  BY <1>4, <1>9 DEF Lookup, Find, GetObjects, GetPage, LookupError, End, Still
<1> QED
  BY <1>1, <1>2, <1>3, <1>5, <1>6, <1>7, <1>8, <1>9 DEF Next, Program, Fault

(* What is left to poll stays a list of targets, whatever others do to the    *)
(* chain, and it runs out only when the indexer has caught up.                *)
LEMMA WaitStep ==
  ASSUME ChainInv, WaitInv, [Next]_vars
  PROVE  WaitInv'
<1> USE DEF WaitInv, env
<1>1. ASSUME UNCHANGED <<log, mine, flavour>>
      PROVE  Effects' = Effects /\ Targets' = Targets /\ Unreadable' = Unreadable
  BY <1>1 DEF Effects, Targets, Unreadable
<1>2. CASE Execute
  BY <1>2 DEF Execute
<1>3. CASE TxFailed \/ NotInEffects
  BY <1>3 DEF TxFailed, NotInEffects, WaitOver, End
<1>4. CASE WaitForEffects
  <2>1. /\ todo' = TargetVersions /\ pc = "sent" /\ pc' = "poll"
        /\ UNCHANGED <<log, mine, flavour, ingested, waited>>
    BY <1>4 DEF WaitForEffects
  <2> QED
    BY <1>1, <2>1, TargetsListed DEF ChainInv
<1>5. CASE WaitForObject
  <2>1. PICK i \in DOMAIN TargetVersions : todo' = <<TargetVersions[i]>>
    BY <1>5 DEF WaitForObject
  <2>2. /\ pc = "sent" /\ pc' = "poll"
        /\ UNCHANGED <<log, mine, flavour, ingested, waited>>
    BY <1>5 DEF WaitForObject
  <2>3. TargetVersions[i] \in Targets
    BY <2>2, TargetsListed, LenProperties, ElementOfSeq DEF ChainInv
  <2>4. todo' \in Seq(Targets) /\ todo' # <<>>
    BY <2>1, <2>3
  <2> QED
    BY <1>1, <2>2, <2>4
<1>6. CASE PollFound
  <2>1. /\ pc = "poll" /\ todo # <<>> /\ todo' = Tail(todo)
        /\ Served(todo[1][1], todo[1][2])
        /\ UNCHANGED <<log, mine, flavour, ingested, waited, pc>>
    BY <1>6 DEF PollFound, Polling
  <2>2. todo \in Seq(Targets) /\ todo[1] \in Targets /\ todo' \in Seq(Targets)
    <3>1. todo \in Seq(Targets)
      BY <2>1
    <3>2. 1 \in 1 .. Len(todo)
      BY <2>1, <3>1, EmptySeq
    <3> QED
      BY <2>1, <3>1, <3>2, ElementOfSeq, HeadTailProperties
  <2>3. mine <= ingested
    BY <2>1, <2>2, FoundIsShown
  <2> QED
    BY <1>1, <2>1, <2>2, <2>3
<1>7. CASE PollFoundObject
  BY <1>7 DEF PollFoundObject, WaitOver, End
<1>8. CASE PollMissing
  <2>1. pc = "poll" /\ UNCHANGED <<log, mine, flavour, ingested, todo>>
    BY <1>8 DEF PollMissing, Polling
  <2>2. CASE pc' = "done"
    BY <2>2
  <2>3. CASE pc' = "sleep" /\ UNCHANGED waited
    BY <1>1, <2>1, <2>3
  <2> QED
    BY <1>8, <2>2, <2>3 DEF PollMissing, Pause, WaitOver, End
<1>9. CASE PollError
  <2>1. pc = "poll" /\ UNCHANGED <<log, mine, flavour, ingested, todo>>
    BY <1>9 DEF PollError, Polling
  <2>2. CASE pc' = "done"
    BY <2>2
  <2>3. CASE pc' = "sleep" /\ UNCHANGED waited
    BY <1>1, <2>1, <2>3
  <2> QED
    BY <1>9, <2>2, <2>3 DEF PollError, Pause, WaitOver, End
<1>10. CASE Indexed \/ Lookup \/ LookupError
  BY <1>10 DEF Indexed, Lookup, Find, GetObjects, GetPage, LookupError, End
<1>11. CASE Wake \/ Tick
  <2>1. /\ UNCHANGED <<log, mine, flavour, ingested, todo, waited>>
        /\ pc \in {"poll", "sleep"} /\ pc' \in {"poll", "sleep"}
    BY <1>11 DEF Wake, Tick
  <2> QED
    BY <1>1, <2>1
<1>12. CASE Others
  <2>1. mine # 0 /\ UNCHANGED <<mine, flavour, ingested, todo, pc, waited>>
    BY <1>12 DEF Others
  <2>2. PICK tx : log' = Append(log, tx)
    BY <1>12 DEF Others
  <2>3. log'[mine] = log[mine]
    BY <2>1, <2>2, LenProperties DEF ChainInv
  <2>4. Targets' = Targets /\ Unreadable' = Unreadable
    BY <2>1, <2>3 DEF Targets, Unreadable, Effects
  <2> QED
    BY <2>1, <2>4
<1>13. CASE Ingest
  <2>1. UNCHANGED <<log, mine, flavour, todo, pc, waited>> /\ ingested' = ingested + 1
    BY <1>13 DEF Ingest
  <2> QED
    BY <1>1, <2>1 DEF ChainInv
<1>14. CASE UNCHANGED vars
  <2>1. UNCHANGED <<log, mine, flavour, ingested, todo, pc, waited>>
    BY <1>14 DEF vars
  <2> QED
    BY <1>1, <2>1
<1> QED
  BY <1>2, <1>3, <1>4, <1>5, <1>6, <1>7, <1>8, <1>9, <1>10, <1>11, <1>12, <1>13, <1>14
     DEF Next, Program, Fault, Call, Poll

-----------------------------------------------------------------------------
(* The invariants hold before the program does anything.                      *)
LEMMA FollowsInit ==
  ASSUME Init
  PROVE  ChainInv /\ WaitInv
<1>1. PICK tx \in Tx : log = <<tx>> /\ tx.wrote \cap Packages = {} /\ ~tx.v1
  <2>1. PICK old \in SUBSET (Objects \ Packages) :
          log = <<[NoTx EXCEPT !.wrote = old \cup {Gas}]>>
    BY DEF Init
  <2>2. /\ [NoTx EXCEPT !.wrote = old \cup {Gas}] \in Tx
        /\ [NoTx EXCEPT !.wrote = old \cup {Gas}].wrote = old \cup {Gas}
        /\ ~[NoTx EXCEPT !.wrote = old \cup {Gas}].v1
    BY ObjectsAssumption DEF Tx, NoTx
  <2>3. (old \cup {Gas}) \cap Packages = {}
    BY ObjectsAssumption
  <2> QED
    BY <2>1, <2>2, <2>3
<1>2. log \in Seq(Tx) /\ Len(log) = 1 /\ log[1] = tx
  BY <1>1
<1>3. log[1].wrote \cap Packages = {} /\ ~log[1].v1
  BY <1>1, <1>2
<1>4. mine = 0 /\ ingested = 1 /\ pc = "idle" /\ waited = "none"
  BY DEF Init
<1>5. \A i \in 1 .. Len(log) : /\ log[i].wrote \cap Packages # {} => i = mine
                               /\ log[i].v1 => OldEffects
  BY <1>2, <1>3
<1>6. ChainInv
  BY <1>2, <1>4, <1>5 DEF ChainInv
<1> QED
  BY <1>4, <1>6 DEF WaitInv

(* In every behaviour the program is where the chain says, and waits for what *)
(* its transaction wrote.                                                     *)
THEOREM Following == Spec => [](ChainInv /\ WaitInv)
<1>1. ChainInv /\ WaitInv /\ [Next]_vars => (ChainInv /\ WaitInv)'
  BY ChainStep, WaitStep
<1> QED
  BY <1>1, FollowsInit, PTL DEF Spec

-----------------------------------------------------------------------------
(* A step that answers nothing new and shows nothing new is no step of        *)
(* AwaitIndexed.                                                              *)
LEMMA Stutter ==
  ASSUME UNCHANGED <<mine, ingested, waited>>
  PROVE  UNCHANGED Await!vars
BY DEF Await!vars

(* Every step of the program, of the indexer and of the others is a step of   *)
(* AwaitIndexed or none.                                                      *)
LEMMA StepKeeps ==
  ASSUME ~OldEffects, ChainInv, WaitInv, [Next]_vars
  PROVE  [Await!Next]_(Await!vars)
<1> USE DEF env
<1>1. CASE Execute
  <2>1. mine = 0 /\ mine' = Len(log) + 1 /\ UNCHANGED <<ingested, waited>> /\ waited = "none"
    BY <1>1 DEF Execute, ChainInv, WaitInv
  <2>2. Len(log) \in Nat
    BY LenProperties DEF ChainInv
  <2> QED
    BY <2>1, <2>2 DEF Await!Next, Await!Send, ChainInv
<1>2. CASE TxFailed \/ NotInEffects
  <2>1. /\ mine # 0 /\ waited = "none" /\ waited' = "error"
        /\ UNCHANGED <<mine, ingested>>
    BY <1>2 DEF TxFailed, NotInEffects, WaitOver, ChainInv, WaitInv
  <2> QED
    BY <2>1 DEF Await!Next, Await!Fail
<1>3. CASE PollFoundObject
  <2>1. /\ pc = "poll" /\ todo # <<>> /\ Served(todo[1][1], todo[1][2])
        /\ mine # 0 /\ waited = "none" /\ waited' = "ok"
        /\ UNCHANGED <<mine, ingested>>
    BY <1>3 DEF PollFoundObject, Polling, WaitOver, ChainInv, WaitInv
  <2>2. todo[1] \in Targets
    BY <2>1, EmptySeq, ElementOfSeq DEF WaitInv
  <2>3. mine <= ingested
    BY <2>1, <2>2, FoundIsShown
  <2> QED
    BY <2>1, <2>3 DEF Await!Next, Await!Ok, ChainInv
<1>4. CASE Indexed
  <2>1. /\ pc = "poll" /\ todo = <<>>
        /\ mine # 0 /\ waited = "none" /\ waited' = "ok"
        /\ UNCHANGED <<mine, ingested>>
    BY <1>4 DEF Indexed, ChainInv, WaitInv
  <2>2. mine <= ingested
    BY <2>1, Readable DEF WaitInv
  <2> QED
    BY <2>1, <2>2 DEF Await!Next, Await!Ok, ChainInv
<1>5. CASE PollMissing \/ PollError
  <2>1. /\ pc = "poll" /\ mine # 0 /\ waited = "none"
        /\ UNCHANGED <<mine, ingested>>
    BY <1>5 DEF PollMissing, PollError, Polling, ChainInv, WaitInv
  <2>2. CASE UNCHANGED waited
    BY <2>1, <2>2, Stutter
  <2>3. CASE waited' = "error"
    BY <2>1, <2>3 DEF Await!Next, Await!Fail
  <2> QED
    BY <1>5, <2>2, <2>3 DEF PollMissing, PollError, Pause, WaitOver
<1>6. CASE Ingest
  <2>1. UNCHANGED <<mine, waited>> /\ ingested' = ingested + 1
    BY <1>6 DEF Ingest
  <2> QED
    BY <2>1 DEF Await!Next, Await!Show
<1>7. CASE Others
  BY <1>7, Stutter DEF Others
<1>8. CASE WaitForEffects \/ WaitForObject \/ PollFound \/ Wake \/ Tick
  BY <1>8, Stutter DEF WaitForEffects, WaitForObject, PollFound, Wake, Tick
<1>9. CASE Lookup \/ LookupError
  BY <1>9, Stutter DEF Lookup, Find, GetObjects, GetPage, LookupError
<1>10. CASE UNCHANGED vars
  BY <1>10, Stutter DEF vars
<1> QED
  BY <1>1, <1>2, <1>3, <1>4, <1>5, <1>6, <1>7, <1>8, <1>9, <1>10
     DEF Next, Program, Fault, Call, Poll

(* wait_for_effects and wait_for_object implement AwaitIndexed: whatever      *)
(* lags, fails or is deleted, they say Ok only when the indexer shows the     *)
(* transaction.  Nodes have no effects of the first format.                   *)
THEOREM WaitImplements ==
  ASSUME ~OldEffects
  PROVE  Spec => KeepsAwait
<1>1. Init => Await!Init
  BY DEF Init, Await!Init
<1>2. ChainInv /\ WaitInv /\ [Next]_vars => [Await!Next]_(Await!vars)
  BY StepKeeps
<1> QED
  BY <1>1, <1>2, Following, PTL DEF Spec, KeepsAwait, Await!Spec

-----------------------------------------------------------------------------
(* The sleeps that fit before the deadline.                                   *)
LEMMA Sleeps ==
  ASSUME NEW p \in Nat, (p - 1) * Interval < Timeout
  PROVE  /\ (Timeout + Interval - 1) \div Interval \in Nat
         /\ p <= (Timeout + Interval - 1) \div Interval
<1> DEFINE a == Timeout + Interval - 1
           q == a \div Interval
<1>1. a \in Nat /\ Interval \in Nat \ {0}
  BY BoundsAssumption
<1> HIDE DEF a
<1>2. q \in Nat /\ a < (q + 1) * Interval
  BY <1>1
<1>3. p * Interval <= a
  BY BoundsAssumption DEF a
<1> HIDE DEF q
<1>4. p * Interval < (q + 1) * Interval
  BY <1>1, <1>2, <1>3
<1>5. p < q + 1
  BY <1>1, <1>2, <1>4
<1> QED
  BY <1>2, <1>5 DEF a, q

(* p sleeps have been begun before the deadline and are over by time t.       *)
Slept(p, t) == (p - 1) * Interval < Timeout /\ p * Interval <= t

Written == Cardinality(Effects.wrote)

(* Every poll so far found a target that is off the list or was followed by a *)
(* sleep of the one deadline.                                                 *)
PollsInv ==
  /\ now \in Nat /\ wake \in Nat /\ polls \in Nat
  /\ pc \in {"idle", "sent"} => polls = 0
  /\ pc \notin {"idle", "sent"} => polls <= Written + (Timeout + Interval - 1) \div Interval
  /\ pc = "poll" => \E p \in Nat : polls + Len(todo) <= Written + p /\ Slept(p, now)
  /\ pc = "sleep" => \E p \in Nat : polls + Len(todo) <= Written + p /\ Slept(p, wake)

(* There is at least the coin among what the transaction wrote, and no more   *)
(* targets than objects.                                                      *)
LEMMA WrittenNat ==
  ASSUME ChainInv, mine # 0
  PROVE  /\ Written \in Nat \ {0}
         /\ Len(TargetVersions) \in Nat /\ Len(TargetVersions) <= Written
<1>1. Effects \in Tx /\ Gas \in Effects.wrote
  BY ElementOfSeq DEF ChainInv, Effects
<1>2. IsFiniteSet(Effects.wrote) /\ IsFiniteSet({})
  BY <1>1, ObjectsAssumption, FS_Subset, FS_EmptySet DEF Tx
<1>3. Written \in Nat \ {0} /\ Cardinality({}) = 0
  BY <1>1, <1>2, FS_CardinalityType, FS_EmptySet DEF Written
<1> DEFINE W == IF Unreadable THEN {} ELSE Effects.wrote
           ids == SetToSeq(W)
<1>4. ids \in Seq(W) /\ Len(ids) = Cardinality(W)
  BY <1>2, Listing
<1>5. Len(ids) \in Nat /\ DOMAIN ids = 1 .. Len(ids)
  BY <1>4, LenProperties
<1>6. TargetVersions = [i \in 1 .. Len(ids) |-> <<ids[i], VersionAt(mine, ids[i])>>]
  BY <1>5 DEF TargetVersions
<1>7. Len(TargetVersions) = Len(ids)
  BY <1>5, <1>6
<1> QED
  BY <1>3, <1>4, <1>5, <1>7 DEF Written

(* Another sleep may begin before the deadline.                               *)
LEMMA SleepOn ==
  ASSUME NEW p \in Nat, NEW t \in Nat, Slept(p, t), t < Timeout
  PROVE  Slept(p + 1, t + Interval)
<1>1. p * Interval \in Nat /\ (p + 1) * Interval = p * Interval + Interval
  BY BoundsAssumption
<1> QED
  BY <1>1, BoundsAssumption DEF Slept

(* There is room for one more poll while a target is left.                    *)
LEMMA OneMorePoll ==
  ASSUME ChainInv, WaitInv, PollsInv, pc = "poll", todo # <<>>
  PROVE  /\ Len(todo) \in Nat \ {0}
         /\ polls + 1 <= Written + (Timeout + Interval - 1) \div Interval
<1>1. Len(todo) \in Nat \ {0}
  BY EmptySeq DEF WaitInv
<1>2. PICK p \in Nat : polls + Len(todo) <= Written + p /\ Slept(p, now)
  BY DEF PollsInv
<1>3. Written \in Nat
  BY WrittenNat DEF ChainInv
<1> DEFINE q == (Timeout + Interval - 1) \div Interval
<1>4. p <= q /\ q \in Nat
  BY <1>2, Sleeps DEF Slept
<1> HIDE DEF q, Written
<1>5. polls + 1 <= Written + q
  BY <1>1, <1>2, <1>3, <1>4 DEF PollsInv
<1> QED
  BY <1>1, <1>5 DEF q

(* No step moves the transaction or its effects once they are there.          *)
LEMMA EffectsStay ==
  ASSUME ChainInv, [Next]_vars, mine # 0
  PROVE  mine' = mine /\ Effects' = Effects /\ Written' = Written
<1> USE DEF env
<1>1. CASE Others
  <2>1. PICK tx : log' = Append(log, tx)
    BY <1>1 DEF Others
  <2>2. log'[mine] = log[mine] /\ mine' = mine
    BY <1>1, <2>1, LenProperties DEF ChainInv, Others
  <2> QED
    BY <2>2 DEF Effects, Written
<1>2. CASE UNCHANGED <<log, mine>>
  BY <1>2 DEF Effects, Written
<1>3. CASE Execute
  BY <1>3 DEF Execute, ChainInv
<1>4. CASE Call \/ Poll \/ PollError
  BY <1>2, <1>4 DEF Call, TxFailed, WaitForEffects, WaitForObject, NotInEffects,
                    Poll, PollFound, PollFoundObject, PollMissing, PollError
<1>5. CASE Indexed \/ Wake \/ Tick \/ Ingest
  BY <1>2, <1>5 DEF Indexed, Wake, Tick, Ingest
<1>6. CASE Lookup \/ LookupError
  BY <1>2, <1>6 DEF Lookup, Find, GetObjects, GetPage, LookupError
<1>7. CASE UNCHANGED vars
  BY <1>2, <1>7 DEF vars
<1> QED
  BY <1>1, <1>3, <1>4, <1>5, <1>6, <1>7 DEF Next, Program, Fault

(* The count of the polls survives every step.                                *)
LEMMA PollsStep ==
  ASSUME ChainInv, WaitInv, PollsInv, [Next]_vars
  PROVE  PollsInv'
<1> DEFINE Bound == (Timeout + Interval - 1) \div Interval
<1> USE DEF env, clock
<1>1. Bound \in Nat
  BY Sleeps, BoundsAssumption
<1>2. now \in Nat /\ wake \in Nat /\ polls \in Nat
  BY DEF PollsInv
<1>3. ASSUME mine # 0
      PROVE  Written \in Nat /\ Written' = Written
  BY <1>3, EffectsStay, WrittenNat
<1>4. CASE Execute
  BY <1>4 DEF Execute, PollsInv
<1>5. ASSUME pc \notin {"idle", "sent"}, pc' \notin {"idle", "sent", "poll", "sleep"},
             UNCHANGED clock
      PROVE  PollsInv'
  BY <1>2, <1>3, <1>5 DEF PollsInv, ChainInv
<1>6. ASSUME pc = "poll", todo # <<>>, polls' = polls + 1, UNCHANGED <<now, wake>>,
             pc' = "done"
      PROVE  PollsInv'
  BY <1>2, <1>3, <1>6, OneMorePoll DEF PollsInv, ChainInv
<1>7. ASSUME pc = "poll", todo # <<>>, polls' = polls + 1, UNCHANGED now, UNCHANGED todo,
             pc' = "sleep", wake' = now + Interval, now < Timeout
      PROVE  PollsInv'
  <2>1. PICK p \in Nat : polls + Len(todo) <= Written + p /\ Slept(p + 1, now + Interval)
    <3>1. PICK p \in Nat : polls + Len(todo) <= Written + p /\ Slept(p, now)
      BY <1>7 DEF PollsInv
    <3>2. Slept(p + 1, now + Interval)
      BY <1>2, <1>7, <3>1, SleepOn
    <3> QED
      BY <3>1, <3>2
  <2>2. Len(todo) \in Nat /\ polls + 1 <= Written + Bound
    BY <1>7, OneMorePoll
  <2>3. mine # 0
    BY <1>7 DEF ChainInv
  <2>4. p + 1 \in Nat /\ polls' + Len(todo') <= Written' + (p + 1) /\ Slept(p + 1, wake')
    <3> HIDE DEF Bound
    <3> QED
      BY <1>2, <1>3, <1>7, <2>1, <2>2, <2>3
  <2>5. \E k \in Nat : polls' + Len(todo') <= Written' + k /\ Slept(k, wake)'
    BY <2>4 DEF Slept
  <2>6. now' \in Nat /\ wake' \in Nat /\ polls' \in Nat /\ polls' <= Written' + Bound
    BY <1>2, <1>3, <1>7, <2>2, <2>3, BoundsAssumption
  <2> QED
    BY <1>7, <2>5, <2>6 DEF PollsInv
<1>8. CASE PollMissing \/ PollError
  <2>1. pc = "poll" /\ todo # <<>> /\ polls' = polls + 1 /\ UNCHANGED <<now, todo>>
    BY <1>8 DEF PollMissing, PollError, Polling
  <2>2. CASE pc' = "done"
    <3>1. UNCHANGED wake
      BY <1>8, <2>2 DEF PollMissing, PollError, Pause, WaitOver
    <3> QED
      BY <1>6, <2>1, <2>2, <3>1
  <2>3. CASE pc' # "done"
    <3>1. pc' = "sleep" /\ wake' = now + Interval /\ ~(now >= Timeout)
      BY <1>8, <2>3 DEF PollMissing, PollError, Pause, WaitOver, End
    <3>2. now < Timeout
      BY <1>2, <3>1, BoundsAssumption
    <3> QED
      BY <1>7, <2>1, <3>1, <3>2
  <2> QED
    BY <2>2, <2>3
<1>9. CASE PollFoundObject
  BY <1>6, <1>9 DEF PollFoundObject, Polling, WaitOver, End
<1>10. CASE PollFound
  <2>1. /\ pc = "poll" /\ pc' = "poll" /\ todo # <<>> /\ polls' = polls + 1
        /\ todo' = Tail(todo) /\ UNCHANGED <<now, wake>>
    BY <1>10 DEF PollFound, Polling, Found
  <2>2. PICK p \in Nat : polls + Len(todo) <= Written + p /\ Slept(p, now)
    BY <2>1 DEF PollsInv
  <2>3. /\ Len(todo) \in Nat /\ polls + 1 <= Written + Bound
    BY <2>1, OneMorePoll
  <2>4. Len(todo') = Len(todo) - 1
    BY <2>1, HeadTailProperties DEF WaitInv
  <2>5. mine # 0
    BY <2>1 DEF ChainInv
  <2>6. polls' + Len(todo') <= Written' + p /\ Slept(p, now')
    <3> HIDE DEF Bound
    <3> QED
      BY <1>2, <1>3, <2>1, <2>2, <2>3, <2>4, <2>5
  <2>7. \E k \in Nat : polls' + Len(todo') <= Written' + k /\ Slept(k, now)'
    BY <2>6 DEF Slept
  <2>8. now' \in Nat /\ wake' \in Nat /\ polls' \in Nat /\ polls' <= Written' + Bound
    BY <1>2, <1>3, <2>1, <2>3, <2>5
  <2> QED
    BY <2>1, <2>7, <2>8 DEF PollsInv
<1>11. CASE TxFailed \/ NotInEffects \/ Indexed
  <2>1. UNCHANGED clock /\ pc' \in {"done", "indexed"} /\ pc \in {"sent", "poll"}
    BY <1>11 DEF TxFailed, NotInEffects, Indexed, WaitOver, End
  <2> QED
    BY <1>1, <1>2, <1>3, <2>1 DEF PollsInv, ChainInv
<1>12. CASE WaitForEffects \/ WaitForObject
  <2>1. pc = "sent" /\ pc' = "poll" /\ UNCHANGED clock /\ mine # 0 /\ polls = 0
    BY <1>12 DEF WaitForEffects, WaitForObject, ChainInv, PollsInv
  <2>2. /\ Written \in Nat \ {0} /\ Len(TargetVersions) \in Nat
        /\ Len(TargetVersions) <= Written /\ Written' = Written
    BY <2>1, WrittenNat, EffectsStay
  <2>3. todo' = TargetVersions \/ \E t : todo' = <<t>>
    BY <1>12 DEF WaitForEffects, WaitForObject
  <2>4. Len(todo') \in Nat /\ Len(todo') <= Written
    <3>1. CASE todo' = TargetVersions
      BY <2>2, <3>1
    <3>2. ASSUME NEW t, todo' = <<t>>
          PROVE  Len(todo') = 1
      BY <3>2
    <3> QED
      BY <2>2, <2>3, <3>1, <3>2
  <2>5. Slept(0, now')
    BY <1>2, <2>1, BoundsAssumption DEF Slept
  <2>6. polls' + Len(todo') <= Written' + 0
    BY <2>1, <2>2, <2>4
  <2>7. \E k \in Nat : polls' + Len(todo') <= Written' + k /\ Slept(k, now)'
    BY <2>5, <2>6 DEF Slept
  <2>8. now' \in Nat /\ wake' \in Nat /\ polls' \in Nat /\ polls' <= Written' + Bound
    <3> HIDE DEF Bound
    <3> QED
      BY <1>1, <1>2, <2>1, <2>2
  <2> QED
    BY <2>1, <2>7, <2>8 DEF PollsInv
<1>13. CASE Wake
  <2>1. /\ pc = "sleep" /\ pc' = "poll" /\ wake <= now /\ mine # 0
        /\ UNCHANGED <<now, wake, polls, todo>>
    BY <1>2, <1>13 DEF Wake, ChainInv
  <2>2. PICK p \in Nat : polls + Len(todo) <= Written + p /\ Slept(p, wake)
    BY <2>1 DEF PollsInv
  <2>3. Slept(p, now)
    <3>1. p * Interval \in Nat
      BY BoundsAssumption
    <3> QED
      BY <1>2, <2>1, <2>2, <3>1 DEF Slept
  <2>4. \E k \in Nat : polls' + Len(todo') <= Written' + k /\ Slept(k, now)'
    BY <1>3, <2>1, <2>2, <2>3 DEF Slept
  <2> QED
    BY <1>2, <1>3, <2>1, <2>4 DEF PollsInv
<1>14. CASE Tick
  <2>1. /\ pc \in {"poll", "sleep"} /\ now' = now + 1 /\ mine # 0
        /\ UNCHANGED <<pc, wake, polls, todo>>
    BY <1>14 DEF Tick, ChainInv
  <2>2. ASSUME NEW p \in Nat, Slept(p, now)
        PROVE  Slept(p, now')
    <3>1. p * Interval \in Nat
      BY BoundsAssumption
    <3> QED
      BY <1>2, <2>1, <2>2, <3>1 DEF Slept
  <2>3. pc = "poll" =>
          \E k \in Nat : polls' + Len(todo') <= Written' + k /\ Slept(k, now)'
    <3>1. SUFFICES ASSUME pc = "poll"
                   PROVE  \E k \in Nat : polls' + Len(todo') <= Written' + k /\ Slept(k, now)'
      OBVIOUS
    <3>2. PICK p \in Nat : polls + Len(todo) <= Written + p /\ Slept(p, now)
      BY <3>1 DEF PollsInv
    <3> QED
      BY <1>3, <2>1, <2>2, <3>2 DEF Slept
  <2>4. pc = "sleep" =>
          \E k \in Nat : polls' + Len(todo') <= Written' + k /\ Slept(k, wake)'
    BY <1>3, <2>1 DEF Slept, PollsInv
  <2> QED
    BY <1>2, <1>3, <2>1, <2>3, <2>4 DEF PollsInv
<1>15. CASE Others
  <2>1. UNCHANGED <<now, wake, polls, todo, pc>> /\ mine # 0
    BY <1>15 DEF Others
  <2> QED
    BY <1>2, <1>3, <2>1 DEF PollsInv, Slept
<1>16. CASE Lookup \/ LookupError
  <2>1. /\ UNCHANGED <<now, wake, polls>> /\ mine # 0 /\ pc \in {"indexed", "get"}
        /\ pc' \in {"indexed", "get", "done"}
    BY <1>16 DEF Lookup, Find, GetObjects, GetPage, LookupError, End, ChainInv
  <2> QED
    BY <1>2, <1>3, <2>1 DEF PollsInv
<1>17. CASE Ingest \/ UNCHANGED vars
  <2>1. UNCHANGED <<now, wake, polls, todo, pc, log, mine>>
    BY <1>17 DEF Ingest, vars
  <2>2. Written' = Written
    BY <2>1 DEF Written, Effects
  <2> QED
    BY <1>2, <2>1, <2>2 DEF PollsInv, Slept
<1> QED
  BY <1>4, <1>8, <1>9, <1>10, <1>11, <1>12, <1>13, <1>14, <1>15, <1>16, <1>17
     DEF Next, Program, Fault, Call, Poll

(* All targets share one deadline: the polls of a wait are no more than the   *)
(* objects the transaction wrote and the intervals of the timeout.            *)
THEOREM PollsStayFew == Spec => []PollsBounded
<1>1. Init => PollsInv
  BY DEF Init, PollsInv
<1>2. ChainInv /\ WaitInv /\ PollsInv /\ [Next]_vars => PollsInv'
  BY PollsStep
<1>3. ChainInv /\ PollsInv => PollsBounded
  <2> SUFFICES ASSUME ChainInv, PollsInv, mine # 0
               PROVE  polls <= Written + (Timeout + Interval - 1) \div Interval
    BY DEF PollsBounded, Written
  <2>1. Written \in Nat
    BY WrittenNat
  <2>2. (Timeout + Interval - 1) \div Interval \in Nat
    BY Sleeps, BoundsAssumption
  <2> QED
    BY <2>1, <2>2 DEF PollsInv
<1> QED
  BY <1>1, <1>2, <1>3, Following, PTL DEF Spec

-----------------------------------------------------------------------------
(* Types                                                                     *)

(* A set of numbers up to n has a largest one.                               *)
LEMMA LargestExists ==
  ASSUME NEW n \in Nat, NEW S \in SUBSET (1 .. n), S # {}
  PROVE  Max(S) \in S /\ \A i \in S : i <= Max(S)
<1> DEFINE below == {n - i : i \in S}
<1>1. \A i \in S : i \in Int /\ n - i \in Nat
  OBVIOUS
<1>2. below \subseteq Nat /\ below # {}
  BY <1>1
<1>3. \E k \in below : \A j \in below : k <= j
  <2> HIDE DEF below
  <2>1. PICK k \in below : \A j \in below : <<j, k>> \notin OpToRel(<, Nat)
    BY <1>2, NatLessThanWellFounded, WFMin, Zenon
  <2>2. \A j \in below : ~(j < k)
    BY <1>2, <2>1, Zenon DEF OpToRel
  <2> QED
    BY <1>2, <2>2
<1>4. PICK m \in S : \A j \in below : n - m <= j
  BY <1>3
<1>5. \A i \in S : i <= m
  <2> SUFFICES ASSUME NEW i \in S PROVE i <= m
    OBVIOUS
  <2>1. n - m <= n - i
    BY <1>4
  <2> QED
    BY <1>1, <2>1
<1>6. Max(S) \in S /\ \A i \in S : Max(S) >= i
  <2>1. \E x \in S : \A y \in S : x >= y
    BY <1>1, <1>5
  <2> QED
    BY <2>1, Zenon DEF Max
<1> QED
  BY <1>1, <1>6

(* The version at which an object is shown.                                  *)
LEMMA LastWritten ==
  ASSUME NEW n \in Nat, NEW id \in Live(n)
  PROVE  /\ LastWrite(n, id) \in 1 .. n
         /\ \A i \in 1 .. n : id \in log[i].wrote => i <= LastWrite(n, id)
<1> DEFINE W == {i \in 1 .. n : id \in log[i].wrote}
<1>1. W \in SUBSET (1 .. n) /\ W # {}
  BY DEF Live
<1>2. Max(W) \in W /\ \A i \in W : i <= Max(W)
  <2> HIDE DEF W
  <2> QED
    BY <1>1, LargestExists
<1> QED
  BY <1>2 DEF LastWrite

(* What the three kinds of lookup ask for.                                   *)
LEMMA KindsOfChange ==
  /\ ChangedIds("created") = Counted \cap Created
  /\ ChangedIds("mutated") = Counted \ Created
  /\ ChangedIds("any") = Counted
BY Zenon DEF ChangedIds

(* What get_objects ends with.                                                *)
LEMMA DecodedIs ==
  ASSUME NEW objs
  PROVE  \/ refs \ Ids(objs) # {} /\ Decoded(objs) = "NotFound"
         \/ refs \subseteq Ids(objs) /\ refs \ Wanted # {} /\ Decoded(objs) = "Decode"
         \/ refs \subseteq Ids(objs) /\ refs \subseteq Wanted /\ Decoded(objs) = "ok"
<1>1. CASE refs \ Ids(objs) # {}
  <2>1. Decoded(objs) = "NotFound"
    BY <1>1, Zenon DEF Decoded
  <2> QED
    BY <1>1, <2>1
<1>2. CASE refs \ Ids(objs) = {} /\ refs \ Wanted # {}
  <2>1. Decoded(objs) = "Decode"
    BY <1>2, Zenon DEF Decoded
  <2> QED
    BY <1>2, <2>1
<1>3. CASE refs \ Ids(objs) = {} /\ refs \ Wanted = {}
  <2>1. Decoded(objs) = "ok"
    BY <1>3, Zenon DEF Decoded
  <2> QED
    BY <1>3, <2>1
<1> QED
  BY <1>1, <1>2, <1>3

TypesInv == ReadsTypeOK /\ (pc = "idle" => Len(log) = 1)

(* Targets are objects at versions of the log.                               *)
LEMMA TargetTypes ==
  ASSUME ChainInv, TypesInv, mine # 0
  PROVE  /\ TargetVersions \in Seq(Objects \X (0 .. MaxLog))
         /\ \A i \in DOMAIN TargetVersions :
              <<TargetVersions[i]>> \in Seq(Objects \X (0 .. MaxLog))
<1>1. log[mine] \in Tx
  BY ElementOfSeq DEF ChainInv
<1>2. mine \in 0 .. MaxLog /\ 0 \in 0 .. MaxLog
  <2>1. Len(log) \in 1 .. MaxLog /\ mine \in 0 .. Len(log) /\ MaxLog \in Nat
    BY BoundsAssumption DEF TypesInv, ReadsTypeOK
  <2> QED
    BY <2>1
<1>3. Targets \subseteq Objects \X (0 .. MaxLog)
  BY <1>1, <1>2 DEF Targets, Tx, VersionAt, PackageVersion
<1>4. TargetVersions \in Seq(Targets)
  BY TargetsListed
<1>5. TargetVersions \in Seq(Objects \X (0 .. MaxLog))
  BY <1>3, <1>4
<1> QED
  BY <1>5

(* Lookups are for objects.                                                  *)
LEMMA ChangedAreWritten ==
  ASSUME ChainInv, mine # 0, NEW k \in {"created", "mutated", "any"}
  PROVE  ChangedIds(k) \subseteq Effects.wrote /\ Effects.wrote \subseteq Objects
<1>1. Effects \in Tx
  BY ElementOfSeq DEF ChainInv, Effects
<1> QED
  BY <1>1, KindsOfChange DEF Counted, Tx

(* The log grows by one transaction at a time, up to the bound.              *)
LEMMA LogTypesStep ==
  ASSUME ChainInv, TypesInv, [Next]_vars
  PROVE  /\ log' \in Seq(Tx) /\ Len(log') \in 1 .. MaxLog
         /\ ingested' \in 1 .. Len(log') /\ mine' \in 0 .. Len(log')
         /\ pc' = "idle" => Len(log') = 1
<1> USE DEF TypesInv, ReadsTypeOK, env
<1>1. ChainInv'
  BY ChainStep
<1>2. Len(log) \in Nat /\ MaxLog \in Nat \ {0, 1}
  BY BoundsAssumption
<1>3. CASE Execute
  <2>1. /\ \E tx : log' = Append(log, tx)
        /\ pc = "idle" /\ pc' = "sent" /\ ingested' = ingested
    BY <1>3 DEF Execute
  <2>2. Len(log) = 1
    BY <2>1
  <2>3. Len(log') = 2
    <3>1. PICK tx : log' = Append(log, tx)
      BY <2>1
    <3>2. Len(log') = Len(log) + 1
      BY <3>1
    <3> QED
      BY <2>2, <3>2
  <2> QED
    BY <1>1, <1>2, <2>1, <2>3 DEF ChainInv
<1>4. CASE Others
  <2>1. /\ \E tx : log' = Append(log, tx)
        /\ pc' = pc /\ mine # 0 /\ mine' = mine /\ ingested' = ingested /\ Len(log) < MaxLog
    BY <1>4 DEF Others
  <2>2. Len(log') = Len(log) + 1
    BY <2>1
  <2>3. pc # "idle"
    BY <2>1 DEF ChainInv
  <2> QED
    BY <1>1, <1>2, <2>1, <2>2, <2>3 DEF ChainInv
<1>5. CASE Ingest
  BY <1>1, <1>2, <1>5 DEF Ingest, ChainInv
<1>6. CASE UNCHANGED <<log, ingested, mine>> /\ (pc' = "idle" => pc = "idle")
  BY <1>6
<1>7. CASE Call \/ Poll \/ PollError
  BY <1>6, <1>7 DEF Call, TxFailed, WaitForEffects, WaitForObject, NotInEffects, WaitOver,
                    End, Poll, PollFound, PollFoundObject, PollMissing, PollError, Pause
<1>8. CASE Indexed \/ Wake \/ Tick \/ Lookup \/ LookupError \/ UNCHANGED vars
  BY <1>6, <1>8 DEF Indexed, Wake, Tick, Lookup, Find, GetObjects, GetPage, LookupError,
                    End, vars
<1> QED
  BY <1>3, <1>4, <1>5, <1>7, <1>8 DEF Next, Program, Fault

(* So do the rest of the variables.                                          *)
LEMMA TypesStep ==
  ASSUME ChainInv, TypesInv, [Next]_vars
  PROVE  TypesInv'
<1> DEFINE Rest ==
      /\ flavour \in Flavours
      /\ pc \in {"idle", "sent", "poll", "sleep", "indexed", "get", "done"}
      /\ todo \in Seq(Objects \X (0 .. MaxLog))
      /\ single \in BOOLEAN
      /\ now \in 0 .. MaxNow
      /\ wake \in 0 .. (Timeout + Interval)
      /\ polls \in Nat
      /\ refs \in SUBSET Objects
      /\ got \in SUBSET [id : Objects, version : 0 .. MaxLog]
      /\ kind \in {"created", "mutated", "any", "ids"}
      /\ waited \in {"none", "ok", "error"}
      /\ outcome \in {"none", "ok", "TxFailed", "NotInEffects", "Timeout", "Backend",
                      "Decode", "NotFound"}
      /\ faults \in 0 .. MaxFaults
<1>1. Rest
  BY DEF TypesInv, ReadsTypeOK
<1>2. SUFFICES Rest'
  BY LogTypesStep DEF TypesInv, ReadsTypeOK
<1>3. mine # 0 <=> pc # "idle"
  BY DEF ChainInv
<1>4. CASE Execute \/ Others \/ Ingest
  BY <1>1, <1>4 DEF Execute, Others, Ingest, clock, reading
<1>5. CASE TxFailed \/ NotInEffects
  BY <1>1, <1>5 DEF TxFailed, NotInEffects, WaitOver, End, clock, reading
<1>6. CASE WaitForEffects \/ WaitForObject
  <2>1. pc = "sent" /\ (todo' = TargetVersions \/
                         \E i \in DOMAIN TargetVersions : todo' = <<TargetVersions[i]>>)
    BY <1>6 DEF WaitForEffects, WaitForObject
  <2>2. todo' \in Seq(Objects \X (0 .. MaxLog))
    BY <1>3, <2>1, TargetTypes
  <2> QED
    BY <1>1, <1>6, <2>2 DEF WaitForEffects, WaitForObject, clock, reading
<1>7. CASE PollFound \/ PollFoundObject
  <2>1. todo # <<>> /\ todo' = Tail(todo) /\ polls' = polls + 1
    BY <1>7 DEF PollFound, PollFoundObject, Polling
  <2>2. todo' \in Seq(Objects \X (0 .. MaxLog)) /\ todo[1] \in Objects \X (0 .. MaxLog)
    BY <1>1, <2>1
  <2>3. [id |-> todo[1][1], version |-> todo[1][2]] \in [id : Objects, version : 0 .. MaxLog]
    BY <2>2
  <2>4. CASE PollFound
    BY <1>1, <2>1, <2>2, <2>4 DEF PollFound, Found, reading
  <2>5. CASE PollFoundObject
    <3>1. got' \subseteq {[id |-> todo[1][1], version |-> todo[1][2]]}
      BY <2>5 DEF PollFoundObject
    <3>2. got' \in SUBSET [id : Objects, version : 0 .. MaxLog]
      BY <2>3, <3>1
    <3>3. pc' = "done" /\ waited' = "ok" /\ outcome' \in {"ok", "Decode"}
      BY <2>5 DEF PollFoundObject, WaitOver, End
    <3> QED
      BY <1>1, <2>1, <2>2, <2>5, <3>2, <3>3 DEF PollFoundObject
  <2> QED
    BY <1>7, <2>4, <2>5
<1>8. CASE PollMissing \/ PollError
  <2>1. /\ polls' = polls + 1 /\ UNCHANGED <<flavour, todo, single, now, reading>>
        /\ faults' \in 0 .. MaxFaults
    BY <1>1, <1>8, BoundsAssumption DEF PollMissing, PollError, Polling
  <2>2. CASE Pause
    <3>1. now < Timeout => now + Interval \in 0 .. (Timeout + Interval)
      BY <1>1, BoundsAssumption
    <3> QED
      BY <1>1, <2>1, <2>2, <3>1, BoundsAssumption DEF Pause, WaitOver, End, reading
  <2>3. CASE WaitOver("error", "Backend") /\ UNCHANGED wake
    BY <1>1, <2>1, <2>3 DEF WaitOver, End, reading
  <2> QED
    BY <1>8, <2>2, <2>3 DEF PollMissing, PollError
<1>9. CASE Indexed \/ Wake
  BY <1>1, <1>9 DEF Indexed, Wake, clock, reading
<1>10. CASE Tick
  BY <1>1, <1>10, BoundsAssumption DEF Tick, reading
<1>11. CASE Find
  <2>1. mine # 0
    BY <1>3, <1>11 DEF Find
  <2>2. PICK k \in {"created", "mutated", "any"} :
          /\ kind' = k
          /\ refs' \in Pages(ChangedIds(k) \cap Wanted \cap Live(ingested))
    BY <1>11 DEF Find
  <2>3. refs' \subseteq Objects
    BY <2>2, ObjectsAssumption DEF Pages
  <2> QED
    BY <1>1, <1>11, <2>2, <2>3 DEF Find, End, clock
<1>12. CASE GetObjects
  <2>1. mine # 0
    BY <1>3, <1>12 DEF GetObjects
  <2>2. refs' \subseteq Objects
    BY <1>12, <2>1, ChangedAreWritten DEF GetObjects
  <2> QED
    BY <1>1, <1>12, <2>2 DEF GetObjects, End, clock
<1>13. CASE GetPage
  <2>1. PICK page \in Pages(Unserved) :
          /\ got' = got \cup {[id |-> id, version |-> LastWrite(ingested, id)] : id \in page}
          /\ IF page = Unserved THEN End(Decoded(got')) ELSE UNCHANGED <<pc, outcome>>
    BY <1>13 DEF GetPage
  <2>2. page \subseteq Live(ingested) /\ page \subseteq Objects
    BY <2>1 DEF Pages, Unserved, Live
  <2>3. \A id \in page : LastWrite(ingested, id) \in 0 .. MaxLog
    <3>1. ingested \in Nat /\ ingested <= MaxLog /\ MaxLog \in Nat
      BY LenProperties, BoundsAssumption DEF TypesInv, ReadsTypeOK, ChainInv
    <3> QED
      BY <2>2, <3>1, LastWritten
  <2>4. got' \in SUBSET [id : Objects, version : 0 .. MaxLog]
    BY <1>1, <2>1, <2>2, <2>3
  <2>5. pc' \in {pc, "done"} /\ outcome' \in {outcome, "ok", "Decode", "NotFound"}
    BY <2>1, DecodedIs DEF End
  <2> QED
    BY <1>1, <1>13, <2>4, <2>5 DEF GetPage, clock
<1>14. CASE LookupError
  BY <1>1, <1>14, BoundsAssumption DEF LookupError, End, clock, reading
<1>15. CASE UNCHANGED vars
  BY <1>1, <1>15 DEF vars, clock, reading
<1> QED
  BY <1>4, <1>5, <1>6, <1>7, <1>8, <1>9, <1>10, <1>11, <1>12, <1>13, <1>14, <1>15
     DEF Next, Program, Fault, Call, Poll, Lookup

(* At the start there is the past and nothing else.                           *)
LEMMA TypesInit ==
  ASSUME Init
  PROVE  TypesInv
<1>1. log \in Seq(Tx) /\ Len(log) = 1
  <2>1. PICK old \in SUBSET (Objects \ Packages) :
          log = <<[NoTx EXCEPT !.wrote = old \cup {Gas}]>>
    BY DEF Init
  <2>2. [NoTx EXCEPT !.wrote = old \cup {Gas}] \in Tx
    BY ObjectsAssumption DEF Tx, NoTx
  <2> QED
    BY <2>1, <2>2
<1> QED
  <2>1. 1 \in 1 .. MaxLog /\ 0 \in 0 .. MaxNow /\ 0 \in 0 .. (Timeout + Interval)
        /\ 0 \in 0 .. MaxFaults
    BY BoundsAssumption
  <2>2. todo \in Seq(Objects \X (0 .. MaxLog))
    BY DEF Init
  <2>3. ingested \in 1 .. Len(log) /\ mine \in 0 .. Len(log) /\ Len(log) \in 1 .. MaxLog
    BY <1>1, <2>1 DEF Init
  <2>4. log \in Seq(Tx) /\ (pc = "idle" => Len(log) = 1)
    BY <1>1
  <2>5. now \in 0 .. MaxNow /\ wake \in 0 .. (Timeout + Interval) /\ faults \in 0 .. MaxFaults
    BY <2>1 DEF Init
  <2>6. polls \in Nat /\ refs \in SUBSET Objects /\ single \in BOOLEAN
        /\ got \in SUBSET [id : Objects, version : 0 .. MaxLog]
    BY DEF Init
  <2>7. flavour \in Flavours /\ pc = "idle" /\ kind = "ids" /\ waited = "none" /\ outcome = "none"
    BY DEF Init
  <2> QED
    BY <2>2, <2>3, <2>4, <2>5, <2>6, <2>7 DEF TypesInv, ReadsTypeOK

(* For every set of objects, page size, deadline and bound: every state of    *)
(* the wait and of the lookups has the declared types.                        *)
THEOREM ReadsTypes == Spec => []ReadsTypeOK
<1>1. Init => TypesInv
  BY TypesInit
<1>2. ChainInv /\ TypesInv /\ [Next]_vars => TypesInv'
  BY TypesStep
<1>3. TypesInv => ReadsTypeOK
  BY DEF TypesInv
<1> QED
  BY <1>1, <1>2, <1>3, Following, PTL DEF Spec

-----------------------------------------------------------------------------
(* What a lookup brings                                                      *)

(* What find_by_type answered: all the objects asked for that nobody removed, *)
(* or a full page of the GraphQL service.                                     *)
Complete ==
  \/ {id \in ChangedIds(kind) \cap Wanted : Untouched(id)} \subseteq refs
  \/ flavour = "iota" /\ Cardinality(refs) = PageSize

(* In the middle of get_objects: what is asked for, and what has come of it.  *)
Looking ==
  /\ ~Unreadable /\ mine <= ingested
  /\ refs \subseteq ChangedIds("any")
  /\ kind = "created" => refs \subseteq Created
  /\ kind = "mutated" => refs \cap Created = {}
  /\ kind # "ids" => Complete
  /\ Ids(got) \subseteq refs
  /\ \A o \in got : o.version >= mine
  /\ \A o, p \in got : o.id = p.id => o = p

LookInv ==
  /\ pc \notin {"get", "done"} => got = {} /\ kind = "ids"
  /\ pc = "indexed" => Unreadable \/ mine <= ingested
  /\ pc = "get" => Looking
  /\ ReadIsExact

(* What the transaction wrote and the indexer shows is there at its version   *)
(* or a later one, unless somebody removed it.                                *)
LEMMA WrittenIsLive ==
  ASSUME ChainInv, mine # 0, mine <= ingested, NEW id \in Effects.wrote
  PROVE  /\ Untouched(id) => id \in Live(ingested)
         /\ id \in Live(ingested) => LastWrite(ingested, id) >= mine
<1>1. /\ mine \in 1 .. ingested /\ ingested \in Nat /\ Len(log) \in Nat
      /\ ingested <= Len(log)
  BY LenProperties DEF ChainInv
<1>2. id \in Objects /\ id \in log[mine].wrote
  <2>1. Effects \in Tx
    BY ElementOfSeq DEF ChainInv, Effects
  <2> QED
    BY <2>1 DEF Tx, Effects
<1>3. Untouched(id) => id \in Live(ingested)
  <2> SUFFICES ASSUME Untouched(id) PROVE id \in Live(ingested)
    OBVIOUS
  <2>1. \A j \in mine + 1 .. ingested : id \notin log[j].gone
    BY <1>1 DEF Untouched
  <2> QED
    BY <1>1, <1>2, <2>1 DEF Live
<1>4. ASSUME id \in Live(ingested)
      PROVE  LastWrite(ingested, id) >= mine
  <2>1. /\ LastWrite(ingested, id) \in 1 .. ingested
        /\ mine <= LastWrite(ingested, id)
    BY <1>1, <1>2, <1>4, LastWritten
  <2> QED
    BY <1>1, <2>1
<1> QED
  BY <1>3, <1>4

(* A page of a finite set is all of it when it is not longer than the limit.  *)
LEMMA PageIs ==
  ASSUME NEW ids \in SUBSET Objects, NEW page \in Pages(ids)
  PROVE  /\ page \subseteq ids
         /\ \/ page = ids
            \/ flavour = "iota" /\ Cardinality(page) = PageSize
<1>1. page \subseteq ids /\ IsFiniteSet(ids)
      /\ Cardinality(page) = (IF Cardinality(ids) > PageLimit
                              THEN PageLimit ELSE Cardinality(ids))
  BY ObjectsAssumption, FS_Subset DEF Pages
<1>2. CASE Cardinality(ids) > PageLimit
  <2>1. Cardinality(page) = PageLimit
    BY <1>1, <1>2
  <2>2. CASE flavour = "iota"
    BY <1>1, <2>1, <2>2 DEF PageLimit
  <2>3. CASE flavour # "iota"
    <3>1. /\ Cardinality(ids) \in Nat /\ Cardinality(Objects) \in Nat
          /\ Cardinality(ids) <= Cardinality(Objects)
      BY <1>1, ObjectsAssumption, FS_Subset, FS_CardinalityType
    <3>2. Cardinality(ids) > Cardinality(Objects)
      BY <1>2, <2>3 DEF PageLimit
    <3> QED
      BY <3>1, <3>2
  <2> QED
    BY <2>2, <2>3
<1>3. CASE ~(Cardinality(ids) > PageLimit)
  <2>1. Cardinality(page) = Cardinality(ids)
    BY <1>1, <1>3
  <2> QED
    BY <1>1, <2>1, FS_Subset
<1> QED
  BY <1>1, <1>2, <1>3

(* As many objects as ids, when none is there twice.                          *)
LEMMA OneEach ==
  ASSUME NEW objs, IsFiniteSet(Ids(objs)), \A o, p \in objs : o.id = p.id => o = p
  PROVE  Cardinality(objs) = Cardinality(Ids(objs))
<1> DEFINE f == [id \in Ids(objs) |-> CHOOSE o \in objs : o.id = id]
<1>1. \A id \in Ids(objs) : f[id] \in objs /\ f[id].id = id
  BY DEF Ids
<1>2. \A o \in objs : o.id \in Ids(objs) /\ f[o.id] = o
  <2> SUFFICES ASSUME NEW o \in objs PROVE o.id \in Ids(objs) /\ f[o.id] = o
    OBVIOUS
  <2>1. o.id \in Ids(objs)
    BY DEF Ids
  <2> QED
    BY <1>1, <2>1
<1>3. f \in Bijection(Ids(objs), objs)
  <2> f \in [Ids(objs) -> objs]
    BY <1>1
  <2> HIDE DEF f
  <2> QED
    BY <1>1, <1>2 DEF Bijection, Injection, Surjection, IsInjective
<1>4. ExistsBijection(Ids(objs), objs)
  BY <1>3 DEF ExistsBijection
<1> QED
  BY <1>4, FS_Bijection

(* What the transaction changed stays what it is while others go on; an       *)
(* object they removed stays removed.                                         *)
LEMMA ChangesStay ==
  ASSUME ChainInv, [Next]_vars, mine # 0
  PROVE  /\ Unreadable' = Unreadable /\ Created' = Created /\ Counted' = Counted
         /\ \A k \in {"created", "mutated", "any"} : ChangedIds(k)' = ChangedIds(k)
         /\ \A id : Untouched(id)' => Untouched(id)
         /\ mine' = mine /\ flavour' = flavour
<1>1. mine' = mine /\ Effects' = Effects
  BY EffectsStay
<1>2. flavour' = flavour
  BY DEF Next, Program, Fault, Call, Poll, Lookup, Execute, TxFailed, WaitForEffects, WaitForObject,
         NotInEffects, PollFound, PollFoundObject, PollMissing, PollError, Indexed, Wake, Tick,
         Find, GetObjects, GetPage, LookupError, Others, Ingest, vars
<1>3. /\ Len(log) \in Nat /\ Len(log') \in Nat /\ Len(log') >= Len(log)
      /\ \A i \in 1 .. Len(log) : log'[i] = log[i]
  <2>1. CASE \E tx : log' = Append(log, tx)
    BY <2>1, LenProperties DEF ChainInv
  <2>2. CASE log' = log
    BY <2>2, LenProperties DEF ChainInv
  <2>3. log' = log \/ \E tx : log' = Append(log, tx)
    BY DEF Next, Program, Fault, Call, Poll, Lookup, Execute, TxFailed, WaitForEffects,
           WaitForObject, NotInEffects, PollFound, PollFoundObject, PollMissing, PollError,
           Indexed, Wake, Tick, Find, GetObjects, GetPage, LookupError, Others, Ingest, vars, env
  <2> QED
    BY <2>1, <2>2, <2>3
<1>4. mine \in 1 .. Len(log)
  BY <1>3 DEF ChainInv
<1>5. Unreadable' = Unreadable
  BY <1>1, <1>2 DEF Unreadable
<1>6. Created' = Created
  <2>1. \A i \in 1 .. mine - 1 : log'[i] = log[i]
    BY <1>3, <1>4
  <2> QED
    BY <1>1, <2>1 DEF Created
<1>7. Counted' = Counted
  BY <1>1, <1>2, <1>5 DEF Counted
<1>8. \A k \in {"created", "mutated", "any"} : ChangedIds(k)' = ChangedIds(k)
  BY <1>6, <1>7, Zenon DEF ChangedIds
<1>9. ASSUME NEW id, Untouched(id)'
      PROVE  Untouched(id)
  <2>1. \A i \in mine + 1 .. Len(log') : id \notin log'[i].gone
    BY <1>1, <1>9 DEF Untouched
  <2> QED
    BY <1>3, <1>4, <2>1 DEF Untouched
<1> QED
  BY <1>1, <1>2, <1>5, <1>6, <1>7, <1>8, <1>9

(* Nothing that others do or the indexer shows spoils a lookup under way.     *)
LEMMA LookingStays ==
  ASSUME ChainInv, TypesInv, mine # 0, [Next]_vars, Looking, UNCHANGED <<refs, got, kind>>
  PROVE  Looking'
<1>1. /\ Unreadable' = Unreadable /\ Created' = Created /\ mine' = mine /\ flavour' = flavour
      /\ \A k \in {"created", "mutated", "any"} : ChangedIds(k)' = ChangedIds(k)
      /\ \A id : Untouched(id)' => Untouched(id)
  BY ChangesStay
<1>2. mine <= ingested /\ mine <= ingested'
  <2>1. ingested' = ingested \/ ingested' = ingested + 1
    BY DEF Next, Program, Fault, Call, Poll, Lookup, Execute, TxFailed, WaitForEffects,
           WaitForObject, NotInEffects, PollFound, PollFoundObject, PollMissing, PollError,
           Indexed, Wake, Tick, Find, GetObjects, GetPage, LookupError, Others, Ingest, vars, env
  <2> QED
    BY <2>1 DEF Looking, ChainInv
<1>3. ASSUME kind # "ids", Complete
      PROVE  Complete'
  <2>1. PICK k \in {"created", "mutated", "any"} : kind = k
    BY <1>3 DEF TypesInv, ReadsTypeOK
  <2>2. ChangedIds(k)' = ChangedIds(k) /\ kind' = k
    BY <1>1, <2>1
  <2>3. Complete' <=> \/ {id \in ChangedIds(k)' \cap Wanted : Untouched(id)'} \subseteq refs
                      \/ flavour = "iota" /\ Cardinality(refs) = PageSize
    BY <1>1, <2>2 DEF Complete
  <2>4. Complete <=> \/ {id \in ChangedIds(k) \cap Wanted : Untouched(id)} \subseteq refs
                     \/ flavour = "iota" /\ Cardinality(refs) = PageSize
    BY <2>1 DEF Complete
  <2> QED
    BY <1>1, <1>3, <2>2, <2>3, <2>4
<1>4. ChangedIds("any")' = ChangedIds("any") /\ Ids(got)' = Ids(got)
  BY <1>1 DEF Ids
<1> QED
  BY <1>1, <1>2, <1>3, <1>4 DEF Looking

(* find_by_type and the choice of ids: what get_objects starts with.          *)
LEMMA FindLooks ==
  ASSUME ~OldEffects, ChainInv, TypesInv, LookInv, Find \/ GetObjects, [Next]_vars
  PROVE  LookInv'
<1> USE DEF env
<1>1. /\ pc = "indexed" /\ got = {} /\ kind = "ids" /\ mine # 0
      /\ ~Unreadable /\ mine <= ingested
      /\ UNCHANGED <<ingested, mine, got, waited, single>>
  BY Readable DEF Find, GetObjects, LookInv, ChainInv
<1>2. /\ Unreadable' = Unreadable /\ Created' = Created /\ Counted' = Counted
      /\ mine' = mine /\ flavour' = flavour
      /\ \A k \in {"created", "mutated", "any"} : ChangedIds(k)' = ChangedIds(k)
      /\ \A id : Untouched(id)' => Untouched(id)
  BY <1>1, ChangesStay
<1>3. Ids(got') = {} /\ Ids(got)' = {}
  BY <1>1 DEF Ids
<1>4. /\ refs' \subseteq ChangedIds("any")'
      /\ kind' = "created" => refs' \subseteq Created'
      /\ kind' = "mutated" => refs' \cap Created' = {}
      /\ kind' # "ids" => Complete'
  <2>1. CASE GetObjects
    BY <1>1, <1>2, <2>1 DEF GetObjects
  <2>2. CASE Find
    <3>1. PICK k \in {"created", "mutated", "any"} :
            /\ kind' = k
            /\ refs' \in Pages(ChangedIds(k) \cap Wanted \cap Live(ingested))
      BY <2>2 DEF Find
    <3> DEFINE ids == ChangedIds(k) \cap Wanted \cap Live(ingested)
    <3>2. /\ refs' \subseteq ids
          /\ \/ refs' = ids
             \/ flavour = "iota" /\ Cardinality(refs') = PageSize
      <4>1. ids \in SUBSET Objects /\ refs' \in Pages(ids)
        BY <3>1, ObjectsAssumption
      <4> HIDE DEF ids
      <4>2. \A page \in Pages(ids) :
              /\ page \subseteq ids
              /\ \/ page = ids
                 \/ flavour = "iota" /\ Cardinality(page) = PageSize
        BY <4>1, PageIs, Zenon
      <4> QED
        BY <4>1, <4>2, Zenon
    <3>3. ChangedIds(k) \subseteq Counted /\ ChangedIds("any")' = Counted
      BY <1>2, KindsOfChange
    <3>4. /\ k = "created" => ChangedIds(k) \subseteq Created
          /\ k = "mutated" => ChangedIds(k) \cap Created = {}
      BY KindsOfChange
    <3>5. Complete'
      <4>1. {id \in ChangedIds(k) \cap Wanted : Untouched(id)} \subseteq ids
        BY <1>1, ChangedAreWritten, WrittenIsLive
      <4>2. {id \in ChangedIds(k)' \cap Wanted : Untouched(id)'}
              \subseteq {id \in ChangedIds(k) \cap Wanted : Untouched(id)}
        BY <1>2
      <4>3. Complete' <=> \/ {id \in ChangedIds(k)' \cap Wanted : Untouched(id)'} \subseteq refs'
                          \/ flavour' = "iota" /\ Cardinality(refs') = PageSize
        BY <3>1 DEF Complete
      <4> QED
        BY <1>2, <3>2, <4>1, <4>2, <4>3
    <3> QED
      BY <1>2, <3>1, <3>2, <3>3, <3>4, <3>5
  <2> QED
    BY <2>1, <2>2
<1>5. CASE refs' = {}
  <2>1. pc' = "done" /\ outcome' = "ok"
    BY <1>5 DEF Find, GetObjects, End
  <2>2. kind' # "ids" =>
          {id \in ChangedIds(kind)' \cap Wanted : Untouched(id)'} \subseteq {}
    <3>1. Cardinality(refs') # PageSize
      BY <1>5, FS_EmptySet, BoundsAssumption
    <3> QED
      BY <1>4, <1>5, <3>1 DEF Complete
  <2>3. ReadIsExact'
    BY <1>1, <1>2, <1>3, <2>1, <2>2 DEF ReadIsExact
  <2> QED
    BY <2>1, <2>3 DEF LookInv
<1>6. CASE refs' # {}
  <2>1. pc' = "get"
    BY <1>6 DEF Find, GetObjects
  <2>2. Looking'
    BY <1>1, <1>2, <1>3, <1>4 DEF Looking
  <2> QED
    BY <2>1, <2>2 DEF LookInv, ReadIsExact
<1> QED
  BY <1>5, <1>6

(* A page of get_objects, the last one included.                              *)
LEMMA PageLooks ==
  ASSUME ChainInv, TypesInv, LookInv, GetPage, [Next]_vars
  PROVE  LookInv'
<1> USE DEF env
<1>1. /\ pc = "get" /\ Looking /\ mine # 0
      /\ UNCHANGED <<log, ingested, mine, flavour, refs, kind, waited, single>>
  BY DEF GetPage, LookInv, ChainInv
<1>2. PICK page \in Pages(Unserved) :
        /\ got' = got \cup {[id |-> id, version |-> LastWrite(ingested, id)] : id \in page}
        /\ IF page = Unserved THEN End(Decoded(got')) ELSE UNCHANGED <<pc, outcome>>
  BY DEF GetPage
<1>3. page \subseteq refs /\ page \subseteq Live(ingested) /\ page \cap Ids(got) = {}
  BY <1>2 DEF Pages, Unserved
<1>4. refs \subseteq Effects.wrote /\ IsFiniteSet(refs)
  <2>1. refs \subseteq Effects.wrote
    BY <1>1, ChangedAreWritten DEF Looking
  <2>2. refs \in SUBSET Objects
    BY DEF TypesInv, ReadsTypeOK
  <2> QED
    BY <2>1, <2>2, ObjectsAssumption, FS_Subset
<1>5. Ids(got') = Ids(got) \cup page
  <2> DEFINE new == {[id |-> id, version |-> LastWrite(ingested, id)] : id \in page}
  <2>1. \A x : x \in Ids(new) <=> x \in page
    <3>1. \A o \in new : o.id \in page
      OBVIOUS
    <3>2. \A x \in page : \E o \in new : o.id = x
      <4> TAKE x \in page
      <4>1. [id |-> x, version |-> LastWrite(ingested, x)] \in new
        OBVIOUS
      <4> WITNESS [id |-> x, version |-> LastWrite(ingested, x)] \in new
      <4> QED
        OBVIOUS
    <3> HIDE DEF new
    <3> QED
      BY <3>1, <3>2 DEF Ids
  <2>2. got' = got \cup new
    BY <1>2
  <2> HIDE DEF new
  <2>3. Ids(got') = Ids(got) \cup Ids(new)
    BY <2>2 DEF Ids
  <2> QED
    BY <2>1, <2>3
<1>6. \A o \in got' : o.version >= mine
  <2>1. \A id \in page : LastWrite(ingested, id) >= mine
    BY <1>1, <1>3, <1>4, WrittenIsLive DEF Looking
  <2> QED
    BY <1>1, <1>2, <2>1 DEF Looking
<1>7. \A o, p \in got' : o.id = p.id => o = p
  BY <1>1, <1>2, <1>3 DEF Looking, Ids
<1>8. /\ Unreadable' = Unreadable /\ Created' = Created
      /\ \A k \in {"created", "mutated", "any"} : ChangedIds(k)' = ChangedIds(k)
      /\ \A id : Untouched(id)' => Untouched(id)
  BY <1>1, ChangesStay
<1>9. \A id : Untouched(id)' <=> Untouched(id)
  BY <1>1 DEF Untouched
<1>10. kind # "ids" => Complete'
  <2> SUFFICES ASSUME kind # "ids" PROVE Complete'
    OBVIOUS
  <2>1. PICK k \in {"created", "mutated", "any"} : kind = k
    BY DEF TypesInv, ReadsTypeOK
  <2>2. ChangedIds(k)' = ChangedIds(k) /\ kind' = k
    BY <1>1, <1>8, <2>1
  <2>3. Complete' <=> \/ {id \in ChangedIds(k)' \cap Wanted : Untouched(id)'} \subseteq refs
                      \/ flavour = "iota" /\ Cardinality(refs) = PageSize
    BY <1>1, <2>2 DEF Complete
  <2>4. \/ {id \in ChangedIds(k) \cap Wanted : Untouched(id)} \subseteq refs
        \/ flavour = "iota" /\ Cardinality(refs) = PageSize
    BY <1>1, <2>1 DEF Complete, Looking
  <2> QED
    BY <1>9, <2>2, <2>3, <2>4
<1>11. Looking'
  <2>1. ChangedIds("any")' = ChangedIds("any") /\ Ids(got)' = Ids(got')
    BY <1>8 DEF Ids
  <2> QED
    BY <1>1, <1>3, <1>5, <1>6, <1>7, <1>8, <1>10, <2>1 DEF Looking
<1>12. CASE page # Unserved
  <2>1. pc' = "get"
    BY <1>1, <1>2, <1>12
  <2> QED
    BY <1>11, <2>1 DEF LookInv, ReadIsExact
<1>13. CASE page = Unserved
  <2>1. pc' = "done" /\ outcome' = Decoded(got')
    BY <1>2, <1>13 DEF End
  <2>2. CASE outcome' = "ok"
    <3>1. refs \subseteq Ids(got') /\ refs \subseteq Wanted
      BY <2>1, <2>2, DecodedIs
    <3>2. Ids(got') = refs
      BY <1>1, <1>3, <1>5, <3>1 DEF Looking
    <3>3. Cardinality(got') = Cardinality(refs)
      BY <1>4, <1>7, <3>2, OneEach
    <3>4. Ids(got)' = refs
      BY <3>2 DEF Ids
    <3>5. kind' # "ids" => \/ {id \in ChangedIds(kind)' \cap Wanted : Untouched(id)'} \subseteq refs
                           \/ flavour' = "iota" /\ Cardinality(refs) = PageSize
      BY <1>1, <1>10 DEF Complete
    <3>6. /\ kind = "created" => refs \subseteq Created'
          /\ kind = "mutated" => refs \cap Created' = {}
      BY <1>1, <1>8 DEF Looking
    <3>7. ReadIsExact'
      BY <1>1, <1>6, <2>2, <3>1, <3>3, <3>4, <3>5, <3>6 DEF ReadIsExact
    <3> QED
      BY <2>1, <3>7 DEF LookInv
  <2>3. CASE outcome' # "ok"
    <3>1. ASSUME outcome' = "NotFound"
          PROVE  \E id \in refs : ~Untouched(id)
      <4>1. PICK id \in refs : id \notin Ids(got')
        BY <2>1, <3>1, DecodedIs
      <4>2. id \notin Live(ingested)
        BY <1>5, <1>13, <4>1 DEF Unserved
      <4>3. ~Untouched(id)
        BY <1>1, <1>4, <4>2, WrittenIsLive DEF Looking
      <4> QED
        BY <4>3
    <3>2. outcome' = "NotFound" => \E id \in refs' : ~Untouched(id)'
      BY <1>1, <1>9, <3>1
    <3>3. ReadIsExact'
      BY <2>3, <3>2 DEF ReadIsExact
    <3> QED
      BY <2>1, <3>3 DEF LookInv
  <2> QED
    BY <2>2, <2>3
<1> QED
  BY <1>12, <1>13

(* No step of the program or of the others spoils what the lookups promise.   *)
LEMMA LookStep ==
  ASSUME ~OldEffects, ChainInv, WaitInv, TypesInv, LookInv, [Next]_vars
  PROVE  LookInv'
<1>1. ASSUME pc \in {"idle", "sent", "poll", "sleep"}, pc' \in {"sent", "poll", "sleep"},
             UNCHANGED reading
      PROVE  LookInv'
  BY <1>1 DEF LookInv, ReadIsExact, reading
<1>2. ASSUME pc' = "done", waited' # "ok" \/ single'
      PROVE  LookInv'
  BY <1>2 DEF LookInv, ReadIsExact
<1>3. CASE Execute
  BY <1>1, <1>3 DEF Execute
<1>4. CASE Call
  BY <1>1, <1>2, <1>4 DEF Call, TxFailed, WaitForEffects, WaitForObject, NotInEffects,
                         WaitOver, End
<1>5. CASE PollFound
  BY <1>1, <1>5 DEF PollFound, Polling
<1>6. CASE PollFoundObject
  BY <1>2, <1>6 DEF PollFoundObject, WaitOver, End
<1>7. CASE PollMissing \/ PollError
  BY <1>1, <1>2, <1>7 DEF PollMissing, PollError, Polling, Pause, WaitOver, End
<1>8. CASE Wake \/ Tick
  BY <1>1, <1>8 DEF Wake, Tick
<1>9. CASE Indexed
  <2>1. /\ pc = "poll" /\ pc' = "indexed" /\ todo = <<>> /\ UNCHANGED <<log, ingested, mine>>
        /\ UNCHANGED <<refs, got, kind, flavour>>
    BY <1>9 DEF Indexed, env, reading
  <2>2. Unreadable \/ mine <= ingested
    BY <2>1 DEF WaitInv
  <2>3. Unreadable' = Unreadable
    BY <2>1 DEF Unreadable, Effects
  <2> QED
    BY <2>1, <2>2, <2>3 DEF LookInv, ReadIsExact
<1>10. CASE Find \/ GetObjects
  BY <1>10, FindLooks
<1>11. CASE GetPage
  BY <1>11, PageLooks
<1>12. CASE LookupError
  BY <1>12 DEF LookupError, End, LookInv, ReadIsExact
<1>13. CASE Others \/ Ingest
  <2>1. /\ pc # "done" /\ pc' = pc /\ UNCHANGED <<refs, got, kind, mine>>
        /\ ingested' = ingested \/ ingested' = ingested + 1
    BY <1>13 DEF Others, Ingest, reading
  <2>2. CASE pc \in {"indexed", "get"}
    <3>1. mine # 0
      BY <2>2 DEF ChainInv
    <3>2. Unreadable' = Unreadable
      BY <3>1, ChangesStay
    <3>3. mine <= ingested => mine' <= ingested'
      BY <2>1 DEF ChainInv
    <3>4. pc = "get" => Looking'
      BY <2>1, <3>1, LookingStays DEF LookInv
    <3> QED
      BY <2>1, <2>2, <3>2, <3>3, <3>4 DEF LookInv, ReadIsExact
  <2>3. CASE pc \notin {"indexed", "get"}
    BY <2>1, <2>3 DEF LookInv, ReadIsExact
  <2> QED
    BY <2>2, <2>3
<1>14. CASE UNCHANGED vars
  <2> USE <1>14 DEF vars, env, clock, reading
  <2>1. Looking' = Looking
    BY DEF Looking, Unreadable, Effects, ChangedIds, Counted, Created, Complete, Untouched, Ids
  <2>2. ReadIsExact' = ReadIsExact
    BY DEF ReadIsExact, Unreadable, Effects, ChangedIds, Counted, Created, Untouched, Ids
  <2>3. Unreadable' = Unreadable
    BY DEF Unreadable, Effects
  <2> QED
    BY <2>1, <2>2, <2>3 DEF LookInv
<1> QED
  BY <1>3, <1>4, <1>5, <1>6, <1>7, <1>8, <1>9, <1>10, <1>11, <1>12, <1>13, <1>14
     DEF Next, Program, Fault, Poll, Lookup

(* Whatever others do to the objects while the indexer lags and queries fail, *)
(* for every page size and however the pages are cut: the lookups return      *)
(* objects of the type and kind asked for, none older than the transaction,   *)
(* all of them that nobody removed unless iota had more than a page, and they *)
(* miss an object only when somebody removed it.  Nodes have no effects of    *)
(* the first format.                                                          *)
THEOREM LookupsAreExact ==
  ASSUME ~OldEffects
  PROVE  Spec => []ReadIsExact
<1>1. Init => TypesInv /\ LookInv
  BY TypesInit DEF Init, LookInv, ReadIsExact
<1>2. ChainInv /\ WaitInv /\ TypesInv /\ LookInv /\ [Next]_vars => (TypesInv /\ LookInv)'
  BY TypesStep, LookStep
<1>3. LookInv => ReadIsExact
  BY DEF LookInv
<1> QED
  BY <1>1, <1>2, <1>3, Following, PTL DEF Spec
=============================================================================
