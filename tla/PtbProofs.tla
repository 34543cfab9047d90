----------------------------- MODULE PtbProofs ------------------------------
(***************************************************************************)
(* Theorems about PtbBuilder, for every wallet, both runtimes, any order   *)
(* in which the oracle lists the coins, and any number of arguments,       *)
(* registrations, transactions and uses of the wallet elsewhere.           *)
(***************************************************************************)
EXTENDS PtbBuilder, TLAPS

(* The types that the steps of a builder need: what a cache holds, the one   *)
(* under construction and the one to be passed on, are versions; and a slot  *)
(* that the user has set is not open.                                        *)
Types ==
  /\ PtbTypeOK
  /\ indexed \in [Owned -> Nat]
  /\ bpc = "submit" => gas # Nil /\ \A i \in inputs : i.at # Nil
  /\ gasSet => gas # Nil
  /\ budgetSet => budget # "nobody"
  /\ auto /\ bpc = "budget" => gas # Nil
  /\ \A o \in DOMAIN cached : cached[o] \in Nat
  /\ \A o \in DOMAIN carried : carried[o] \in Nat

(* An argument given by its id and resolved is in the cache, at the version  *)
(* it has there unless the user registered the object.                       *)
Known ==
  \A i \in inputs : i.by = "id" /\ i.at # Nil =>
    /\ i.id \in DOMAIN cached
    /\ i.id \notin told => i.at = cached[i.id]

(* A coin that the user did not set was picked after the last argument was   *)
(* resolved, from those that the cache does not hold.                        *)
Spared ==
  gas # Nil /\ ~gasSet =>
    bpc \in {"budget", "finish", "submit"} /\ gas.id \notin DOMAIN cached

(* Without a reason to be wary the builder refers to every object as it is   *)
(* on chain.                                                                 *)
Timely ==
  ~wary /\ bpc # "none" =>
    /\ indexed = version
    /\ \A o \in DOMAIN cached : cached[o] = Current(o)
    /\ \A i \in inputs : i.at # Nil => i.at = Current(i.id)
    /\ gas # Nil => gas.at = Current(gas.id)

PtbInv == Types /\ Known /\ Spared /\ Timely /\ FreshIsAccepted

(* What the chain and the fetcher serve are versions.                        *)
LEMMA Versions ==
  ASSUME Types
  PROVE  /\ \A o \in Object : Served(o) \in Nat /\ Current(o) \in Nat
         /\ \A o \in Owned : version[o] \in Nat \ {0} /\ indexed[o] \in 1..version[o]
         /\ Owned \cup SharedObj = Object /\ Coin \subseteq Owned
BY DEF Types, PtbTypeOK, Served, Current, Object, Owned

(* The ways in which a transaction ends; one alone is a matter of versions.  *)
LEMMA Endings ==
  /\ {"none", "ok", "panic", "no gas coins", "oracle", "unfinished", "not sent",
      "no answer", "used twice", "inspected"} \subseteq Results \ {"stale"}
BY Zenon DEF Results

\* The two results that a builder in progress shows.
LEMMA NoneAndStale == {"none", "stale"} \subseteq Results
BY Zenon DEF Results

(* What a builder that ends leaves behind.                                   *)
LEMMA EndKeeps ==
  ASSUME PtbInv, NEW why \in Results \ {"stale"}, End(why),
         flavour' = flavour, indexed' = indexed,
         version' \in [Owned -> Nat], \A o \in Owned : version[o] <= version'[o],
         carried' = carried \/ carried' = cached, wary' = wary
  PROVE  PtbInv'
<1> USE DEF PtbInv
<1>1. /\ bpc' = "none" /\ result' = why /\ cached' = << >> /\ inputs' = {}
      /\ gas' = Nil /\ budget' = "nobody"
      /\ gasSet' = FALSE /\ budgetSet' = FALSE
  BY DEF End
<1>2. Types'
  <2>1. \A o \in Owned : indexed'[o] \in 1..version'[o]
    BY DEF Types, PtbTypeOK
  <2> QED
    BY <1>1, <2>1 DEF Types, PtbTypeOK
<1>3. Known' /\ Spared' /\ Timely' /\ FreshIsAccepted'
  BY <1>1 DEF Known, Spared, Timely, FreshIsAccepted
<1> QED
  BY <1>2, <1>3

(* An empty builder, over no cache or over the one carried on.               *)
LEMMA NewKeeps ==
  ASSUME PtbInv, NEW carry \in BOOLEAN, NEW autoGas \in BOOLEAN, New(carry, autoGas)
  PROVE  PtbInv'
<1> USE DEF PtbInv
<1>1. /\ bpc' = "build" /\ inputs' = {} /\ gas' = Nil /\ budget' = "nobody"
      /\ gasSet' = FALSE /\ budgetSet' = FALSE
      /\ result' = "none" /\ carried' = << >>
      /\ wary' = (carry \/ indexed # version)
      /\ UNCHANGED <<flavour, version, indexed>>
      /\ cached' = IF carry THEN carried ELSE << >>
  BY DEF New, Seed, wallet
<1>2. DOMAIN cached' \subseteq Object /\ \A o \in DOMAIN cached' : cached'[o] \in Nat
  <2>1. CASE carry
    BY <1>1, <2>1 DEF Types, PtbTypeOK
  <2>2. CASE ~carry
    BY <1>1, <2>2
  <2> QED
    BY <2>1, <2>2
<1>3. Types'
  BY <1>1, <1>2, NoneAndStale DEF Types, PtbTypeOK
<1>4. Known' /\ Spared' /\ FreshIsAccepted'
  BY <1>1 DEF Known, Spared, FreshIsAccepted
<1>5. ~wary' => cached' = << >> /\ indexed' = version'
  BY <1>1, Zenon
<1>6. Timely'
  BY <1>1, <1>5 DEF Timely
<1> QED
  BY <1>3, <1>4, <1>6

(* Registering an object replaces what the cache holds of it.                *)
LEMMA RegisterKeeps ==
  ASSUME PtbInv, NEW o \in Object, Register(o) \/ RegisterFromFetcher(o)
  PROVE  PtbInv'
<1> USE DEF PtbInv
<1>1. PICK v \in {Current(o), Served(o)} : cached' = With(cached, o, v)
  BY DEF Register, RegisterFromFetcher
<1>2. /\ bpc = "build" /\ told' = told \cup {o}
      /\ UNCHANGED <<flavour, version, indexed, bpc, inputs, auto, gas, gasSet, budget,
                     budgetSet, carried, result, wary>>
  BY DEF Register, RegisterFromFetcher, wallet, gasSlots
<1>3. /\ DOMAIN cached' = DOMAIN cached \cup {o} /\ cached'[o] = v
      /\ \A p \in DOMAIN cached \ {o} : cached'[p] = cached[p]
  BY <1>1 DEF With
<1>4. v \in Nat /\ (indexed = version => v = Current(o))
  BY <1>1, Versions DEF Served, Current
<1>5. Types'
  BY <1>2, <1>3, <1>4 DEF Types, PtbTypeOK
<1>6. Known'
  BY <1>2, <1>3 DEF Known
<1>7. Spared' /\ FreshIsAccepted'
  BY <1>2 DEF Spared, FreshIsAccepted
<1>8. Timely'
  BY <1>2, <1>3, <1>4 DEF Timely, Current
<1> QED
  BY <1>5, <1>6, <1>7, <1>8

(* An argument given by its id gets the cached version, which is fetched if  *)
(* there is none.                                                            *)
LEMMA ResolveKeeps ==
  ASSUME PtbInv, NEW o \in Object, Resolve(o)
  PROVE  PtbInv'
<1> USE DEF PtbInv
<1> DEFINE v == IF o \in DOMAIN cached THEN cached[o] ELSE Served(o)
           i == [id |-> o, at |-> v, by |-> "id"]
<1>1. /\ bpc = "build" /\ inputs' = inputs \cup {i}
      /\ cached' = cached \/ (o \notin DOMAIN cached /\ cached' = With(cached, o, v))
      /\ o \in DOMAIN cached => cached' = cached
      /\ o \notin DOMAIN cached => cached' = With(cached, o, v)
      /\ UNCHANGED <<flavour, version, indexed, bpc, auto, gas, gasSet, budget, budgetSet,
                     carried, result, told, wary>>
  BY DEF Resolve, Add, Remember, wallet, gasSlots, history
<1>2. /\ DOMAIN cached' = DOMAIN cached \cup {o} /\ cached'[o] = v
      /\ \A p \in DOMAIN cached : cached'[p] = cached[p]
  BY <1>1 DEF With
<1>3. v \in Nat
  <2>1. CASE o \in DOMAIN cached
    BY <2>1 DEF Types
  <2>2. CASE o \notin DOMAIN cached
    BY <2>2, Versions
  <2> QED
    BY <2>1, <2>2
<1>4. i \in Input /\ i.id = o /\ i.at = v /\ i.by = "id"
  BY <1>3 DEF Input
<1> HIDE DEF v, i
<1>5. Types'
  BY <1>1, <1>2, <1>3, <1>4 DEF Types, PtbTypeOK
<1>6. Known'
  BY <1>1, <1>2, <1>4 DEF Known
<1>7. Spared' /\ FreshIsAccepted'
  BY <1>1 DEF Spared, FreshIsAccepted
<1>8. ~wary /\ bpc # "none" => v = Current(o)
  BY DEF Timely, v, Served, Current
<1>9. Timely'
  BY <1>1, <1>2, <1>4, <1>8 DEF Timely, Current
<1> QED
  BY <1>5, <1>6, <1>7, <1>9

(* A fetch that fails leaves an input that cannot be finished, or nothing.   *)
LEMMA ResolveFailsKeeps ==
  ASSUME PtbInv, NEW o \in Object, ResolveFails(o)
  PROVE  PtbInv'
<1> USE DEF PtbInv
<1>1. CASE End("panic")
  <2>1. UNCHANGED <<flavour, version, indexed, carried, wary>>
    BY DEF ResolveFails, wallet
  <2>2. version' \in [Owned -> Nat] /\ \A p \in Owned : version[p] <= version'[p]
    BY <2>1 DEF Types, PtbTypeOK
  <2> QED
    BY <1>1, <2>1, <2>2, EndKeeps, Endings
<1>2. CASE Add(o, Nil, "id") /\ UNCHANGED <<bpc, cached, gasSlots, result, told>>
  <2> DEFINE i == [id |-> o, at |-> Nil, by |-> "id"]
  <2>1. /\ bpc = "build" /\ inputs' = inputs \cup {i}
        /\ UNCHANGED <<flavour, version, indexed, bpc, cached, auto, gas, gasSet, budget,
                       budgetSet, carried, result, told, wary>>
    BY <1>2 DEF ResolveFails, Add, wallet, gasSlots
  <2>2. i \in Input /\ i.at = Nil
    BY DEF Input
  <2> HIDE DEF i
  <2>3. Types'
    BY <2>1, <2>2 DEF Types, PtbTypeOK
  <2>4. Known' /\ Spared' /\ FreshIsAccepted'
    BY <2>1, <2>2 DEF Known, Spared, FreshIsAccepted
  <2>5. Timely'
    BY <2>1, <2>2 DEF Timely, Current
  <2> QED
    BY <2>3, <2>4, <2>5
<1> QED
  BY <1>1, <1>2 DEF ResolveFails

(* An argument given by reference is as it is on chain.                      *)
LEMMA PassReferenceKeeps ==
  ASSUME PtbInv, NEW o \in Owned, PassReference(o)
  PROVE  PtbInv'
<1> USE DEF PtbInv
<1> DEFINE i == [id |-> o, at |-> Current(o), by |-> "reference"]
<1>1. /\ bpc = "build" /\ inputs' = inputs \cup {i}
      /\ UNCHANGED <<flavour, version, indexed, bpc, cached, auto, gas, gasSet, budget,
                     budgetSet, carried, result, told, wary>>
  BY DEF PassReference, Add, wallet, gasSlots, history
<1>2. i \in Input /\ i.id = o /\ i.at = Current(o) /\ i.by = "reference"
  BY Versions DEF Input
<1> HIDE DEF i
<1>3. Types'
  BY <1>1, <1>2 DEF Types, PtbTypeOK
<1>4. Known' /\ Spared' /\ FreshIsAccepted'
  BY <1>1, <1>2 DEF Known, Spared, FreshIsAccepted
<1>5. Timely'
  BY <1>1, <1>2 DEF Timely, Current
<1> QED
  BY <1>3, <1>4, <1>5

(* The user sets a slot.                                                     *)
LEMMA SetKeeps ==
  ASSUME PtbInv, (\E c \in Coin : SetGas(c)) \/ SetBudget \/ SetInnerBudget
  PROVE  PtbInv'
<1> USE DEF PtbInv
<1>1. /\ bpc = "build" /\ budget' \in {budget, "user"}
      /\ budget' = budget => budgetSet' = budgetSet
      /\ UNCHANGED <<flavour, version, indexed, bpc, cached, inputs, carried, result, told,
                     wary>>
  BY DEF SetGas, SetBudget, SetInnerBudget, wallet, history
<1>2. CASE \E c \in Coin : SetGas(c)
  <2>1. PICK c \in Coin : /\ gas' = [id |-> c, at |-> version[c]] /\ gasSet'
                         /\ UNCHANGED <<budget, budgetSet>>
    BY <1>2 DEF SetGas
  <2>2. version[c] \in 1..version[c]
    BY Versions DEF Owned
  <2>3. gas'.id = c /\ gas'.at = version[c]
    BY <2>1
  <2>4. Types'
    <3>1. gas' # Nil
      BY <2>1, <2>2, WalletAssumption
    <3> QED
      BY <1>1, <2>1, <2>2, <2>3, <3>1 DEF Types, PtbTypeOK
  <2>5. Known' /\ Spared' /\ FreshIsAccepted'
    BY <1>1, <2>1 DEF Known, Spared, FreshIsAccepted
  <2>6. Timely'
    BY <1>1, <2>3 DEF Timely, Current, Owned
  <2> QED
    BY <2>4, <2>5, <2>6
<1>3. CASE gas' = gas /\ gasSet' = gasSet
  <2>1. Types' /\ Known' /\ Spared' /\ FreshIsAccepted'
    BY <1>1, <1>3 DEF Types, PtbTypeOK, Known, Spared, FreshIsAccepted
  <2>2. Timely'
    BY <1>1, <1>3 DEF Timely, Current
  <2> QED
    BY <2>1, <2>2
<1> QED
  BY <1>2, <1>3 DEF SetBudget, SetInnerBudget

(* fill_auto_gas takes a coin that the cache does not hold.                  *)
LEMMA FillCoinKeeps ==
  ASSUME PtbInv, FillCoin
  PROVE  PtbInv'
<1> USE DEF PtbInv
<1>1. PICK k \in Spare : gas' = [id |-> CoinOrder[k], at |-> indexed[CoinOrder[k]]]
  BY DEF FillCoin
<1>2. /\ bpc = "gas" /\ bpc' = "budget"
      /\ UNCHANGED <<flavour, version, indexed, cached, inputs, gasSet, budget, budgetSet,
                     carried, result, told, wary>>
  BY DEF FillCoin, wallet, history
<1>3. CoinOrder[k] \in Coin \ DOMAIN cached
  BY WalletAssumption DEF Spare
<1>4. gas'.id = CoinOrder[k] /\ gas'.at = indexed[CoinOrder[k]]
  BY <1>1
<1>5. Types'
  <2>1. indexed[CoinOrder[k]] \in 1..version[CoinOrder[k]]
    BY <1>3, Versions
  <2>2. gas' # Nil
    <3>1. indexed[CoinOrder[k]] \in Nat
      BY <1>3, Versions, <2>1 DEF Owned
    <3>2. gas' \in [id : Coin, at : Nat]
      BY <1>1, <1>3, <3>1
    <3> QED
      BY <3>2, WalletAssumption
  <2> QED
    BY <1>2, <1>3, <1>4, <2>1, <2>2 DEF Types, PtbTypeOK
<1>6. Known' /\ Spared' /\ FreshIsAccepted'
  BY <1>2, <1>3, <1>4 DEF Known, Spared, FreshIsAccepted
<1>7. Timely'
  BY <1>2, <1>3, <1>4 DEF Timely, Current, Owned
<1> QED
  BY <1>5, <1>6, <1>7

(* The steps of execute that touch no slot but the budget.                   *)
LEMMA OnwardKeeps ==
  ASSUME PtbInv, Execute \/ KeepCoin \/ FillBudget \/ Finish
  PROVE  PtbInv'
<1> USE DEF PtbInv
<1>1. /\ budget' \in {budget, "oracle"}
      /\ UNCHANGED <<flavour, version, indexed, cached, inputs, auto, gas, gasSet,
                     budgetSet, carried, result, told, wary>>
  BY DEF Execute, KeepCoin, FillBudget, Finish, wallet, gasSlots, history
<1>2. /\ bpc # "none" /\ bpc' \in {"gas", "budget", "finish", "submit"}
      /\ bpc \in {"budget", "finish", "submit"} => bpc' \in {"budget", "finish", "submit"}
      /\ bpc' = "submit" => gas # Nil /\ \A i \in inputs : i.at # Nil
  BY DEF Execute, KeepCoin, FillBudget, Finish, Finishable
<1>3. Types'
  <2>1. auto /\ bpc' \in {"budget", "finish", "submit"} => gas # Nil
    BY DEF Types, PtbTypeOK, Execute, KeepCoin, FillBudget, Finish
  <2>2. auto /\ bpc' \in {"finish", "submit"} => budget' # "nobody"
    BY DEF Types, PtbTypeOK, Execute, KeepCoin, FillBudget, Finish, gasSlots
  <2> QED
    BY <1>1, <1>2, <2>1, <2>2 DEF Types, PtbTypeOK
<1>4. Known' /\ Spared' /\ FreshIsAccepted'
  BY <1>1, <1>2 DEF Known, Spared, FreshIsAccepted
<1>5. Timely'
  BY <1>1, <1>2 DEF Timely, Current
<1> QED
  BY <1>3, <1>4, <1>5

(* A transaction whose references are all current is not refused as stale.   *)
LEMMA StaleOnlyIfWary ==
  ASSUME PtbInv, bpc = "submit", ~UpToDate
  PROVE  wary
<1> SUFFICES ASSUME ~wary PROVE FALSE
  OBVIOUS
<1>1. gas # Nil /\ \A i \in inputs : i.at # Nil
  BY DEF PtbInv, Types, PtbTypeOK
<1> QED
  BY <1>1 DEF PtbInv, Timely, UpToDate

(* The chain executes a transaction: the versions of what it used go up.     *)
LEMMA SubmitKeeps ==
  ASSUME PtbInv, SubmitOk \/ SubmitNoAnswer
  PROVE  PtbInv'
<1> DEFINE bump(o) == IF o \in Used THEN 1 ELSE 0
<1>1. version' = [o \in Owned |-> version[o] + bump(o)]
  BY DEF SubmitOk, SubmitNoAnswer, Execution
<1>2. version \in [Owned -> Nat] /\ \A o \in Owned : bump(o) \in Nat
  BY DEF PtbInv, Types, PtbTypeOK
<1> HIDE DEF bump
<1>3. /\ version' \in [Owned -> Nat]
      /\ \A o \in Owned : version[o] <= version'[o]
  BY <1>1, <1>2
<1>4. CASE SubmitOk
  BY <1>3, <1>4, EndKeeps, Endings DEF SubmitOk
<1>5. CASE SubmitNoAnswer
  BY <1>3, <1>5, EndKeeps, Endings DEF SubmitNoAnswer
<1> QED
  BY <1>4, <1>5

(* A refusal leaves the chain as it is.  Only one for an old version says    *)
(* something of the references that the builder held.                        *)
LEMMA StopKeeps ==
  ASSUME PtbInv, UNCHANGED <<flavour, version, indexed, carried, wary>>,
         \/ \E why \in Results \ {"stale"} : End(why)
         \/ bpc = "submit" /\ ~UpToDate /\ End("stale")
  PROVE  PtbInv'
<1>1. /\ version' \in [Owned -> Nat]
      /\ \A o \in Owned : version[o] <= version'[o]
  BY DEF PtbInv, Types, PtbTypeOK
<1>2. ASSUME NEW why \in Results \ {"stale"}, End(why) PROVE PtbInv'
  BY <1>1, <1>2, EndKeeps
<1>3. CASE bpc = "submit" /\ ~UpToDate /\ End("stale")
  <2>1. /\ bpc' = "none" /\ result' = "stale" /\ cached' = << >> /\ inputs' = {}
        /\ gas' = Nil /\ budget' = "nobody"
        /\ gasSet' = FALSE /\ budgetSet' = FALSE
    BY <1>3 DEF End
  <2>2. wary'
    BY <1>3, StaleOnlyIfWary
  <2>3. Types'
    BY <1>1, <2>1, NoneAndStale DEF PtbInv, Types, PtbTypeOK
  <2> QED
    BY <2>1, <2>2, <2>3 DEF PtbInv, Known, Spared, Timely, FreshIsAccepted
<1> QED
  BY <1>2, <1>3

\* The ways to end before anything is sent.
LEMMA EndsKeep ==
  ASSUME PtbInv, NoGasCoins \/ OracleFails \/ FinishFails \/ SubmitRefused \/ Inspect
  PROVE  PtbInv'
<1>1. UNCHANGED <<flavour, version, indexed, carried, wary>>
  BY DEF NoGasCoins, OracleFails, FinishFails, SubmitRefused, Inspect, wallet
<1>2. \/ End("no gas coins") \/ End("oracle") \/ End("unfinished") \/ End("used twice")
      \/ End("not sent") \/ End("inspected")
      \/ bpc = "submit" /\ ~UpToDate /\ End("stale")
  BY Zenon DEF NoGasCoins, OracleFails, FinishFails, SubmitRefused, Inspect
<1>3. \A why \in Results \ {"stale"} : End(why) => PtbInv'
  BY <1>1, StopKeeps
<1> QED
  BY <1>1, <1>2, <1>3, Endings, StopKeeps, Zenon

(* The indexer catches up with the chain.                                    *)
LEMMA IndexKeeps ==
  ASSUME PtbInv, NEW o \in Owned, Index(o)
  PROVE  PtbInv'
<1> USE DEF PtbInv
<1>1. /\ indexed' = [indexed EXCEPT ![o] = version[o]]
      /\ UNCHANGED <<flavour, version, bpc, cached, inputs, auto, gas, gasSet, budget,
                     budgetSet, carried, result, told, wary>>
  BY DEF Index, builder, gasSlots, history
<1>2. version[o] \in Nat \ {0}
  BY Versions
<1>3. Types'
  BY <1>1, <1>2 DEF Types, PtbTypeOK
<1>4. Known' /\ Spared' /\ FreshIsAccepted'
  BY <1>1 DEF Known, Spared, FreshIsAccepted
<1>5. Timely'
  BY <1>1 DEF Timely, Current, Types, PtbTypeOK, Index
<1> QED
  BY <1>3, <1>4, <1>5

(* The wallet is used elsewhere, which makes any builder wary.               *)
LEMMA ElsewhereKeeps ==
  ASSUME PtbInv, NEW o \in Owned, Elsewhere(o)
  PROVE  PtbInv'
<1> USE DEF PtbInv
<1>1. /\ version' = [version EXCEPT ![o] = @ + 1] /\ wary'
      /\ UNCHANGED <<flavour, indexed, bpc, cached, inputs, auto, gas, gasSet, budget,
                     budgetSet, carried, result, told>>
  BY DEF Elsewhere, builder, gasSlots
<1>2. /\ version' \in [Owned -> Nat]
      /\ \A p \in Owned : version[p] <= version'[p] /\ version[p] \in Nat
  BY <1>1 DEF Types, PtbTypeOK
<1>3. Types'
  BY <1>1, <1>2 DEF Types, PtbTypeOK, Owned
<1>4. Known' /\ Spared' /\ FreshIsAccepted' /\ Timely'
  BY <1>1 DEF Known, Spared, FreshIsAccepted, Timely
<1> QED
  BY <1>3, <1>4

\* Nothing happens.
LEMMA StutterKeeps ==
  ASSUME PtbInv, UNCHANGED ptbVars
  PROVE  PtbInv'
<1>1. UNCHANGED <<flavour, version, indexed, bpc, cached, inputs, auto, gas, gasSet, budget,
                  budgetSet, carried, result, told, wary>>
  BY DEF ptbVars, wallet, builder, gasSlots, history
<1> QED
  BY <1>1 DEF PtbInv, Types, PtbTypeOK, Known, Spared, Timely, FreshIsAccepted, Current

-----------------------------------------------------------------------------
(* The invariant holds throughout.                                           *)
THEOREM PtbInvariance == PtbSpec => []PtbInv
<1>1. PtbInit => PtbInv
  BY NoneAndStale
     DEF PtbInit, PtbInv, Types, PtbTypeOK, Known, Spared, Timely, FreshIsAccepted
<1>2. PtbInv /\ [PtbNext]_ptbVars => PtbInv'
  <2> SUFFICES ASSUME PtbInv, [PtbNext]_ptbVars PROVE PtbInv'
    OBVIOUS
  <2>1. CASE Build
    <3>1. \A o \in Owned : PassReference(o) => PtbInv'
      BY PassReferenceKeeps
    <3>2. \A o \in Object :
            Register(o) \/ RegisterFromFetcher(o) \/ Resolve(o) \/ ResolveFails(o) => PtbInv'
      BY RegisterKeeps, ResolveKeeps, ResolveFailsKeeps
    <3>3. \A carry, autoGas \in BOOLEAN : New(carry, autoGas) => PtbInv'
      BY NewKeeps
    <3>4. (\E c \in Coin : SetGas(c)) \/ SetBudget \/ SetInnerBudget => PtbInv'
      BY SetKeeps
    <3> QED
      BY <2>1, <3>1, <3>2, <3>3, <3>4, Zenon DEF Build
  <2>2. CASE Run
    BY <2>2, FillCoinKeeps, OnwardKeeps, SubmitKeeps, EndsKeep, Zenon DEF Run
  <2>3. CASE \E o \in Owned : Index(o) \/ Elsewhere(o)
    BY <2>3, IndexKeeps, ElsewhereKeeps, Zenon
  <2>4. CASE UNCHANGED ptbVars
    BY <2>4, StutterKeeps
  <2> QED
    BY <2>1, <2>2, <2>3, <2>4, Zenon DEF PtbNext
<1> QED
  BY <1>1, <1>2, PTL DEF PtbSpec

(* The types of the variables; and fill_auto_gas leaves neither the coin nor *)
(* the budget open, whichever of them the user had set.                      *)
THEOREM PtbTypes == PtbSpec => []PtbTypeOK
<1>1. PtbInv => PtbTypeOK
  BY DEF PtbInv, Types
<1> QED
  BY <1>1, PtbInvariance, PTL

(* fill_auto_gas: the coin that the builder picks for the gas is no argument *)
(* it resolved from an id, whatever the oracle lists and however the user    *)
(* registers objects and resolves arguments before.                          *)
THEOREM GasIsSpare == PtbSpec => []GasIsNoArgument
<1>1. PtbInv => GasIsNoArgument
  BY DEF PtbInv, Known, Spared, GasIsNoArgument
<1> QED
  BY <1>1, PtbInvariance, PTL

(* The cache makes one input of an object that is given by its id again and  *)
(* again, although the indexer moves on between the calls.                   *)
THEOREM OneInput == PtbSpec => []InputsAgree
<1>1. PtbInv => InputsAgree
  <2> SUFFICES ASSUME PtbInv, NEW i \in inputs, NEW j \in inputs,
                      i.by = "id", i.at # Nil, j.by = "id", j.at # Nil,
                      i.id = j.id, i.id \notin told
               PROVE  i = j
    BY DEF InputsAgree
  <2>1. i.at = cached[i.id] /\ j.at = cached[j.id]
    BY DEF PtbInv, Known
  <2>2. i \in Input /\ j \in Input
    BY DEF PtbInv, Types, PtbTypeOK
  <2> QED
    BY <2>1, <2>2 DEF Input
<1> QED
  BY <1>1, PtbInvariance, PTL

(* A chain refuses no transaction for an old version if its builder started  *)
(* with an empty cache over an indexer that had caught up and the wallet was *)
(* not used elsewhere.                                                       *)
THEOREM FreshNotRefused == PtbSpec => []FreshIsAccepted
<1>1. PtbInv => FreshIsAccepted
  BY DEF PtbInv
<1> QED
  BY <1>1, PtbInvariance, PTL
=============================================================================
