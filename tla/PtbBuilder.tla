----------------------------- MODULE PtbBuilder -----------------------------
(***************************************************************************)
(* The PtbBuilder of the runtimes (crates/move-bindgen-runtime-iota and    *)
(* -sui: builder.rs, cache.rs, arguments.rs): one wallet sends one         *)
(* transaction after another, each built by a builder of its own.          *)
(*                                                                         *)
(* A builder turns the objects passed to generated calls into inputs,      *)
(* remembering in a cache what it has looked up; on execute it may pick    *)
(* the gas coin, the price and the budget itself.  The cache goes to the   *)
(* caller, who may give it to a later builder.  The chain executes at      *)
(* once; what the fetcher and the gas oracle serve, the indexer, lags      *)
(* behind.                                                                 *)
(***************************************************************************)
EXTENDS Naturals, Sequences, FiniteSets

CONSTANTS
  Coin,       \* the gas coins of the wallet
  CoinOrder,  \* the order in which the oracle lists them
  Asset,      \* its other owned objects
  SharedObj,  \* shared objects
  Flavours,   \* which of the two runtimes: a subset of {"iota", "sui"}
  Nil,        \* no gas coin yet
  MaxInputs,  \* bound on the arguments of one transaction
  MaxTold,    \* bound on the objects registered for one transaction
  MaxTx,      \* bound on the transactions
  MaxOther    \* bound on the transactions the wallet sends from elsewhere

Owned == Coin \cup Asset
Object == Owned \cup SharedObj

ASSUME WalletAssumption ==
  /\ CoinOrder \in Seq(Coin)
  /\ \A c \in Coin : \E i \in 1..Len(CoinOrder) : CoinOrder[i] = c
  /\ Owned \cap SharedObj = {}
  /\ Nil \notin Object \cup [id : Coin, at : Nat]
  /\ Flavours \subseteq {"iota", "sui"}
  /\ {MaxInputs, MaxTold, MaxTx, MaxOther} \subseteq Nat

VARIABLES
  flavour,
  version,    \* version[o]: of an owned object, on chain
  indexed,    \* the version the indexer serves
  bpc,        \* "none", "build", "gas", "budget", "finish" or "submit"
  cached,     \* the cache of the builder: object |-> version
  carried,    \* the cache the last execute returned, until it is passed on
  inputs,     \* the inputs of the transaction under construction
  auto,       \* auto_gas
  gas,        \* its gas coin, or Nil
  gasSet,     \* gas_coin_set
  budget,     \* who set the gas budget: "nobody", "user" or "oracle"
  budgetSet,  \* gas_budget_set
  result,     \* how the last transaction ended
  told,       \* objects the user registered (history)
  wary,       \* the builder may rightly be behind the chain (history)
  others, txs

wallet == <<flavour, version, indexed>>
gasSlots == <<auto, gas, gasSet, budget, budgetSet>>
builder == <<bpc, cached, inputs, gasSlots>>
history == <<told, wary>>
counts == <<others, txs>>
ptbVars == <<wallet, builder, carried, result, history, counts>>

Results == {"none", "ok", "panic", "no gas coins", "oracle", "unfinished",
            "not sent", "no answer", "used twice", "stale", "inspected"}

(* An owned object is referred to at a version, a shared one by its initial  *)
(* version, which never changes, written 0; Nil is that of a bare id.  An    *)
(* argument is given by its id or by an ObjectReference.                     *)
Input == [id : Object, at : Nat \cup {Nil}, by : {"id", "reference"}]

Served(o) == IF o \in Owned THEN indexed[o] ELSE 0
Current(o) == IF o \in Owned THEN version[o] ELSE 0
With(f, o, v) == [p \in DOMAIN f \cup {o} |-> IF p = o THEN v ELSE f[p]]
Add(o, v, how) == inputs' = inputs \cup {[id |-> o, at |-> v, by |-> how]}

PtbInit ==
  /\ flavour \in Flavours
  /\ version = [o \in Owned |-> 1]
  /\ indexed = [o \in Owned |-> 1]
  /\ bpc = "none"
  /\ cached = << >>
  /\ carried = << >>
  /\ inputs = {}
  /\ auto = FALSE
  /\ gas = Nil
  /\ gasSet = FALSE
  /\ budget = "nobody"
  /\ budgetSet = FALSE
  /\ result = "none"
  /\ told = {}
  /\ wary = FALSE
  /\ others = 0
  /\ txs = 0

-----------------------------------------------------------------------------
(* Building.  An operator marked "mutant" is the next one with a plausible   *)
(* slip in it; nothing uses it but the mutation tests.                       *)

CarryAlways(carry) == carried  \* mutant
Seed(carry) == IF carry THEN carried ELSE << >>

(* PtbBuilder::new, with_cache and with_auto_gas, or not.  The cache of the  *)
(* previous transaction is passed on here or dropped.                        *)
New(carry, autoGas) ==
  /\ bpc = "none" /\ txs < MaxTx
  /\ bpc' = "build"
  /\ cached' = Seed(carry)
  /\ inputs' = {}
  /\ auto' = autoGas
  /\ gas' = Nil
  /\ gasSet' = FALSE
  /\ budget' = "nobody"
  /\ budgetSet' = FALSE
  /\ result' = "none"
  /\ told' = {}
  /\ wary' = (carry \/ indexed # version)
  /\ txs' = txs + 1
  /\ carried' = << >>
  /\ UNCHANGED <<wallet, others>>

(* register_owned, register_shared: the user knows the reference, say from   *)
(* the effects of its last transaction.                                      *)
Register(o) ==
  /\ bpc = "build" /\ Cardinality(told) < MaxTold
  /\ cached' = With(cached, o, Current(o))
  /\ told' = told \cup {o}
  /\ UNCHANGED <<wallet, bpc, inputs, gasSlots, carried, result, wary, counts>>

(* register_from_fetcher asks again, whatever the cache holds.               *)
RegisterFromFetcher(o) ==
  /\ bpc = "build" /\ Cardinality(told) < MaxTold
  /\ cached' = With(cached, o, Served(o))
  /\ told' = told \cup {o}
  /\ UNCHANGED <<wallet, bpc, inputs, gasSlots, carried, result, wary, counts>>

Uncached(o) == UNCHANGED cached  \* mutant
Remember(o) == cached' = With(cached, o, Served(o))

Room == Cardinality(inputs) < MaxInputs

(* A generated call given a bare id: from the cache, or fetched and cached.  *)
Resolve(o) ==
  /\ bpc = "build" /\ Room
  /\ IF o \in DOMAIN cached
       THEN Add(o, cached[o], "id") /\ UNCHANGED cached
       ELSE Add(o, Served(o), "id") /\ Remember(o)
  /\ UNCHANGED <<wallet, bpc, gasSlots, carried, result, history, counts>>

(* The builder is consumed.                                                  *)
End(why) ==
  /\ bpc' = "none"
  /\ result' = why
  /\ cached' = << >>
  /\ inputs' = {}
  /\ auto' = FALSE
  /\ gas' = Nil
  /\ gasSet' = FALSE
  /\ budget' = "nobody"
  /\ budgetSet' = FALSE
  /\ told' = {}

(* The fetch fails or there is no fetcher: an unresolved input on iota, a    *)
(* panic on sui.                                                             *)
ResolveFails(o) ==
  /\ bpc = "build" /\ Room
  /\ o \notin DOMAIN cached
  /\ \/ /\ flavour = "iota"
        /\ Add(o, Nil, "id")
        /\ UNCHANGED <<bpc, cached, gasSlots, result, told>>
     \/ /\ flavour = "sui"
        /\ End("panic")
  /\ UNCHANGED <<wallet, carried, wary, counts>>

(* A generated call given an ObjectReference: an input at that version; the  *)
(* cache learns nothing.                                                     *)
PassReference(o) ==
  /\ bpc = "build" /\ Room
  /\ Add(o, Current(o), "reference")
  /\ UNCHANGED <<wallet, bpc, cached, gasSlots, carried, result, history, counts>>

(* PtbBuilder::gas, PtbBuilder::gas_budget and the gas_budget of inner.      *)
SetGas(c) ==
  /\ bpc = "build" /\ gas = Nil
  /\ gas' = [id |-> c, at |-> version[c]]
  /\ gasSet' = TRUE
  /\ UNCHANGED <<wallet, bpc, cached, inputs, auto, budget, budgetSet, carried,
                result, history, counts>>

SetBudget ==
  /\ bpc = "build" /\ budget = "nobody"
  /\ budget' = "user"
  /\ budgetSet' = TRUE
  /\ UNCHANGED <<wallet, bpc, cached, inputs, auto, gas, gasSet, carried,
                result, history, counts>>

SetInnerBudget ==
  /\ bpc = "build" /\ budget = "nobody"
  /\ budget' = "user"
  /\ UNCHANGED <<wallet, bpc, cached, inputs, auto, gas, gasSet, budgetSet,
                carried, result, history, counts>>

-----------------------------------------------------------------------------
(* execute: fill the gas slots, finish, sign and submit *)

Execute ==
  /\ bpc = "build" /\ inputs # {}
  /\ bpc' = IF auto THEN "gas" ELSE "finish"
  /\ UNCHANGED <<wallet, cached, inputs, gasSlots, carried, result, history,
                counts>>

AnyCoin == 1..Len(CoinOrder)  \* mutant
Spare == {i \in 1..Len(CoinOrder) : CoinOrder[i] \notin DOMAIN cached}

FillCoin ==
  /\ bpc = "gas" /\ ~gasSet
  /\ \E i \in Spare :
       /\ \A j \in Spare : i <= j
       /\ gas' = [id |-> CoinOrder[i], at |-> indexed[CoinOrder[i]]]
  /\ bpc' = "budget"
  /\ UNCHANGED <<wallet, cached, inputs, auto, gasSet, budget, budgetSet,
                carried, result, history, counts>>

CoinEndsIt ==  \* mutant
  /\ bpc = "gas" /\ gasSet
  /\ bpc' = "finish"
  /\ UNCHANGED <<wallet, cached, inputs, gasSlots, carried, result, history,
                counts>>

KeepCoin ==
  /\ bpc = "gas" /\ gasSet
  /\ bpc' = "budget"
  /\ UNCHANGED <<wallet, cached, inputs, gasSlots, carried, result, history,
                counts>>

NoGasCoins ==
  /\ bpc = "gas" /\ ~gasSet /\ Spare = {}
  /\ End("no gas coins")
  /\ UNCHANGED <<wallet, carried, wary, counts>>

(* A failed dry run falls back on suggest_gas_budget.  Only the gas_budget of *)
(* the PtbBuilder itself leaves a mark; one set on inner is overwritten.     *)
FillBudget ==
  /\ bpc = "budget"
  /\ budget' = IF budgetSet THEN budget ELSE "oracle"
  /\ bpc' = "finish"
  /\ UNCHANGED <<wallet, cached, inputs, auto, gas, gasSet, budgetSet, carried,
                result, history, counts>>

(* The oracle is missing, or fails to list coins, to price or to suggest.    *)
OracleFails ==
  /\ bpc \in {"gas", "budget"}
  /\ End("oracle")
  /\ UNCHANGED <<wallet, carried, wary, counts>>

Finishable ==
  /\ gas # Nil /\ budget # "nobody"
  /\ \A i \in inputs : i.at # Nil

Finish ==
  /\ bpc = "finish" /\ Finishable
  /\ bpc' = "submit"
  /\ UNCHANGED <<wallet, cached, inputs, gasSlots, carried, result, history,
                counts>>

FinishFails ==
  /\ bpc = "finish" /\ ~Finishable
  /\ End("unfinished")
  /\ UNCHANGED <<wallet, carried, wary, counts>>

(* What the chain asks of a transaction: each owned object once, and at its  *)
(* version of the moment.                                                    *)
Once ==
  /\ \A i \in inputs : i.id # gas.id
  /\ \A i, j \in inputs : i.id = j.id => i.at = j.at
UpToDate == \A i \in inputs \cup {gas} : i.at = Current(i.id)
Used == {i.id : i \in inputs \cup {gas}}

Execution ==
  /\ bpc = "submit" /\ Once /\ UpToDate
  /\ version' = [o \in Owned |-> version[o] + IF o \in Used THEN 1 ELSE 0]

(* The transaction executes and bumps what it used; the effects, successful  *)
(* or not, and the cache of the builder go to the caller.                    *)
SubmitOk ==
  /\ Execution
  /\ carried' = cached
  /\ End("ok")
  /\ UNCHANGED <<flavour, indexed, wary, counts>>

(* The answer gets lost: the cache is dropped with the builder.              *)
SubmitNoAnswer ==
  /\ Execution
  /\ End("no answer")
  /\ UNCHANGED <<flavour, indexed, carried, wary, counts>>

SubmitRefused ==
  /\ bpc = "submit"
  /\ \/ ~Once /\ End("used twice")
     \/ Once /\ ~UpToDate /\ End("stale")
     \/ End("not sent")
  /\ UNCHANGED <<wallet, carried, wary, counts>>

(* inspect is execute up to here, with a dry run for its end.                *)
Inspect ==
  /\ bpc = "submit"
  /\ End("inspected")
  /\ UNCHANGED <<wallet, carried, wary, counts>>

-----------------------------------------------------------------------------
Index(o) ==
  /\ indexed[o] < version[o]
  /\ indexed' = [indexed EXCEPT ![o] = version[o]]
  /\ UNCHANGED <<flavour, version, builder, carried, result, history, counts>>

(* The wallet uses the object in another program.                            *)
Elsewhere(o) ==
  /\ others < MaxOther
  /\ version' = [version EXCEPT ![o] = @ + 1]
  /\ others' = others + 1
  /\ wary' = TRUE
  /\ UNCHANGED <<flavour, indexed, builder, carried, result, told, txs>>

Build ==
  \/ \E carry, autoGas \in BOOLEAN : New(carry, autoGas)
  \/ \E o \in Object :
       \/ Register(o) \/ RegisterFromFetcher(o)
       \/ Resolve(o) \/ ResolveFails(o)
  \/ \E o \in Owned : PassReference(o)
  \/ \E c \in Coin : SetGas(c)
  \/ SetBudget \/ SetInnerBudget

Run ==
  \/ Execute \/ FillCoin \/ KeepCoin \/ NoGasCoins \/ FillBudget
  \/ OracleFails \/ Finish \/ FinishFails \/ SubmitOk \/ SubmitNoAnswer
  \/ SubmitRefused \/ Inspect

PtbNext == Build \/ Run \/ \E o \in Owned : Index(o) \/ Elsewhere(o)

PtbSpec == PtbInit /\ [][PtbNext]_ptbVars

-----------------------------------------------------------------------------
(* Properties *)

(* The types of the variables; and fill_auto_gas leaves no slot open: with   *)
(* with_auto_gas a transaction that is to be finished has a coin and a       *)
(* budget, whichever of them the user had set before.                        *)
PtbTypeOK ==
  /\ flavour \in Flavours
  /\ version \in [Owned -> Nat]
  /\ \A o \in Owned : indexed[o] \in 1..version[o]
  /\ bpc \in {"none", "build", "gas", "budget", "finish", "submit"}
  /\ DOMAIN cached \cup DOMAIN carried \subseteq Object
  /\ inputs \subseteq Input
  /\ gas = Nil \/ (gas.id \in Coin /\ gas.at \in 1..version[gas.id])
  /\ auto /\ bpc \in {"finish", "submit"} => gas # Nil /\ budget # "nobody"
  /\ budget \in {"nobody", "user", "oracle"}
  /\ result \in Results

(* "Skip coins already used as command args" (fill_auto_gas): the coin the   *)
(* builder picks is no argument given by its id.  One given by reference it  *)
(* does not learn of, nor of one it could not resolve, which never finishes. *)
GasIsNoArgument ==
  gas # Nil /\ ~gasSet /\ bpc # "none" =>
    \A i \in inputs : i.by = "id" /\ i.at # Nil => i.id # gas.id

(* An object given twice by its id is one input, at one version, also when   *)
(* the indexer moves on between the two calls: the first one caches it.  The *)
(* user who registers it in between gets two.                                *)
InputsAgree ==
  \A i, j \in {k \in inputs : k.by = "id" /\ k.at # Nil} :
    i.id = j.id /\ i.id \notin told => i = j

(* A builder with an empty cache, started when the indexer had caught up, is *)
(* not refused for an old version while the wallet is not used elsewhere.    *)
FreshIsAccepted == result = "stale" => wary

(* "Each is independently lockable - calling `ptb.inner.gas_budget(...)`     *)
(* later only locks the budget" (ptb-builder.md, of the automatic slots).    *)
BudgetLocked == [][budget = "user" => budget' # "oracle"]_ptbVars

(* "The cache contains every object the previous PTB touched, at their       *)
(* post-execution versions" (ptb-builder.md).                                *)
CarriedIsCurrent ==
  [][result' = "ok" /\ result # "ok" =>
       \A o \in DOMAIN carried' : carried'[o] = Current(o)']_ptbVars
=============================================================================
