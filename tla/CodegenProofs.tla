--------------------------- MODULE CodegenProofs ----------------------------
(***************************************************************************)
(* Theorems about Codegen, for every set of packages, modules and types.   *)
(***************************************************************************)
EXTENDS Codegen, SequenceTheorems, TLAPS

(* Names that are alone in lower case are taken in lower case, the others as *)
(* they are: no two of them meet, because a name in lower case is its own    *)
(* lower case.                                                               *)
LEMMA MethodsDiffer ==
  ASSUME NEW names \in SUBSET TypeName, NEW n \in names, NEW k \in names,
         Method(names, n) = Method(names, k)
  PROVE  n = k
<1>1. CASE Alone(names, n) /\ Alone(names, k)
  BY <1>1 DEF Method, Alone
<1>2. CASE ~Alone(names, n) /\ ~Alone(names, k)
  BY <1>2 DEF Method
<1>3. CASE Alone(names, n) /\ ~Alone(names, k)
  <2>1. Lower[n] = k
    BY <1>3 DEF Method
  <2>2. k \in DOMAIN Lower /\ n \in DOMAIN Lower
    BY LowerAssumption
  <2>3. Lower[k] = Lower[n]
    BY <2>1, <2>2, LowerAssumption
  <2> QED
    BY <1>3, <2>3 DEF Alone
<1>4. CASE ~Alone(names, n) /\ Alone(names, k)
  <2>1. Lower[k] = n
    BY <1>4 DEF Method
  <2>2. k \in DOMAIN Lower /\ n \in DOMAIN Lower
    BY LowerAssumption
  <2>3. Lower[k] = Lower[n]
    BY <2>1, <2>2, LowerAssumption
  <2> QED
    BY <1>4, <2>3 DEF Alone
<1> QED
  BY <1>1, <1>2, <1>3, <1>4

(* No two methods of a module have one name.                                 *)
LEMMA TagsOfModule ==
  ASSUME NEW mod, IsModule(mod), NEW n \in DOMAIN TagMethods(mod),
         NEW k \in DOMAIN TagMethods(mod), TagMethods(mod)[n] = TagMethods(mod)[k]
  PROVE  n = k
<1>1. NonGeneric(mod) \in SUBSET TypeName
  BY DEF NonGeneric, IsModule
<1>2. n \in NonGeneric(mod) /\ k \in NonGeneric(mod)
  BY DEF TagMethods
<1>3. Method(NonGeneric(mod), n) = Method(NonGeneric(mod), k)
  BY <1>2 DEF TagMethods
<1> QED
  BY <1>1, <1>2, <1>3, MethodsDiffer

-----------------------------------------------------------------------------
(* Where paths lead                                                          *)

(* A path whose root is not crate or the prelude goes through a dependency.  *)
LEMMA RootIs ==
  ASSUME NEW p, NEW m, NEW d
  PROVE  /\ PathRoot(p, m, d) = "peer" => d \notin WellKnown /\ d.at # BuiltAt[p]
         /\ PathRoot(p, m, d) \in {"self", "super"} => d.at = BuiltAt[p]
         /\ PathRoot(p, m, d) \in {"prelude", "self", "super", "peer"}
BY DEF PathRoot

(* Whatever a module's items name, its fields and signatures mention, so     *)
(* that foreign_addresses_used comes by it.                                  *)
LEMMA UsedIsMentioned ==
  ASSUME NEW mods, NEW m \in DOMAIN mods,
         NEW d \in TypeUses(mods[m]) \cup TraitUses(mods[m])
  PROVE  d \in Mentioned(mods)
<1>1. Passed(mods[m]) \subseteq Signatures(mods[m])
  BY DEF Passed, Callables, Arguments, Signatures
<1>2. PICK t \in Fields(mods[m]) \cup Signatures(mods[m]) : d \in Mentions(t)
  <2>1. CASE \E t \in Fields(mods[m]) : d \in Mentions(t)
    BY <2>1
  <2>2. CASE \E t \in Passed(mods[m]) : d \in BoundTypes(t) \cup BoundTraits(t)
    <3>1. PICK t \in Passed(mods[m]) : d \in BoundTypes(t) \cup BoundTraits(t)
      BY <2>2
    <3>2. d \in Mentions(t)
      BY <3>1 DEF BoundTypes, BoundTraits, Mentions
    <3> QED
      BY <1>1, <3>1, <3>2
  <2>3. CASE d \in TypeUses(mods[m])
    <3>1. \/ \E t \in Fields(mods[m]) : d \in Mentions(t)
          \/ \E t \in Passed(mods[m]) : d \in BoundTypes(t)
      BY <2>3 DEF TypeUses
    <3> QED
      BY <2>1, <2>2, <3>1
  <2>4. CASE d \in TraitUses(mods[m])
    <3>1. \E t \in Passed(mods[m]) : d \in BoundTraits(t)
      BY <2>4 DEF TraitUses
    <3> QED
      BY <2>2, <3>1
  <2> QED
    BY <2>3, <2>4
<1> QED
  BY <1>2 DEF Mentioned

(* No datatype is at address zero: only a package without modules counts as  *)
(* that.                                                                     *)
LEMMA MentionedIsSomewhere ==
  ASSUME NEW p \in Packages, NEW mods \in Compiled[p], NEW d \in Mentioned(mods)
  PROVE  d.at # "0x0"
<1>1. PICK m \in DOMAIN mods :
        \E t \in Fields(mods[m]) \cup Signatures(mods[m]) : d \in Mentions(t)
  BY DEF Mentioned
<1>2. PICK t \in Fields(mods[m]) \cup Signatures(mods[m]) : d \in Mentions(t)
  BY <1>1
<1>3. IsModule(mods[m])
  BY CodegenAssumption
<1>4. t \in Type
  <2>1. CASE t \in Fields(mods[m])
    BY <1>3, <2>1 DEF Fields, IsModule, IsDecl
  <2>2. CASE t \in Signatures(mods[m])
    BY <1>3, <2>2 DEF Signatures, IsModule
  <2> QED
    BY <2>1, <2>2
<1>5. d \in Datatype
  BY <1>2, <1>4 DEF Mentions, Type
<1> QED
  BY <1>5, CodegenAssumption DEF Datatype

-----------------------------------------------------------------------------
(* What is on disk *)

(* The modules in mods are those of p that were seen, are not the runtime's  *)
(* and have something to say, each with what the emitter makes of it.        *)
Emitted(p, mods, seen) ==
  /\ \A m \in DOMAIN mods :
       /\ m \in DOMAIN ir[p] \ SkipModules(p)
       /\ mods[m] = Items(p, m) /\ ~Refused(p, m)
  /\ \A m \in seen :
       m \in SkipModules(p) \/ Empty(ir[p][m]) \/ m \in DOMAIN mods

(* The packages compiled so far, in the order of packages.json, and the      *)
(* crates of the addresses they are at.                                      *)
LoadInv ==
  /\ loaded \in Seq(Packages) /\ next \in Nat \ {0}
  /\ DOMAIN ir = Members /\ \A p \in Members : ir[p] \in Compiled[p]
  /\ phase = "load" => \A i \in 1 .. Len(loaded) :
       \E k \in 1 .. next - 1 : k <= Len(Staged) /\ loaded[i] = Staged[k]
  /\ \A i, j \in 1 .. Len(loaded) :
       CrateOf[loaded[i]] = CrateOf[loaded[j]] => i = j
  /\ \A a \in DOMAIN peers : \E p \in Members :
       peers[a] = CrateOf[p] /\ BindingsAddress(p, ir[p]) = a
  /\ phase \in {"load", "begin", "emit", "done", "failed"}

(* The crates on disk are those of the members the second loop has passed,   *)
(* and whole; of the member it has come to, the modules that were looked at. *)
EmitInv ==
  /\ phase = "load" => crates = << >>
  /\ phase = "emit" =>
       /\ next <= Len(loaded)
       /\ todo \subseteq DOMAIN ir[loaded[next]]
       /\ Emitted(loaded[next], body, DOMAIN ir[loaded[next]] \ todo)
  /\ phase = "done" => next > Len(loaded)
  /\ \A c \in DOMAIN crates : \E i \in 1 .. Len(loaded) :
       i < next /\ c = CrateOf[loaded[i]]
  /\ phase # "load" => \A i \in 1 .. Len(loaded) : i < next =>
       LET p == loaded[i]
       IN  /\ CrateOf[p] \in DOMAIN crates
           /\ crates[CrateOf[p]].deps = PeerDeps(p)
           /\ Emitted(p, crates[CrateOf[p]].mods, DOMAIN ir[p])

(* The second loop compiles nothing: what it emits from stays as it is.      *)
LEMMA LoadStays ==
  ASSUME UNCHANGED <<ir, loaded, peers>>
  PROVE  /\ \A p, m : Items(p, m)' = Items(p, m) /\ Refused(p, m)' = Refused(p, m)
         /\ \A p : PeerDeps(p)' = PeerDeps(p)
         /\ \A p, mods, seen : Emitted(p, mods, seen)' <=> Emitted(p, mods, seen)
         /\ Members' = Members
<1>1. \A p, m : Items(p, m)' = Items(p, m)
  BY DEF Items, Uses, Use
<1>2. \A p, m : Refused(p, m)' = Refused(p, m)
  BY DEF Refused, Unroutable
<1>3. \A p : PeerDeps(p)' = PeerDeps(p)
  BY DEF PeerDeps, Foreign
<1>4. Members' = Members
  BY DEF Members
<1> QED
  BY <1>1, <1>2, <1>3, <1>4 DEF Emitted

(* The first loop gives each package and each address one crate.             *)
LEMMA LoadStep ==
  ASSUME LoadInv, [CodegenNext]_vars
  PROVE  LoadInv'
<1>1. ASSUME UNCHANGED <<ir, loaded, peers>>, phase' # "load", next' \in Nat \ {0},
             phase' \in {"begin", "emit", "done", "failed"}
      PROVE  LoadInv'
  <2>1. Members' = Members
    BY <1>1 DEF Members
  <2>2. ASSUME NEW a \in DOMAIN peers
        PROVE  \E p \in Members :
                 peers[a] = CrateOf[p] /\ BindingsAddress(p, ir[p]) = a
    BY DEF LoadInv
  <2> QED
    BY <1>1, <2>1, <2>2 DEF LoadInv
<1>2. ASSUME UNCHANGED <<ir, loaded, peers, phase>>, next' \in Nat \ {0},
             1 .. next - 1 \subseteq 1 .. next' - 1
      PROVE  LoadInv'
  <2>1. Members' = Members
    BY <1>2 DEF Members
  <2>2. phase = "load" => \A i \in 1 .. Len(loaded) :
          \E k \in 1 .. next' - 1 : k <= Len(Staged) /\ loaded[i] = Staged[k]
    BY <1>2 DEF LoadInv
  <2>3. ASSUME NEW a \in DOMAIN peers
        PROVE  \E p \in Members :
                 peers[a] = CrateOf[p] /\ BindingsAddress(p, ir[p]) = a
    BY DEF LoadInv
  <2> HIDE DEF Members
  <2>4. /\ loaded \in Seq(Packages)
        /\ DOMAIN ir = Members /\ \A p \in Members : ir[p] \in Compiled[p]
        /\ \A i, j \in 1 .. Len(loaded) : CrateOf[loaded[i]] = CrateOf[loaded[j]] => i = j
        /\ phase \in {"load", "begin", "emit", "done", "failed"}
    BY DEF LoadInv
  <2> QED
    BY <1>2, <2>1, <2>2, <2>3, <2>4 DEF LoadInv
<1>3. CASE BeginMember \/ SkipModule \/ EmitModule \/ EmitFails \/ Finish
  BY <1>1, <1>3 DEF LoadInv, BeginMember, SkipModule, EmitModule, EmitFails, Finish
<1>4. CASE WriteMember
  <2>1. next + 1 \in Nat \ {0}
    BY DEF LoadInv
  <2> QED
    BY <1>1, <1>4, <2>1 DEF WriteMember
<1>5. CASE PassFramework \/ Alias
  <2>1. /\ UNCHANGED <<ir, loaded, peers, phase>> /\ next' = next + 1
    BY <1>5 DEF PassFramework, Alias
  <2>2. next \in Nat \ {0} /\ next' \in Nat \ {0} /\ 1 .. next - 1 \subseteq 1 .. next' - 1
    BY <2>1 DEF LoadInv
  <2> QED
    BY <1>2, <2>1, <2>2
<1>6. CASE Load
  <2> DEFINE p == Staged[next]
             n == Len(loaded)
  <2>1. PICK mods \in Compiled[p] :
          /\ BindingsAddress(p, mods) \notin DOMAIN peers
          /\ ir' = With(ir, p, mods)
          /\ peers' = With(peers, BindingsAddress(p, mods), CrateOf[p])
    BY <1>6 DEF Load
  <2>2. /\ phase = "load" /\ phase' = "load" /\ next' = next + 1 /\ next <= Len(Staged)
        /\ loaded' = Append(loaded, p)
    BY <1>6 DEF Load
  <2>3. p \in Packages /\ next \in 1 .. Len(Staged) /\ next \in Nat
    BY <2>2, CodegenAssumption, ElementOfSeq, LenProperties DEF LoadInv
  <2>4. /\ loaded' \in Seq(Packages) /\ Len(loaded') = n + 1 /\ n \in Nat
        /\ \A i \in 1 .. n : loaded'[i] = loaded[i]
        /\ loaded'[n + 1] = p
    BY <2>2, <2>3, AppendProperties, LenProperties DEF LoadInv
  <2>5. Members' = Members \cup {p}
    BY <2>4 DEF Members
  <2>6. ASSUME NEW i \in 1 .. n
        PROVE  CrateOf[loaded[i]] # CrateOf[p]
    <3>1. PICK k \in 1 .. next - 1 : k <= Len(Staged) /\ loaded[i] = Staged[k]
      BY <2>2, <2>6 DEF LoadInv
    <3> QED
      BY <2>3, <3>1, CodegenAssumption
  <2>7. \A i, j \in 1 .. Len(loaded') :
          CrateOf[loaded'[i]] = CrateOf[loaded'[j]] => i = j
    <3> SUFFICES ASSUME NEW i \in 1 .. n + 1, NEW j \in 1 .. n + 1,
                        CrateOf[loaded'[i]] = CrateOf[loaded'[j]]
                 PROVE  i = j
      BY <2>4
    <3>1. CASE i \in 1 .. n /\ j \in 1 .. n
      BY <2>4, <3>1 DEF LoadInv
    <3>2. CASE i = n + 1 /\ j \in 1 .. n
      BY <2>4, <2>6, <3>2
    <3>3. CASE i \in 1 .. n /\ j = n + 1
      BY <2>4, <2>6, <3>3
    <3> QED
      BY <2>4, <3>1, <3>2, <3>3
  <2>8. \A i \in 1 .. Len(loaded') :
          \E k \in 1 .. next' - 1 : k <= Len(Staged) /\ loaded'[i] = Staged[k]
    <3> SUFFICES ASSUME NEW i \in 1 .. n + 1
                 PROVE  \E k \in 1 .. next : k <= Len(Staged) /\ loaded'[i] = Staged[k]
      BY <2>2, <2>3, <2>4
    <3>1. CASE i = n + 1
      BY <2>2, <2>3, <2>4, <3>1
    <3>2. CASE i \in 1 .. n
      <4>1. PICK k \in 1 .. next - 1 : k <= Len(Staged) /\ loaded[i] = Staged[k]
        BY <2>2, <3>2 DEF LoadInv
      <4> QED
        BY <2>3, <2>4, <3>2, <4>1
    <3> QED
      BY <2>4, <3>1, <3>2
  <2>9. p \notin Members
    BY <2>6 DEF Members
  <2>10. DOMAIN ir' = Members' /\ \A q \in Members' : ir'[q] \in Compiled[q]
    <3>1. DOMAIN ir' = DOMAIN ir \cup {p} /\ ir'[p] = mods
      BY <2>1 DEF With
    <3>2. \A q \in DOMAIN ir : q # p => ir'[q] = ir[q]
      BY <2>1 DEF With
    <3> HIDE DEF p
    <3> QED
      BY <2>5, <3>1, <3>2 DEF LoadInv
  <2>11. ASSUME NEW a \in DOMAIN peers'
         PROVE  \E q \in Members' :
                  peers'[a] = CrateOf[q] /\ BindingsAddress(q, ir'[q]) = a
    <3>1. CASE a = BindingsAddress(p, mods)
      <4>1. peers'[a] = CrateOf[p] /\ ir'[p] = mods
        BY <2>1, <3>1 DEF With
      <4> QED
        BY <2>5, <3>1, <4>1
    <3>2. CASE a # BindingsAddress(p, mods)
      <4>1. a \in DOMAIN peers /\ peers'[a] = peers[a]
        BY <2>1, <2>11, <3>2 DEF With
      <4>2. PICK q \in Members : peers[a] = CrateOf[q] /\ BindingsAddress(q, ir[q]) = a
        BY <4>1 DEF LoadInv
      <4>3. ir'[q] = ir[q]
        BY <2>1, <2>9, <4>2 DEF LoadInv, With
      <4> QED
        BY <2>5, <4>1, <4>2, <4>3
    <3> QED
      BY <3>1, <3>2
  <2> HIDE DEF p, n
  <2> QED
    BY <2>2, <2>3, <2>4, <2>7, <2>8, <2>10, <2>11 DEF LoadInv
<1>7. CASE Loaded
  BY <1>1, <1>7 DEF Loaded
<1>8. CASE UNCHANGED vars
  <2>1. UNCHANGED <<ir, loaded, peers, phase, next>> /\ next \in Nat \ {0}
    BY <1>8 DEF vars, LoadInv
  <2> QED
    BY <1>2, <2>1
<1> QED
  BY <1>3, <1>5, <1>6, <1>7, <1>8, <1>4 DEF CodegenNext

(* Looking at one more module of the member adds what it has to say.         *)
LEMMA EmitStep ==
  ASSUME LoadInv, EmitInv, [CodegenNext]_vars
  PROVE  EmitInv'
<1> DEFINE Whole(i) ==
      /\ CrateOf[loaded[i]] \in DOMAIN crates
      /\ crates[CrateOf[loaded[i]]].deps = PeerDeps(loaded[i])
      /\ Emitted(loaded[i], crates[CrateOf[loaded[i]]].mods, DOMAIN ir[loaded[i]])
<1>1. Len(loaded) \in Nat /\ next \in Nat
  BY LenProperties DEF LoadInv
<1>2. CASE PassFramework \/ Load \/ Alias
  <2>1. phase = "load" /\ phase' = "load" /\ crates' = crates
    BY <1>2 DEF PassFramework, Load, Alias
  <2> QED
    BY <2>1 DEF EmitInv
<1>3. CASE Loaded
  <2>1. phase = "load" /\ phase' = "begin" /\ crates' = crates /\ next' = 1
        /\ loaded' = loaded
    BY <1>3 DEF Loaded
  <2> QED
    BY <1>1, <2>1 DEF EmitInv
<1>4. ASSUME UNCHANGED <<ir, loaded, peers, crates, next>>, phase # "load", phase' # "load",
             phase' = "emit" =>
               /\ next <= Len(loaded)
               /\ todo' \subseteq DOMAIN ir[loaded[next]]
               /\ Emitted(loaded[next], body', DOMAIN ir[loaded[next]] \ todo'),
             phase' = "done" => next > Len(loaded)
      PROVE  EmitInv'
  <2>1. \A i \in 1 .. Len(loaded) : i < next => Whole(i)
    BY <1>4 DEF EmitInv
  <2>2. \A i \in 1 .. Len(loaded) : i < next => Whole(i)'
    BY <1>4, <2>1, LoadStays
  <2>3. phase' = "emit" =>
          Emitted(loaded[next], body, DOMAIN ir[loaded[next]] \ todo)'
    BY <1>4, LoadStays
  <2>4. \A c \in DOMAIN crates' : \E i \in 1 .. Len(loaded') :
          i < next' /\ c = CrateOf[loaded'[i]]
    BY <1>4 DEF EmitInv
  <2> QED
    BY <1>4, <2>2, <2>3, <2>4 DEF EmitInv
<1>5. CASE BeginMember
  <2>1. Emitted(loaded[next], body', DOMAIN ir[loaded[next]] \ todo')
    BY <1>5 DEF BeginMember, Emitted
  <2> QED
    BY <1>4, <1>5, <2>1 DEF BeginMember
<1>6. CASE EmitFails \/ Finish
  BY <1>4, <1>6 DEF EmitFails, Finish
<1>7. CASE SkipModule
  <2> DEFINE p == loaded[next]
  <2>1. PICK m \in todo : /\ m \in SkipModules(p) \/ Empty(ir[p][m])
                         /\ todo' = todo \ {m}
    BY <1>7 DEF SkipModule, Skipped
  <2>2. /\ phase = "emit" /\ phase' = "emit" /\ UNCHANGED <<ir, loaded, peers, crates, next, body>>
    BY <1>7 DEF SkipModule
  <2>3. next <= Len(loaded) /\ todo \subseteq DOMAIN ir[p] /\ Emitted(p, body, DOMAIN ir[p] \ todo)
    BY <2>2 DEF EmitInv
  <2>4. Emitted(p, body', DOMAIN ir[p] \ todo')
    BY <2>1, <2>2, <2>3 DEF Emitted
  <2> QED
    BY <1>4, <2>1, <2>2, <2>3, <2>4
<1>8. CASE EmitModule
  <2> DEFINE p == loaded[next]
  <2>1. PICK m \in todo : /\ m \notin SkipModules(p) /\ ~Refused(p, m)
                         /\ todo' = todo \ {m} /\ body' = With(body, m, Items(p, m))
    BY <1>8 DEF EmitModule, Skipped
  <2>2. /\ phase = "emit" /\ phase' = "emit" /\ UNCHANGED <<ir, loaded, peers, crates, next>>
    BY <1>8 DEF EmitModule
  <2>3. next <= Len(loaded) /\ todo \subseteq DOMAIN ir[p] /\ Emitted(p, body, DOMAIN ir[p] \ todo)
    BY <2>2 DEF EmitInv
  <2>4. /\ DOMAIN body' = DOMAIN body \cup {m} /\ body'[m] = Items(p, m)
        /\ \A k \in DOMAIN body : k # m => body'[k] = body[k]
    BY <2>1 DEF With
  <2>5. Emitted(p, body', DOMAIN ir[p] \ todo')
    BY <2>1, <2>3, <2>4 DEF Emitted
  <2> QED
    BY <1>4, <2>1, <2>2, <2>3, <2>5
<1>9. CASE WriteMember
  <2> DEFINE p == loaded[next]
  <2>1. /\ phase = "emit" /\ phase' = "begin" /\ todo = {} /\ next' = next + 1
        /\ UNCHANGED <<ir, loaded, peers>>
        /\ crates' = With(crates, CrateOf[p], [deps |-> PeerDeps(p), mods |-> body])
    BY <1>9 DEF WriteMember
  <2>2. next \in 1 .. Len(loaded) /\ Emitted(p, body, DOMAIN ir[p])
    BY <1>1, <2>1 DEF EmitInv, LoadInv
  <2>3. /\ DOMAIN crates' = DOMAIN crates \cup {CrateOf[p]}
        /\ crates'[CrateOf[p]] = [deps |-> PeerDeps(p), mods |-> body]
        /\ \A c \in DOMAIN crates : c # CrateOf[p] => crates'[c] = crates[c]
    BY <2>1 DEF With
  <2>4. \A c \in DOMAIN crates' : \E i \in 1 .. Len(loaded) :
          i < next' /\ c = CrateOf[loaded[i]]
    BY <1>1, <2>1, <2>2, <2>3 DEF EmitInv
  <2>5. ASSUME NEW i \in 1 .. Len(loaded), i < next'
        PROVE  /\ CrateOf[loaded[i]] \in DOMAIN crates'
               /\ crates'[CrateOf[loaded[i]]].deps = PeerDeps(loaded[i])
               /\ Emitted(loaded[i], crates'[CrateOf[loaded[i]]].mods, DOMAIN ir[loaded[i]])
    <3>1. CASE i = next
      BY <2>2, <2>3, <3>1
    <3>2. CASE i < next
      <4>1. Whole(i)
        BY <2>1, <3>2 DEF EmitInv
      <4>2. CrateOf[loaded[i]] # CrateOf[p]
        BY <1>1, <2>2, <3>2 DEF LoadInv
      <4> QED
        BY <2>3, <4>1, <4>2
    <3> QED
      BY <1>1, <2>1, <2>5, <3>1, <3>2
  <2>6. ASSUME NEW i \in 1 .. Len(loaded), i < next'
        PROVE  Whole(i)'
    <3>1. PeerDeps(loaded[i])' = PeerDeps(loaded[i])
      BY <2>1 DEF PeerDeps, Foreign
    <3>2. Emitted(loaded[i], crates[CrateOf[loaded[i]]].mods, DOMAIN ir[loaded[i]])'
      BY <2>1, <2>5, <2>6, LoadStays
    <3> QED
      BY <2>1, <2>5, <2>6, <3>1, <3>2
  <2> QED
    BY <2>1, <2>4, <2>6 DEF EmitInv
<1>10. CASE UNCHANGED vars
  <2>1. CASE phase = "load"
    BY <1>10, <2>1 DEF vars, EmitInv
  <2>2. CASE phase # "load"
    BY <1>4, <1>10, <2>2 DEF vars, EmitInv
  <2> QED
    BY <2>1, <2>2
<1> QED
  BY <1>2, <1>3, <1>5, <1>6, <1>7, <1>8, <1>9, <1>10 DEF CodegenNext

(* In every behaviour the crates on disk are whole.                          *)
THEOREM CratesAreWhole == CodegenSpec => [](LoadInv /\ EmitInv)
<1>1. CodegenInit => LoadInv /\ EmitInv
  BY DEF CodegenInit, LoadInv, EmitInv, Members
<1>2. LoadInv /\ EmitInv /\ [CodegenNext]_vars => (LoadInv /\ EmitInv)'
  BY LoadStep, EmitStep
<1> QED
  BY <1>1, <1>2, PTL DEF CodegenSpec

-----------------------------------------------------------------------------
(* A crate on disk is that of one member, and what is in it is what the      *)
(* emitter made of the member's modules.                                     *)
LEMMA CrateOfMember ==
  ASSUME LoadInv, EmitInv, NEW c \in DOMAIN crates
  PROVE  \E p \in Members :
           /\ c = CrateOf[p] /\ p \in Packages /\ ir[p] \in Compiled[p]
           /\ PackageOf(c) = p
           /\ crates[c].deps = PeerDeps(p)
           /\ Emitted(p, crates[c].mods, DOMAIN ir[p])
<1>1. phase # "load"
  BY DEF EmitInv
<1>2. PICK i \in 1 .. Len(loaded) : i < next /\ c = CrateOf[loaded[i]]
  BY DEF EmitInv
<1>3. loaded[i] \in Members /\ loaded[i] \in Packages /\ ir[loaded[i]] \in Compiled[loaded[i]]
  BY ElementOfSeq DEF LoadInv, Members
<1>4. /\ crates[c].deps = PeerDeps(loaded[i])
      /\ Emitted(loaded[i], crates[c].mods, DOMAIN ir[loaded[i]])
  BY <1>1, <1>2 DEF EmitInv
<1>5. \A p \in Members : CrateOf[p] = c => p = loaded[i]
  BY <1>2 DEF Members, LoadInv
<1>6. PackageOf(c) = loaded[i]
  BY <1>2, <1>3, <1>5 DEF PackageOf
<1> QED
  BY <1>2, <1>3, <1>4, <1>6

(* Once the command is done every member has a crate.                        *)
LEMMA MemberHasCrate ==
  ASSUME LoadInv, EmitInv, phase = "done", NEW p \in Members
  PROVE  CrateOf[p] \in DOMAIN crates
<1>1. PICK i \in 1 .. Len(loaded) : p = loaded[i]
  BY DEF Members
<1>2. i < next
  BY LenProperties DEF EmitInv, LoadInv
<1> QED
  BY <1>1, <1>2 DEF EmitInv

(* What is being emitted are modules.                                        *)
ModulesInv == todo \subseteq ModName /\ DOMAIN body \subseteq ModName

(* Every step keeps that.                                                    *)
LEMMA ModulesStep ==
  ASSUME LoadInv, ModulesInv, [CodegenNext]_vars
  PROVE  ModulesInv'
<1>1. CASE BeginMember
  <2>1. next \in 1 .. Len(loaded)
    BY <1>1, LenProperties DEF BeginMember, LoadInv
  <2>2. loaded[next] \in Packages /\ loaded[next] \in Members
    BY <2>1, ElementOfSeq DEF LoadInv, Members
  <2>3. ir[loaded[next]] \in Compiled[loaded[next]]
    BY <2>2 DEF LoadInv
  <2>4. DOMAIN ir[loaded[next]] \subseteq ModName
    BY <2>2, <2>3, CodegenAssumption
  <2> QED
    BY <1>1, <2>4 DEF BeginMember, ModulesInv
<1>2. CASE EmitModule
  <2>1. PICK m \in todo : todo' = todo \ {m} /\ DOMAIN body' = DOMAIN body \cup {m}
    BY <1>2 DEF EmitModule, With
  <2> QED
    BY <2>1 DEF ModulesInv
<1>3. CASE SkipModule
  BY <1>3 DEF SkipModule, ModulesInv
<1>4. CASE UNCHANGED <<todo, body>>
  BY <1>4 DEF ModulesInv
<1> QED
  BY <1>1, <1>2, <1>3, <1>4 DEF CodegenNext, PassFramework, Load, Alias, Loaded, EmitFails,
                                WriteMember, Finish, vars

(* Whatever is compiled: every state of generate has the declared types,     *)
(* peers are members, and no crate holds a module that the runtime provides. *)
THEOREM CodegenTypes == CodegenSpec => []CodegenTypeOK
<1>1. CodegenInit => ModulesInv
  BY DEF CodegenInit, ModulesInv
<1>2. LoadInv /\ ModulesInv /\ [CodegenNext]_vars => ModulesInv'
  BY ModulesStep
<1>3. LoadInv /\ EmitInv /\ ModulesInv => CodegenTypeOK
  <2> SUFFICES ASSUME LoadInv, EmitInv, ModulesInv
               PROVE  CodegenTypeOK
    OBVIOUS
  <2>1. Members \subseteq Packages
    BY ElementOfSeq DEF LoadInv, Members
  <2>2. DOMAIN crates \subseteq {CrateOf[loaded[i]] : i \in 1 .. Len(loaded)}
    BY DEF EmitInv
  <2>3. ASSUME NEW p \in Members, CrateOf[p] \in DOMAIN crates
        PROVE  DOMAIN crates[CrateOf[p]].mods \subseteq DOMAIN ir[p] \ SkipModules(p)
    <3>1. PICK q \in Members : /\ CrateOf[p] = CrateOf[q]
                              /\ Emitted(q, crates[CrateOf[p]].mods, DOMAIN ir[q])
      BY <2>3, CrateOfMember
    <3>2. q = p
      BY <3>1 DEF LoadInv, Members
    <3> QED
      BY <3>1, <3>2 DEF Emitted
  <2>4. /\ phase \in {"load", "begin", "emit", "done", "failed"} /\ next \in Nat \ {0}
        /\ DOMAIN ir = Members /\ \A p \in Members : ir[p] \in Compiled[p]
        /\ \A a \in DOMAIN peers : \E p \in Members :
             peers[a] = CrateOf[p] /\ BindingsAddress(p, ir[p]) = a
    BY DEF LoadInv
  <2> QED
    BY <2>1, <2>2, <2>3, <2>4 DEF CodegenTypeOK, ModulesInv
<1> QED
  BY <1>1, <1>2, <1>3, CratesAreWhole, PTL DEF CodegenSpec

(* No two tag methods of a ModuleAt have one name.                           *)
THEOREM TagMethodsNeverClash == CodegenSpec => []TagMethodsDistinct
<1>1. LoadInv /\ EmitInv => TagMethodsDistinct
  <2> SUFFICES ASSUME LoadInv, EmitInv, NEW c \in DOMAIN crates,
                      NEW m \in DOMAIN crates[c].mods,
                      NEW n \in DOMAIN crates[c].mods[m].methods,
                      NEW k \in DOMAIN crates[c].mods[m].methods,
                      crates[c].mods[m].methods[n] = crates[c].mods[m].methods[k]
               PROVE  n = k
    BY DEF TagMethodsDistinct, AllItems
  <2>1. PICK p \in Members : /\ p \in Packages /\ ir[p] \in Compiled[p]
                            /\ Emitted(p, crates[c].mods, DOMAIN ir[p])
    BY CrateOfMember
  <2>2. m \in DOMAIN ir[p] /\ crates[c].mods[m] = Items(p, m)
    BY <2>1 DEF Emitted
  <2>3. crates[c].mods[m].methods = TagMethods(ir[p][m])
    BY <2>2 DEF Items
  <2>4. IsModule(ir[p][m])
    BY <2>1, <2>2, CodegenAssumption
  <2> QED
    BY <2>3, <2>4, TagsOfModule
<1> QED
  BY <1>1, CratesAreWhole, PTL

-----------------------------------------------------------------------------
(* The types in a member's crate are those its package declares in modules   *)
(* that are not skipped.                                                     *)
LEMMA TypeIsThere ==
  ASSUME LoadInv, EmitInv, NEW c \in DOMAIN crates, NEW d
  PROVE  Emittable(PackageOf(c), d) <=>
           /\ d.mod \in DOMAIN crates[c].mods
           /\ d.name \in DOMAIN crates[c].mods[d.mod].types
<1>1. PICK p \in Members : /\ PackageOf(c) = p
                          /\ Emitted(p, crates[c].mods, DOMAIN ir[p])
  BY CrateOfMember
<1>2. ASSUME d.mod \in DOMAIN crates[c].mods
      PROVE  /\ d.mod \in DOMAIN ir[p] /\ d.mod \notin SkipModules(p)
             /\ DOMAIN crates[c].mods[d.mod].types = DOMAIN ir[p][d.mod].types
  <2>1. crates[c].mods[d.mod] = Items(p, d.mod)
    BY <1>1, <1>2 DEF Emitted
  <2> QED
    BY <1>1, <1>2, <2>1 DEF Items, Emitted
<1>3. ASSUME Emittable(PackageOf(c), d)
      PROVE  d.mod \in DOMAIN crates[c].mods
  <2>1. /\ d.mod \in DOMAIN ir[p] /\ d.name \in DOMAIN ir[p][d.mod].types
        /\ d.mod \notin SkipModules(p)
    BY <1>1, <1>3 DEF Emittable
  <2>2. ~Empty(ir[p][d.mod])
    BY <2>1 DEF Empty
  <2> QED
    BY <1>1, <2>1, <2>2 DEF Emitted
<1> QED
  BY <1>1, <1>2, <1>3 DEF Emittable

(* When generate is done, each path goes to the crate of a package at the    *)
(* address of the datatype it stands for, through a dependency in Cargo.toml;*)
(* and it leads to the datatype if and only if that package declares it in a *)
(* module that is not skipped.                                               *)
THEOREM EveryPathResolves == CodegenSpec => []RefsResolve
<1>1. LoadInv /\ EmitInv => RefsResolve
  <2> SUFFICES ASSUME LoadInv, EmitInv, phase = "done", NEW c \in DOMAIN crates,
                      NEW m \in DOMAIN crates[c].mods,
                      NEW u \in crates[c].mods[m].uses, u.root # "prelude"
               PROVE  /\ u.means.at = BuiltAt[PackageOf(Reached(c, u))]
                      /\ Resolves(c, u) <=> Emittable(PackageOf(Reached(c, u)), u.means)
    BY DEF RefsResolve
  <2>1. PICK p \in Members : /\ p \in Packages /\ ir[p] \in Compiled[p]
                            /\ PackageOf(c) = p /\ crates[c].deps = PeerDeps(p)
                            /\ Emitted(p, crates[c].mods, DOMAIN ir[p])
    BY CrateOfMember
  <2>2. m \in DOMAIN ir[p] /\ crates[c].mods[m] = Items(p, m) /\ ~Refused(p, m)
    BY <2>1 DEF Emitted
  <2>3. PICK d \in TypeUses(ir[p][m]) \cup TraitUses(ir[p][m]) :
          /\ u.means = d /\ u.root = PathRoot(p, m, d)
          /\ PathRoot(p, m, d) = "peer" /\ d.at \in DOMAIN peers => u.crate = peers[d.at]
    BY <2>2 DEF Items, Uses, Use
  <2>4. ~Unroutable(p, m, d)
    BY <2>2 DEF Refused
  <2>5. CASE PathRoot(p, m, d) = "peer"
    <3>1. d.at \in DOMAIN peers /\ d.at # BuiltAt[p] /\ u.crate = peers[d.at]
      BY <2>3, <2>4, <2>5, RootIs DEF Unroutable
    <3>2. PICK q \in Members : peers[d.at] = CrateOf[q] /\ BindingsAddress(q, ir[q]) = d.at
      BY <3>1 DEF LoadInv
    <3>3. u.crate \in DOMAIN crates /\ Reached(c, u) = u.crate
      BY <2>3, <2>5, <3>1, <3>2, MemberHasCrate DEF Reached
    <3>4. PackageOf(u.crate) = q
      <4>1. PICK r \in Members : u.crate = CrateOf[r] /\ PackageOf(u.crate) = r
        BY <3>3, CrateOfMember
      <4> QED
        BY <3>1, <3>2, <4>1 DEF LoadInv, Members
    <3>5. BuiltAt[q] = d.at
      <4>1. q \in Packages /\ ir[q] \in Compiled[q]
        BY ElementOfSeq DEF LoadInv, Members
      <4>2. d.at # "0x0"
        BY <2>1, <2>2, UsedIsMentioned, MentionedIsSomewhere
      <4> QED
        BY <3>2, <4>1, <4>2 DEF BindingsAddress
    <3>6. u.crate \in crates[c].deps
      <4>1. d \in Mentioned(ir[p])
        BY <2>2, UsedIsMentioned
      <4>2. d.at \in Foreign(p)
        BY <3>1, <4>1 DEF Foreign
      <4> QED
        BY <2>1, <3>1, <4>2 DEF PeerDeps
    <3>7. Resolves(c, u) <=> Emittable(q, d)
      BY <2>3, <3>3, <3>4, <3>6, TypeIsThere DEF Resolves
    <3> QED
      BY <2>3, <3>3, <3>4, <3>5, <3>7
  <2>6. CASE PathRoot(p, m, d) # "peer"
    <3>1. d.at = BuiltAt[p] /\ Reached(c, u) = c
      BY <2>3, <2>6, RootIs DEF Reached
    <3>2. Resolves(c, u) <=> Emittable(p, d)
      BY <2>1, <2>3, <2>6, <3>1, TypeIsThere DEF Resolves
    <3> QED
      BY <2>1, <2>3, <3>1, <3>2
  <2> QED
    BY <2>5, <2>6
<1> QED
  BY <1>1, CratesAreWhole, PTL

-----------------------------------------------------------------------------
(* A set of packages that is closed: whatever one of them mentions of the    *)
(* address of another, that one declares in a module that is not skipped, or *)
(* the runtime has it.                                                       *)
Closed ==
  \A p, q \in Members : \A d \in Mentioned(ir[p]) :
    d.at = BuiltAt[q] => d \in WellKnown \/ Emittable(q, d)

PathsLead ==
  phase = "done" /\ Closed =>
    \A c \in DOMAIN crates : \A m \in DOMAIN crates[c].mods :
      \A u \in crates[c].mods[m].uses : u.root # "prelude" => Resolves(c, u)

(* Only packages at one address that differ and modules that are skipped     *)
(* leave paths that lead nowhere: where neither is met, every path of every  *)
(* crate leads to the datatype it stands for.                                *)
THEOREM ClosedResolves == CodegenSpec => []PathsLead
<1>1. LoadInv /\ EmitInv /\ RefsResolve => PathsLead
  <2> SUFFICES ASSUME LoadInv, EmitInv, RefsResolve, phase = "done", Closed,
                      NEW c \in DOMAIN crates, NEW m \in DOMAIN crates[c].mods,
                      NEW u \in crates[c].mods[m].uses, u.root # "prelude"
               PROVE  Resolves(c, u)
    BY DEF PathsLead
  <2>1. PICK p \in Members : /\ PackageOf(c) = p
                            /\ Emitted(p, crates[c].mods, DOMAIN ir[p])
    BY CrateOfMember
  <2>2. m \in DOMAIN ir[p] /\ crates[c].mods[m] = Items(p, m) /\ ~Refused(p, m)
    BY <2>1 DEF Emitted
  <2>3. PICK d \in TypeUses(ir[p][m]) \cup TraitUses(ir[p][m]) :
          /\ u.means = d /\ u.root = PathRoot(p, m, d)
          /\ PathRoot(p, m, d) = "peer" /\ d.at \in DOMAIN peers => u.crate = peers[d.at]
    BY <2>2 DEF Items, Uses, Use
  <2>4. d \in Mentioned(ir[p]) /\ d \notin WellKnown
    BY <2>2, <2>3, UsedIsMentioned, RootIs DEF PathRoot
  <2>5. PackageOf(Reached(c, u)) \in Members
    <3>1. CASE PathRoot(p, m, d) = "peer"
      <4>1. d.at \in DOMAIN peers /\ u.crate = peers[d.at] /\ Reached(c, u) = u.crate
        BY <2>2, <2>3, <3>1 DEF Refused, Unroutable, Reached
      <4>2. PICK q \in Members : peers[d.at] = CrateOf[q]
        BY <4>1 DEF LoadInv
      <4>3. u.crate \in DOMAIN crates
        BY <4>1, <4>2, MemberHasCrate
      <4> QED
        BY <4>1, <4>3, CrateOfMember
    <3>2. CASE PathRoot(p, m, d) # "peer"
      BY <2>1, <2>3, <3>2 DEF Reached
    <3> QED
      BY <3>1, <3>2
  <2> QED
    BY <2>1, <2>3, <2>4, <2>5 DEF RefsResolve, Closed
<1> QED
  BY <1>1, CratesAreWhole, EveryPathResolves, PTL
=============================================================================
