------------------------------ MODULE TopoSort ------------------------------
(***************************************************************************)
(* The order in which a generated `deploy_all` publishes the packages of a *)
(* workspace (crates/move-bindgen/src/workspace_deploy.rs: build,          *)
(* member_from_bindings, topo_sort, visit).                                *)
(*                                                                         *)
(* A depth-first search over the members, keyed by address name.  The      *)
(* recursion of `visit` is the variable stack; the input of one generate,  *)
(* the dependency labels and the module counts, is picked in TopoInit and  *)
(* never changes.                                                          *)
(***************************************************************************)
EXTENDS Naturals, Sequences

(* An operator marked "mutant" is the next unmarked one with a plausible     *)
(* slip in it; nothing uses it but the mutation tests.                       *)

CONSTANTS
  Member,      \* the crates of the workspace
  MemberOrder, \* the order they were generated in
  AddrName,    \* names of addresses
  NameOf,      \* NameOf[m]: the address_name recorded for m, or Nil
  Nil

(* A label is the name of an address other than the package's own, which a   *)
(* publish build pins to zero.                                               *)
ASSUME MembersAssumption ==
  /\ MemberOrder \in Seq(Member)
  /\ \A m \in Member : \E i \in 1..Len(MemberOrder) : MemberOrder[i] = m
  /\ \A i, j \in 1..Len(MemberOrder) : MemberOrder[i] = MemberOrder[j] => i = j
  /\ NameOf \in [Member -> AddrName \cup {Nil}]
  /\ Nil \notin AddrName

VARIABLES
  labels,   \* labels[m]: the direct_deps of m
  modules,  \* modules[m]: its module_count
  spc,      \* "sort", then "sorted", "cycle" or "none"
  next,     \* the member the loop of topo_sort has come to
  stack,    \* the calls of visit under way, innermost first
  visited,  \* address name |-> "InProgress" or "Done"
  order     \* the members sorted so far

input == <<labels, modules>>
topoVars == <<input, spc, next, stack, visited, order>>

Frame == [node : Member, left : SUBSET AddrName]

Deployable(m) == NameOf[m] # Nil /\ modules[m] > 0

(* by_name is collected from the members in order: a later one replaces an   *)
(* earlier one of the same name.                                             *)
Named(n) == {i \in 1..Len(MemberOrder) :
               /\ Deployable(MemberOrder[i])
               /\ NameOf[MemberOrder[i]] = n}
ByName(n) == MemberOrder[CHOOSE i \in Named(n) : \A j \in Named(n) : j <= i]

TopoInit ==
  /\ labels \in [Member -> SUBSET AddrName]
  /\ \A m \in Member : NameOf[m] \notin labels[m]
  /\ modules \in [Member -> 0..1]
  /\ spc = "sort"
  /\ next = 1
  /\ stack = << >>
  /\ visited = << >>
  /\ order = << >>

NothingToDeploy ==
  /\ spc = "sort" /\ ~\E m \in Member : Deployable(m)
  /\ spc' = "none"
  /\ UNCHANGED <<input, next, stack, visited, order>>

-----------------------------------------------------------------------------
Call(m) == <<[node |-> m, left |-> labels[m]]>>
Mark(m, state) ==
  [n \in DOMAIN visited \cup {NameOf[m]} |->
     IF n = NameOf[m] THEN state ELSE visited[n]]

Root == MemberOrder[next]
Unfinished == stack = << >> /\ next <= Len(MemberOrder)

PassForever ==  \* mutant
  /\ spc = "sort" /\ Unfinished /\ \E m \in Member : Deployable(m)
  /\ Deployable(Root) => NameOf[Root] \in DOMAIN visited
  /\ UNCHANGED topoVars

(* Filtered out before the sort, or reached as a dependency already.         *)
Pass ==
  /\ spc = "sort" /\ Unfinished /\ \E m \in Member : Deployable(m)
  /\ Deployable(Root) => NameOf[Root] \in DOMAIN visited
  /\ next' = next + 1
  /\ UNCHANGED <<input, spc, stack, visited, order>>

VisitRoot ==
  /\ spc = "sort" /\ Unfinished
  /\ Deployable(Root) /\ NameOf[Root] \notin DOMAIN visited
  /\ stack' = Call(Root)
  /\ visited' = Mark(Root, "InProgress")
  /\ next' = next + 1
  /\ UNCHANGED <<input, spc, order>>

Top == Head(stack)
Seen(n) == Named(n) = {} \/ n \in DOMAIN visited  \* mutant
Done(n) == Named(n) = {} \/ (n \in DOMAIN visited /\ visited[n] = "Done")

(* The labels of a frame are taken in alphabetical order; the model takes    *)
(* them in any.                                                              *)
Rest(n) ==
  <<[Top EXCEPT !.left = @ \ {n}]>> \o Tail(stack)

(* A label of no member (a framework, a filtered member), or one done.       *)
SkipDep ==
  /\ spc = "sort" /\ stack # << >>
  /\ \E n \in Top.left : Done(n) /\ stack' = Rest(n)
  /\ UNCHANGED <<input, spc, next, visited, order>>

VisitDep ==
  /\ spc = "sort" /\ stack # << >>
  /\ \E n \in Top.left :
       /\ Named(n) # {} /\ n \notin DOMAIN visited
       /\ stack' = Call(ByName(n)) \o Rest(n)
       /\ visited' = Mark(ByName(n), "InProgress")
  /\ UNCHANGED <<input, spc, next, order>>

Cycle ==
  /\ spc = "sort" /\ stack # << >>
  /\ \E n \in Top.left :
       Named(n) # {} /\ n \in DOMAIN visited /\ visited[n] = "InProgress"
  /\ spc' = "cycle"
  /\ UNCHANGED <<input, next, stack, visited, order>>

ReturnEarly ==  \* mutant
  /\ spc = "sort" /\ stack # << >>
  /\ visited' = Mark(Top.node, "Done")
  /\ order' = Append(order, Top.node)
  /\ stack' = Tail(stack)
  /\ UNCHANGED <<input, spc, next>>

Return ==
  /\ spc = "sort" /\ stack # << >> /\ Top.left = {}
  /\ visited' = Mark(Top.node, "Done")
  /\ order' = Append(order, Top.node)
  /\ stack' = Tail(stack)
  /\ UNCHANGED <<input, spc, next>>

Sorted ==
  /\ spc = "sort" /\ stack = << >> /\ next > Len(MemberOrder)
  /\ \E m \in Member : Deployable(m)
  /\ spc' = "sorted"
  /\ UNCHANGED <<input, next, stack, visited, order>>

TopoNext ==
  \/ NothingToDeploy \/ Pass \/ VisitRoot \/ SkipDep \/ VisitDep \/ Cycle
  \/ Return \/ Sorted

TopoSpec == TopoInit /\ [][TopoNext]_topoVars /\ WF_topoVars(TopoNext)

-----------------------------------------------------------------------------
(* Properties *)

(* The types of the variables.                                               *)
TopoTypeOK ==
  /\ labels \in [Member -> SUBSET AddrName]
  /\ modules \in [Member -> Nat]
  /\ spc \in {"sort", "sorted", "cycle", "none"}
  /\ next \in Nat
  /\ stack \in Seq(Frame)
  /\ DOMAIN visited \subseteq AddrName
  /\ visited \in [DOMAIN visited -> {"InProgress", "Done"}]
  /\ order \in Seq(Member)

(* Whatever has been put into the order comes after every member it depends  *)
(* on, directly or not (visit pushes a node after its dependencies), and is  *)
(* there once; and the sort loses no address name and takes in no member     *)
(* that was filtered out.                                                    *)
DependenciesFirst ==
  /\ \A i, j \in 1..Len(order) : order[i] = order[j] => i = j
  /\ \A i \in 1..Len(order) : \A n \in labels[order[i]] :
       Named(n) # {} => \E j \in 1..(i - 1) : NameOf[order[j]] = n
  /\ spc = "sorted" =>
       {NameOf[order[i]] : i \in 1..Len(order)} =
         {NameOf[m] : m \in {k \in Member : Deployable(k)}}

(* A cycle: a set of names each of which has a label in the set.             *)
HasCycle ==
  \E names \in SUBSET {n \in AddrName : Named(n) # {}} :
    names # {} /\ \A n \in names : labels[ByName(n)] \cap names # {}

(* "cycle in workspace dep graph" is reported exactly for the inputs that    *)
(* have one.                                                                 *)
CycleReported ==
  /\ spc = "cycle" => HasCycle
  /\ spc = "sorted" => ~HasCycle

(* The search ends on every input.                                           *)
SortEnds == <>(spc # "sort")
=============================================================================
