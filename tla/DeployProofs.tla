---------------------------- MODULE DeployProofs ----------------------------
(***************************************************************************)
(* Theorems about TopoSort and DeployAll, for every workspace: its         *)
(* members, their names, labels and module counts, two members of one name *)
(* included, every set of pinned labels, and any number of runs and        *)
(* faults.  The second part, on deploy_all, rests on the first, which      *)
(* shows that the order is good.                                           *)
(***************************************************************************)
EXTENDS DeployAll, WellFoundedInduction, TLAPS

(* A set of positions that is not empty has a last one and a first one.      *)
LEMMA LastAndFirst ==
  ASSUME NEW N \in Nat, NEW S \in SUBSET (1..N), S # {}
  PROVE  /\ \E i \in S : \A j \in S : j <= i
         /\ \E i \in S : \A j \in S : i <= j
<1>1. S \subseteq Nat
  OBVIOUS
<1>2. \E i \in S : \A j \in S : i <= j
  <2>1. PICK m \in S : \A k \in S : <<k, m>> \notin OpToRel(<, Nat)
    BY <1>1, WFMin, NatLessThanWellFounded, Zenon
  <2>2. \A k \in S : ~(k < m)
    BY <1>1, <2>1, Zenon DEF OpToRel
  <2> QED
    BY <2>2
<1>3. \E i \in S : \A j \in S : j <= i
  <2> DEFINE T == {k \in Nat : N - k \in S}
  <2>1. T \subseteq Nat /\ \A j \in S : N - j \in T
    OBVIOUS
  <2>2. T # {}
    BY <2>1
  <2>3. PICK m \in T : \A k \in T : <<k, m>> \notin OpToRel(<, Nat)
    <3> HIDE DEF T
    <3> QED
      BY <2>1, <2>2, WFMin, NatLessThanWellFounded, Zenon
  <2>4. \A k \in T : ~(k < m)
    BY <2>1, <2>3, Zenon DEF OpToRel
  <2>5. N - m \in S
    OBVIOUS
  <2>6. \A j \in S : j <= N - m
    BY <2>1, <2>4
  <2> QED
    BY <2>5, <2>6
<1> QED
  BY <1>2, <1>3

(* by_name finds a member that can be deployed, of the name looked up.       *)
LEMMA NameFound ==
  ASSUME NEW n, Named(n) # {}
  PROVE  /\ ByName(n) \in Member /\ Deployable(ByName(n))
         /\ NameOf[ByName(n)] = n
<1> DEFINE i == CHOOSE i \in Named(n) : \A j \in Named(n) : j <= i
<1>1. Named(n) \subseteq 1..Len(MemberOrder) /\ Len(MemberOrder) \in Nat
  BY MembersAssumption DEF Named
<1>2. \E k \in Named(n) : \A j \in Named(n) : j <= k
  BY <1>1, LastAndFirst
<1>3. i \in Named(n)
  BY <1>2
<1>4. ByName(n) = MemberOrder[i]
  BY DEF ByName
<1> QED
  BY <1>1, <1>3, <1>4, MembersAssumption DEF Named

(* A member that can be deployed is found under its name.                    *)
LEMMA NameListed ==
  ASSUME NEW m \in Member, Deployable(m)
  PROVE  NameOf[m] \in AddrName /\ Named(NameOf[m]) # {}
BY MembersAssumption DEF Named, Deployable

-----------------------------------------------------------------------------
NodeName(k) == NameOf[stack[k].node]

(* The calls under way: distinct names in progress, of which a label that    *)
(* was taken is done, or is what the call one further in is for.             *)
FrameOk(k) ==
  /\ Deployable(stack[k].node)
  /\ NodeName(k) \in DOMAIN visited /\ visited[NodeName(k)] = "InProgress"
  /\ stack[k].left \subseteq labels[stack[k].node]
  /\ \A n \in labels[stack[k].node] \ stack[k].left :
       Done(n) \/ (k > 1 /\ n = NodeName(k - 1))
  /\ k > 1 => NodeName(k - 1) \in labels[stack[k].node]
  /\ \A j \in 1..Len(stack) : NodeName(j) = NodeName(k) => j = k

Frames == \A k \in 1..Len(stack) : FrameOk(k)

(* What has been visited is on the stack or in the order.                    *)
Marks ==
  \A n \in DOMAIN visited :
    /\ visited[n] = "InProgress" =>
         \E k \in 1..Len(stack) : NodeName(k) = n
    /\ visited[n] = "Done" =>
         \E j \in 1..Len(order) : NameOf[order[j]] = n

(* The order holds distinct names that are done, each after its labels.      *)
Order ==
  \A i \in 1..Len(order) :
    /\ Deployable(order[i])
    /\ NameOf[order[i]] \in DOMAIN visited /\ visited[NameOf[order[i]]] = "Done"
    /\ \A j \in 1..Len(order) : NameOf[order[i]] = NameOf[order[j]] => i = j
    /\ \A n \in labels[order[i]] :
         Named(n) # {} => \E j \in 1..(i - 1) : NameOf[order[j]] = n

(* The loop of topo_sort leaves nothing behind, and ends with nothing under  *)
(* way.                                                                      *)
Loop ==
  /\ next # 0
  /\ \A i \in 1..Len(MemberOrder) :
       i < next /\ Deployable(MemberOrder[i]) =>
         NameOf[MemberOrder[i]] \in DOMAIN visited
  /\ spc = "sorted" => stack = << >> /\ next > Len(MemberOrder)

TopoInv == TopoTypeOK /\ Frames /\ Marks /\ Order /\ Loop

(* A step of the sort does not change what it sorts.                         *)
LEMMA SameInput ==
  ASSUME UNCHANGED input
  PROVE  /\ labels' = labels /\ modules' = modules
         /\ \A m : Deployable(m)' <=> Deployable(m)
         /\ \A n : Named(n)' = Named(n)
         /\ \A n : ByName(n)' = ByName(n)
BY DEF input, Deployable, Named, ByName

(* What marking a member does to the marks of all names.                     *)
LEMMA Marked ==
  ASSUME NEW m \in Member, NEW state
  PROVE  /\ DOMAIN Mark(m, state) = DOMAIN visited \cup {NameOf[m]}
         /\ Mark(m, state)[NameOf[m]] = state
         /\ \A n \in DOMAIN visited : n # NameOf[m] => Mark(m, state)[n] = visited[n]
BY DEF Mark

(* The invariant holds before the first call of visit.                       *)
LEMMA TopoStarts == TopoInit => TopoInv
<1> SUFFICES ASSUME TopoInit PROVE TopoInv
  OBVIOUS
<1>1. Len(stack) = 0 /\ Len(order) = 0 /\ DOMAIN visited = {}
  BY DEF TopoInit
<1>2. TopoTypeOK
  BY <1>1 DEF TopoInit, TopoTypeOK
<1> QED
  BY <1>1, <1>2 DEF TopoInit, TopoInv, Frames, Marks, Order, Loop

(* Taking a label from the innermost call.                                   *)
LEMMA Taken ==
  ASSUME stack \in Seq(Frame), stack # << >>, NEW n
  PROVE  /\ Rest(n) \in Seq(Frame) /\ Len(Rest(n)) = Len(stack)
         /\ Rest(n)[1].node = stack[1].node
         /\ Rest(n)[1].left = stack[1].left \ {n}
         /\ \A k \in 2..Len(stack) : Rest(n)[k] = stack[k]
<1>1. stack[1] \in Frame /\ Top = stack[1] /\ Len(stack) \in Nat \ {0}
  BY DEF Top
<1>2. [Top EXCEPT !.left = @ \ {n}] \in Frame
  BY <1>1 DEF Frame
<1>3. /\ [Top EXCEPT !.left = @ \ {n}].node = stack[1].node
      /\ [Top EXCEPT !.left = @ \ {n}].left = stack[1].left \ {n}
  BY <1>1 DEF Frame
<1>4. Tail(stack) \in Seq(Frame) /\ Len(Tail(stack)) = Len(stack) - 1
      /\ \A k \in 2..Len(stack) : Tail(stack)[k - 1] = stack[k]
  BY <1>1
<1> HIDE DEF Frame
<1> DEFINE f == [Top EXCEPT !.left = @ \ {n}]
<1>5. Rest(n) = <<f>> \o Tail(stack)
  BY DEF Rest
<1> HIDE DEF f
<1>6. <<f>> \in Seq(Frame) /\ Len(<<f>>) = 1 /\ <<f>>[1] = f
  BY <1>2 DEF f
<1> DEFINE t == Tail(stack)
<1>7. t \in Seq(Frame) /\ Len(t) = Len(stack) - 1
      /\ \A k \in 2..Len(stack) : t[k - 1] = stack[k]
  BY <1>4
<1>8. Rest(n) = <<f>> \o t
  BY <1>5
<1> HIDE DEF t
<1>9. /\ Rest(n) \in Seq(Frame) /\ Len(Rest(n)) = Len(stack)
      /\ Rest(n)[1] = f
  BY <1>1, <1>6, <1>7, <1>8
<1>10. \A k \in 2..Len(stack) : Rest(n)[k] = t[k - 1]
  BY <1>1, <1>6, <1>7, <1>8
<1> QED
  BY <1>3, <1>7, <1>9, <1>10 DEF f

(* Calling visit on a member.                                                *)
LEMMA Called ==
  ASSUME NEW r \in Seq(Frame), NEW m \in Member,
         labels \in [Member -> SUBSET AddrName]
  PROVE  /\ Call(m) \o r \in Seq(Frame) /\ Len(Call(m) \o r) = Len(r) + 1
         /\ (Call(m) \o r)[1].node = m /\ (Call(m) \o r)[1].left = labels[m]
         /\ \A k \in 2..Len(r) + 1 : (Call(m) \o r)[k] = r[k - 1]
<1> DEFINE f == [node |-> m, left |-> labels[m]]
<1>1. f \in Frame /\ f.node = m /\ f.left = labels[m]
  BY DEF Frame
<1>2. Call(m) = <<f>>
  BY DEF Call
<1> HIDE DEF f
<1> QED
  BY <1>1, <1>2

(* A name that is done stays so.                                             *)
LEMMA DoneStays ==
  ASSUME UNCHANGED input, NEW m \in Member, NEW state,
         visited' = Mark(m, state), NameOf[m] \in DOMAIN visited => state = "Done",
         NEW n, Done(n)
  PROVE  Done(n)'
<1>1. Named(n)' = Named(n)
  BY SameInput
<1>2. CASE Named(n) = {}
  BY <1>1, <1>2 DEF Done
<1>3. CASE n \in DOMAIN visited /\ visited[n] = "Done"
  <2>1. n \in DOMAIN visited'
    BY <1>3, Marked
  <2>2. visited'[n] = "Done"
    BY <1>3 DEF Mark
  <2> QED
    BY <2>1, <2>2 DEF Done
<1> QED
  BY <1>2, <1>3 DEF Done

(* Going into a call: its name was not visited.                              *)
LEMMA Enters ==
  ASSUME TopoInv, UNCHANGED input, UNCHANGED <<order>>,
         NEW m \in Member, Deployable(m), NameOf[m] \notin DOMAIN visited,
         visited' = Mark(m, "InProgress")
  PROVE  /\ \A n \in DOMAIN visited : n \in DOMAIN visited' /\ visited'[n] = visited[n]
         /\ visited' \in [DOMAIN visited' -> {"InProgress", "Done"}]
         /\ DOMAIN visited' = DOMAIN visited \cup {NameOf[m]}
         /\ visited'[NameOf[m]] = "InProgress"
         /\ DOMAIN visited' \subseteq AddrName
         /\ \A n : Done(n) => Done(n)'
         /\ Order'
<1>1. \A n \in DOMAIN visited : n \in DOMAIN visited' /\ visited'[n] = visited[n]
  BY DEF Mark
<1>2. DOMAIN visited' = DOMAIN visited \cup {NameOf[m]} /\ visited'[NameOf[m]] = "InProgress"
  BY Marked
<1>3. \A n : Done(n) => Done(n)'
  BY DoneStays
<1>4. Order'
  BY <1>1, SameInput DEF TopoInv, Order
<1>5. visited \in [DOMAIN visited -> {"InProgress", "Done"}]
  BY DEF TopoInv, TopoTypeOK
<1>6. visited' \in [DOMAIN visited' -> {"InProgress", "Done"}]
  BY <1>5 DEF Mark
<1> QED
  BY <1>1, <1>2, <1>3, <1>4, <1>6, NameListed DEF TopoInv, TopoTypeOK

(* Every step of the sort keeps the invariant.                               *)
LEMMA TopoStep == TopoInv /\ [TopoNext]_topoVars => TopoInv'
<1> SUFFICES ASSUME TopoInv, [TopoNext]_topoVars PROVE TopoInv'
  OBVIOUS
<1>1. UNCHANGED input
  BY DEF TopoNext, topoVars, NothingToDeploy, Pass, VisitRoot, SkipDep, VisitDep,
         Cycle, Return, Sorted
<1>2. UNCHANGED <<labels, modules>>
  BY <1>1 DEF input
<1>3. CASE NothingToDeploy \/ Cycle \/ Sorted \/ UNCHANGED topoVars
  <2>1. UNCHANGED <<stack, visited, order, next>>
    BY <1>3 DEF NothingToDeploy, Cycle, Sorted, topoVars
  <2>2. TopoTypeOK'
    BY <1>3, <2>1, <1>2 DEF NothingToDeploy, Cycle, Sorted, topoVars, TopoInv, TopoTypeOK
  <2>3. \A n : Done(n)' <=> Done(n)
    BY <2>1, <1>1, SameInput DEF Done
  <2>4. Frames'
    BY <2>1, <2>3, <1>1, SameInput DEF TopoInv, Frames, FrameOk, NodeName
  <2>5. Marks'
    BY <2>1, <1>1, SameInput DEF TopoInv, Marks, NodeName
  <2>6. Order'
    BY <2>1, <1>1, SameInput DEF TopoInv, Order
  <2>7. Loop'
    BY <1>3, <2>1, <1>1, SameInput DEF NothingToDeploy, Cycle, Sorted, topoVars, TopoInv, Loop
  <2> QED
    BY <2>2, <2>4, <2>5, <2>6, <2>7 DEF TopoInv
<1>4. CASE Pass
  <2>1. UNCHANGED <<stack, visited, order, spc>> /\ next' = next + 1 /\ spc = "sort"
    BY <1>4 DEF Pass
  <2>2. TopoTypeOK'
    BY <2>1, <1>2 DEF TopoInv, TopoTypeOK
  <2>3. \A n : Done(n)' <=> Done(n)
    BY <2>1, <1>1, SameInput DEF Done
  <2>4. Frames'
    BY <2>1, <2>3, <1>1, SameInput DEF TopoInv, Frames, FrameOk, NodeName
  <2>5. Marks'
    BY <2>1, <1>1, SameInput DEF TopoInv, Marks, NodeName
  <2>6. Order'
    BY <2>1, <1>1, SameInput DEF TopoInv, Order
  <2>7. Loop'
    <3>1. next \in Nat
      BY DEF TopoInv, TopoTypeOK
    <3>2. Deployable(MemberOrder[next]) => NameOf[MemberOrder[next]] \in DOMAIN visited
      BY <1>4 DEF Pass, Root
    <3>3. Len(MemberOrder) \in Nat
      BY MembersAssumption
    <3> QED
      BY <2>1, <3>1, <3>2, <3>3, <1>1, SameInput DEF TopoInv, Loop
  <2> QED
    BY <2>2, <2>4, <2>5, <2>6, <2>7 DEF TopoInv
<1>5. CASE VisitRoot
  <2>1. /\ UNCHANGED <<order, spc>> /\ next' = next + 1 /\ spc = "sort"
        /\ stack = << >> /\ stack' = Call(Root) /\ visited' = Mark(Root, "InProgress")
        /\ NameOf[Root] \notin DOMAIN visited /\ Deployable(Root)
        /\ next <= Len(MemberOrder)
    BY <1>5 DEF VisitRoot, Unfinished
  <2>2. Root \in Member /\ next \in Nat \ {0}
    BY <2>1, MembersAssumption DEF Root, TopoInv, TopoTypeOK, Loop
  <2>3. /\ \A n \in DOMAIN visited : n \in DOMAIN visited' /\ visited'[n] = visited[n]
        /\ visited' \in [DOMAIN visited' -> {"InProgress", "Done"}]
        /\ DOMAIN visited' = DOMAIN visited \cup {NameOf[Root]}
        /\ visited'[NameOf[Root]] = "InProgress"
        /\ DOMAIN visited' \subseteq AddrName
        /\ Order'
    BY <2>1, <2>2, <1>1, Enters
  <2>4. stack' = <<[node |-> Root, left |-> labels[Root]]>> /\ Len(stack') = 1
    BY <2>1 DEF Call
  <2>5. stack'[1].node = Root /\ stack'[1].left = labels[Root] /\ stack' \in Seq(Frame)
    BY <2>2, <2>4 DEF Frame, TopoInv, TopoTypeOK
  <2>6. TopoTypeOK'
    BY <2>1, <2>2, <2>3, <2>5, <1>2 DEF TopoInv, TopoTypeOK
  <2>7. Frames'
    <3>1. \A k \in 1..Len(stack') : k = 1
      BY <2>4
    <3>2. NodeName(1)' = NameOf[Root] /\ Deployable(stack[1].node)'
      BY <2>1, <2>5, <1>1, SameInput DEF NodeName
    <3>3. FrameOk(1)'
      BY <2>3, <2>5, <3>1, <3>2, <1>2 DEF FrameOk
    <3> QED
      BY <3>1, <3>3 DEF Frames
  <2>8. Marks'
    <3>1. \A n \in DOMAIN visited : visited[n] = "Done"
      BY <2>1 DEF TopoInv, Marks, TopoTypeOK
    <3> QED
      BY <2>1, <2>3, <2>4, <2>5, <3>1 DEF TopoInv, Marks, NodeName
  <2>9. Loop'
    <3>1. Len(MemberOrder) \in Nat
      BY MembersAssumption
    <3> QED
      BY <2>1, <2>2, <2>3, <3>1, <1>1, SameInput DEF TopoInv, Loop, Root
  <2> QED
    BY <2>3, <2>6, <2>7, <2>8, <2>9 DEF TopoInv
<1>6. CASE SkipDep
  <2>1. PICK n \in Top.left : Done(n) /\ stack' = Rest(n)
    BY <1>6 DEF SkipDep
  <2>2. UNCHANGED <<spc, next, visited, order>> /\ stack # << >> /\ stack \in Seq(Frame)
    BY <1>6 DEF SkipDep, TopoInv, TopoTypeOK
  <2>3. /\ stack' \in Seq(Frame) /\ Len(stack') = Len(stack)
        /\ stack'[1].node = stack[1].node
        /\ stack'[1].left = stack[1].left \ {n}
        /\ \A k \in 2..Len(stack) : stack'[k] = stack[k]
    BY <2>1, <2>2, Taken
  <2>4. \A k \in 1..Len(stack) : NodeName(k)' = NodeName(k) /\ stack'[k].node = stack[k].node
    BY <2>3 DEF NodeName
  <2>5. TopoTypeOK'
    BY <2>2, <2>3, <1>2 DEF TopoInv, TopoTypeOK
  <2>6. \A d : Done(d)' <=> Done(d)
    BY <2>2, <1>1, SameInput DEF Done
  <2>7. Frames'
    <3> SUFFICES ASSUME NEW k \in 1..Len(stack) PROVE FrameOk(k)'
      BY <2>3 DEF Frames
    <3>1. FrameOk(k)
      BY DEF TopoInv, Frames
    <3>2. k > 1 => NodeName(k - 1)' = NodeName(k - 1)
      BY <2>2, <2>4
    <3>3. \A d \in labels[stack[k].node] \ stack'[k].left :
             Done(d)' \/ (k > 1 /\ d = NodeName(k - 1)')
      <4>1. CASE k = 1
        BY <2>1, <2>3, <2>6, <3>1, <4>1 DEF FrameOk
      <4>2. CASE k > 1
        BY <2>2, <2>3, <2>6, <3>1, <3>2, <4>2 DEF FrameOk
      <4> QED
        BY <4>1, <4>2
    <3>4. stack'[k].left \subseteq labels[stack[k].node]
      <4>1. CASE k = 1
        BY <2>3, <3>1, <4>1 DEF FrameOk
      <4>2. CASE k > 1
        BY <2>2, <2>3, <3>1, <4>2 DEF FrameOk
      <4> QED
        BY <4>1, <4>2
    <3>5. Deployable(stack[k].node)' /\ labels'[stack'[k].node] = labels[stack[k].node]
      BY <2>4, <3>1, <1>1, <1>2, SameInput DEF FrameOk
    <3> QED
      BY <2>2, <2>3, <2>4, <3>1, <3>2, <3>3, <3>4, <3>5 DEF FrameOk
  <2>8. Marks'
    BY <2>2, <2>3, <2>4 DEF TopoInv, Marks
  <2>9. Order' /\ Loop'
    BY <1>6, <2>2, <1>1, SameInput DEF TopoInv, Order, Loop, SkipDep
  <2> QED
    BY <2>5, <2>7, <2>8, <2>9 DEF TopoInv
<1>7. CASE VisitDep
  <2>1. PICK n \in Top.left :
          /\ Named(n) # {} /\ n \notin DOMAIN visited
          /\ stack' = Call(ByName(n)) \o Rest(n)
          /\ visited' = Mark(ByName(n), "InProgress")
    BY <1>7 DEF VisitDep
  <2>2. /\ UNCHANGED <<spc, next, order>> /\ stack # << >> /\ stack \in Seq(Frame)
        /\ labels \in [Member -> SUBSET AddrName] /\ Len(stack) \in Nat \ {0}
    BY <1>7 DEF VisitDep, TopoInv, TopoTypeOK
  <2>3. PICK m \in Member : m = ByName(n) /\ Deployable(m) /\ NameOf[m] = n
    BY <2>1, NameFound
  <2>4. /\ Rest(n) \in Seq(Frame) /\ Len(Rest(n)) = Len(stack)
        /\ Rest(n)[1].node = stack[1].node
        /\ Rest(n)[1].left = stack[1].left \ {n}
        /\ \A k \in 2..Len(stack) : Rest(n)[k] = stack[k]
    BY <2>2, Taken
  <2>5. /\ stack' \in Seq(Frame) /\ Len(stack') = Len(stack) + 1
        /\ stack'[1].node = m /\ stack'[1].left = labels[m]
        /\ \A k \in 2..Len(stack) + 1 : stack'[k] = Rest(n)[k - 1]
    BY <2>1, <2>2, <2>3, <2>4, Called
  <2>6. /\ \A d \in DOMAIN visited : d \in DOMAIN visited' /\ visited'[d] = visited[d]
        /\ visited' \in [DOMAIN visited' -> {"InProgress", "Done"}]
        /\ DOMAIN visited' = DOMAIN visited \cup {n}
        /\ visited'[n] = "InProgress"
        /\ DOMAIN visited' \subseteq AddrName
        /\ \A d : Done(d) => Done(d)'
        /\ Order'
    BY <2>1, <2>2, <2>3, <1>1, Enters
  <2>7. NodeName(1)' = n
    BY <2>3, <2>5 DEF NodeName
  <2>8. ASSUME NEW k \in 1..Len(stack) PROVE stack'[k + 1].node = stack[k].node
    <3>1. stack'[k + 1] = Rest(n)[k]
      BY <2>2, <2>5
    <3>2. CASE k = 1
      BY <2>4, <3>1, <3>2
    <3>3. CASE k > 1
      BY <2>2, <2>4, <3>1, <3>3
    <3> QED
      BY <3>2, <3>3
  <2>9. \A k \in 1..Len(stack) : NodeName(k + 1)' = NodeName(k)
    BY <2>8 DEF NodeName
  <2>10. TopoTypeOK'
    BY <2>2, <2>5, <2>6, <1>2 DEF TopoInv, TopoTypeOK
  <2>11. FrameOk(1)'
    <3>1. \A k \in 1..Len(stack) : NodeName(k) # n
      BY <2>1 DEF TopoInv, Frames, FrameOk
    <3>2. \A j \in 1..Len(stack') : NodeName(j)' = n => j = 1
      <4> SUFFICES ASSUME NEW j \in 1..Len(stack'), j # 1 PROVE NodeName(j)' # n
        OBVIOUS
      <4>1. j - 1 \in 1..Len(stack) /\ (j - 1) + 1 = j
        BY <2>2, <2>5
      <4> QED
        BY <4>1, <3>1, <2>9
    <3>3. Deployable(stack[1].node)'
      BY <2>3, <2>5, <1>1, SameInput
    <3> QED
      BY <2>5, <2>6, <2>7, <3>2, <3>3, <1>2 DEF FrameOk
  <2>12. ASSUME NEW k \in 1..Len(stack) PROVE FrameOk(k + 1)'
    <3>1. FrameOk(k)
      BY DEF TopoInv, Frames
    <3>2. /\ Deployable(stack[k + 1].node)'
          /\ labels'[stack'[k + 1].node] = labels[stack[k].node]
      BY <2>8, <3>1, <1>1, <1>2, SameInput DEF FrameOk
    <3>3. /\ stack'[k + 1].left \subseteq stack[k].left
          /\ \A d \in stack[k].left : d \in stack'[k + 1].left \/ (k = 1 /\ d = n)
      <4>1. stack'[k + 1] = Rest(n)[k]
        BY <2>2, <2>5
      <4>2. CASE k = 1
        BY <2>4, <4>1, <4>2
      <4>3. CASE k > 1
        BY <2>2, <2>4, <4>1, <4>3
      <4> QED
        BY <4>2, <4>3
    <3>4. \A d \in labels[stack[k].node] \ stack'[k + 1].left :
             Done(d)' \/ d = NodeName(k)'
      <4> SUFFICES ASSUME NEW d \in labels[stack[k].node], d \notin stack'[k + 1].left,
                          ~Done(d)'
                   PROVE  d = NodeName(k)'
        OBVIOUS
      <4>1. CASE k = 1
        BY <2>6, <2>7, <3>1, <3>3, <4>1 DEF FrameOk
      <4>2. CASE k > 1
        <5>1. d = NodeName(k - 1)
          BY <2>6, <3>1, <3>3, <4>2 DEF FrameOk
        <5>2. k - 1 \in 1..Len(stack) /\ (k - 1) + 1 = k
          BY <2>2, <4>2
        <5> QED
          BY <5>1, <5>2, <2>9
      <4> QED
        BY <4>1, <4>2
    <3>5. NodeName(k)' \in labels[stack[k].node]
      <4>1. CASE k = 1
        <5>1. n \in stack[1].left
          BY <2>1, <2>2 DEF Top
        <5> QED
          BY <2>7, <3>1, <4>1, <5>1 DEF FrameOk
      <4>2. CASE k > 1
        <5>1. k - 1 \in 1..Len(stack) /\ (k - 1) + 1 = k
          BY <2>2, <4>2
        <5> QED
          BY <3>1, <4>2, <5>1, <2>9 DEF FrameOk
      <4> QED
        BY <4>1, <4>2
    <3>6. \A j \in 1..Len(stack') : NodeName(j)' = NodeName(k + 1)' => j = k + 1
      <4> SUFFICES ASSUME NEW j \in 1..Len(stack'), NodeName(j)' = NodeName(k)
                   PROVE  j = k + 1
        BY <2>9
      <4>1. CASE j = 1
        BY <2>1, <2>7, <3>1, <4>1 DEF FrameOk
      <4>2. CASE j > 1
        <5>1. j - 1 \in 1..Len(stack) /\ (j - 1) + 1 = j
          BY <2>2, <2>5, <4>2
        <5> QED
          BY <2>9, <3>1, <5>1 DEF FrameOk
      <4> QED
        BY <4>1, <4>2
    <3>7. NodeName(k + 1)' \in DOMAIN visited' /\ visited'[NodeName(k + 1)'] = "InProgress"
      BY <2>6, <2>9, <3>1 DEF FrameOk
    <3>8. stack'[k + 1].left \subseteq labels[stack[k].node]
      BY <3>1, <3>3 DEF FrameOk
    <3>9. (k + 1) - 1 = k /\ k + 1 > 1
      OBVIOUS
    <3> QED
      BY <3>2, <3>4, <3>5, <3>6, <3>7, <3>8, <3>9 DEF FrameOk
  <2>13. Frames'
    <3> SUFFICES ASSUME NEW j \in 1..Len(stack') PROVE FrameOk(j)'
      BY DEF Frames
    <3>1. CASE j = 1
      BY <2>11, <3>1
    <3>2. CASE j > 1
      <4>1. j - 1 \in 1..Len(stack) /\ (j - 1) + 1 = j
        BY <2>2, <2>5, <3>2
      <4>2. FrameOk((j - 1) + 1)'
        BY <2>12, <4>1
      <4> QED
        BY <4>1, <4>2
    <3> QED
      BY <3>1, <3>2
  <2>14. Marks'
    <3> SUFFICES ASSUME NEW d \in DOMAIN visited'
                 PROVE  /\ visited'[d] = "InProgress" =>
                             \E k \in 1..Len(stack') : NodeName(k)' = d
                        /\ visited'[d] = "Done" =>
                             \E j \in 1..Len(order') : NameOf[order'[j]] = d
      BY DEF Marks
    <3>1. CASE d = n
      BY <2>2, <2>5, <2>6, <2>7, <3>1
    <3>2. CASE d \in DOMAIN visited /\ visited[d] = "InProgress"
      <4>1. PICK k \in 1..Len(stack) : NodeName(k) = d
        BY <3>2 DEF TopoInv, Marks
      <4>2. k + 1 \in 1..Len(stack')
        BY <2>2, <2>5
      <4> QED
        BY <2>6, <2>9, <3>2, <4>1, <4>2
    <3>3. CASE d \in DOMAIN visited /\ visited[d] # "InProgress"
      BY <2>2, <2>6, <3>3 DEF TopoInv, Marks
    <3> QED
      BY <2>6, <3>1, <3>2, <3>3
  <2>15. Loop'
    BY <1>7, <2>2, <2>6, <1>1, SameInput DEF TopoInv, Loop, VisitDep
  <2> QED
    BY <2>6, <2>10, <2>13, <2>14, <2>15 DEF TopoInv
<1>8. CASE Return
  <2>1. /\ UNCHANGED <<spc, next>> /\ stack # << >> /\ stack \in Seq(Frame)
        /\ labels \in [Member -> SUBSET AddrName] /\ Len(stack) \in Nat \ {0}
        /\ order \in Seq(Member) /\ spc = "sort"
    BY <1>8 DEF Return, TopoInv, TopoTypeOK
  <2>2. PICK m \in Member : m = stack[1].node /\ stack[1].left = {}
    <3>1. stack[1] \in Frame /\ Top = stack[1]
      BY <2>1 DEF Top
    <3> QED
      BY <1>8, <3>1 DEF Return, Frame
  <2>3. /\ visited' = Mark(m, "Done") /\ order' = Append(order, m) /\ stack' = Tail(stack)
    BY <1>8, <2>1, <2>2 DEF Return, Top
  <2>4. FrameOk(1) /\ NodeName(1) = NameOf[m] /\ Deployable(m)
    <3>1. FrameOk(1)
      BY <2>1 DEF TopoInv, Frames
    <3> QED
      BY <2>2, <3>1 DEF FrameOk, NodeName
  <2>5. /\ stack' \in Seq(Frame) /\ Len(stack') = Len(stack) - 1
        /\ \A k \in 1..Len(stack') : stack'[k] = stack[k + 1]
    BY <2>1, <2>3
  <2>6. /\ DOMAIN visited' = DOMAIN visited /\ visited'[NameOf[m]] = "Done"
        /\ \A d \in DOMAIN visited : d # NameOf[m] => visited'[d] = visited[d]
        /\ visited' \in [DOMAIN visited' -> {"InProgress", "Done"}]
    <3>1. visited \in [DOMAIN visited -> {"InProgress", "Done"}]
      BY DEF TopoInv, TopoTypeOK
    <3> QED
      BY <2>3, <2>4, <3>1 DEF Mark, FrameOk
  <2>7. \A d : Done(d) => Done(d)'
    BY <2>3, <1>1, DoneStays
  <2>8. /\ order' \in Seq(Member) /\ Len(order') = Len(order) + 1
        /\ order'[Len(order) + 1] = m /\ Len(order) \in Nat
        /\ \A j \in 1..Len(order) : order'[j] = order[j]
    BY <2>1, <2>3
  <2>9. \A k \in 1..Len(stack') : NodeName(k)' = NodeName(k + 1) /\ k + 1 \in 1..Len(stack)
    BY <2>1, <2>5 DEF NodeName
  <2>10. TopoTypeOK'
    BY <2>1, <2>5, <2>6, <2>8, <1>2 DEF TopoInv, TopoTypeOK
  <2>11. Frames'
    <3> SUFFICES ASSUME NEW k \in 1..Len(stack') PROVE FrameOk(k)'
      BY DEF Frames
    <3>1. FrameOk(k + 1) /\ NodeName(k)' = NodeName(k + 1) /\ NodeName(k + 1) # NameOf[m]
      <4>1. k + 1 \in 1..Len(stack) /\ k + 1 # 1 /\ 1 \in 1..Len(stack)
        BY <2>1, <2>9
      <4> QED
        BY <2>4, <2>9, <4>1 DEF TopoInv, Frames, FrameOk
    <3>2. /\ Deployable(stack[k].node)'
          /\ labels'[stack'[k].node] = labels[stack[k + 1].node]
          /\ stack'[k].left = stack[k + 1].left
      BY <2>5, <3>1, <1>1, <1>2, SameInput DEF FrameOk
    <3>3. NodeName(k)' \in DOMAIN visited' /\ visited'[NodeName(k)'] = "InProgress"
      BY <2>6, <3>1 DEF FrameOk
    <3>4. (k + 1) - 1 = k
      OBVIOUS
    <3>5. \A d \in labels[stack[k + 1].node] \ stack[k + 1].left :
             Done(d)' \/ (k > 1 /\ d = NodeName(k - 1)')
      <4> SUFFICES ASSUME NEW d \in labels[stack[k + 1].node], d \notin stack[k + 1].left,
                          ~Done(d)'
                   PROVE  k > 1 /\ d = NodeName(k - 1)'
        OBVIOUS
      <4>1. d = NodeName(k)
        BY <2>7, <3>1, <3>4 DEF FrameOk
      <4>2. CASE k = 1
        <5>1. d = NameOf[m] /\ d \in DOMAIN visited' /\ visited'[d] = "Done"
          BY <2>4, <2>6, <4>1, <4>2 DEF FrameOk
        <5> QED
          BY <5>1 DEF Done
      <4>3. CASE k > 1
        <5>1. k - 1 \in 1..Len(stack') /\ (k - 1) + 1 = k
          BY <2>1, <2>5, <4>3
        <5> QED
          BY <2>9, <4>1, <4>3, <5>1
      <4> QED
        BY <4>2, <4>3
    <3>6. k > 1 => NodeName(k - 1)' \in labels[stack[k + 1].node]
      <4> SUFFICES ASSUME k > 1 PROVE NodeName(k - 1)' \in labels[stack[k + 1].node]
        OBVIOUS
      <4>1. k - 1 \in 1..Len(stack') /\ (k - 1) + 1 = k
        BY <2>1, <2>5
      <4> QED
        BY <2>9, <3>1, <3>4, <4>1 DEF FrameOk
    <3>7. \A j \in 1..Len(stack') : NodeName(j)' = NodeName(k)' => j = k
      <4> SUFFICES ASSUME NEW j \in 1..Len(stack'), NodeName(j + 1) = NodeName(k + 1)
                   PROVE  j = k
        BY <2>9
      <4>1. j + 1 = k + 1
        BY <2>9, <3>1 DEF FrameOk
      <4> QED
        BY <4>1
    <3>8. stack[k + 1].left \subseteq labels[stack[k + 1].node]
      BY <3>1 DEF FrameOk
    <3> QED
      BY <3>2, <3>3, <3>5, <3>6, <3>7, <3>8 DEF FrameOk
  <2>12. Marks'
    <3> SUFFICES ASSUME NEW d \in DOMAIN visited'
                 PROVE  /\ visited'[d] = "InProgress" =>
                             \E k \in 1..Len(stack') : NodeName(k)' = d
                        /\ visited'[d] = "Done" =>
                             \E j \in 1..Len(order') : NameOf[order'[j]] = d
      BY DEF Marks
    <3>1. CASE d = NameOf[m]
      <4>1. Len(order) + 1 \in 1..Len(order')
        BY <2>8
      <4> QED
        BY <2>6, <2>8, <3>1, <4>1
    <3>2. CASE d # NameOf[m] /\ visited[d] = "InProgress"
      <4>1. PICK k \in 1..Len(stack) : NodeName(k) = d
        BY <2>6, <3>2 DEF TopoInv, Marks
      <4>2. k - 1 \in 1..Len(stack') /\ (k - 1) + 1 = k
        BY <2>1, <2>4, <2>5, <3>2, <4>1
      <4> QED
        BY <2>6, <2>9, <3>2, <4>1, <4>2
    <3>3. CASE d # NameOf[m] /\ visited[d] # "InProgress"
      <4> SUFFICES ASSUME visited[d] = "Done"
                   PROVE  \E j \in 1..Len(order') : NameOf[order'[j]] = d
        BY <2>6, <3>3
      <4>1. PICK j \in 1..Len(order) : NameOf[order[j]] = d
        BY <2>6 DEF TopoInv, Marks
      <4>2. j \in 1..Len(order')
        BY <2>8
      <4> QED
        BY <2>8, <4>1, <4>2
    <3> QED
      BY <3>1, <3>2, <3>3
  <2>13. Order'
    <3>1. \A d \in labels[m] : Named(d) # {} =>
            \E j \in 1..Len(order) : NameOf[order[j]] = d
      BY <2>2, <2>4 DEF FrameOk, Done, TopoInv, Marks
    <3>2. \A i \in 1..Len(order) : NameOf[order[i]] # NameOf[m]
      BY <2>4 DEF TopoInv, Order, FrameOk
    <3> SUFFICES ASSUME NEW i \in 1..Len(order')
                 PROVE  /\ Deployable(order[i])'
                        /\ NameOf[order'[i]] \in DOMAIN visited'
                        /\ visited'[NameOf[order'[i]]] = "Done"
                        /\ \A j \in 1..Len(order') :
                             NameOf[order'[i]] = NameOf[order'[j]] => i = j
                        /\ \A d \in labels[order'[i]] : Named(d) # {} =>
                             \E j \in 1..(i - 1) : NameOf[order'[j]] = d
      BY <1>1, <1>2, SameInput DEF Order
    <3>3. CASE i = Len(order) + 1
      <4>1. order'[i] = m /\ Deployable(order[i])'
        BY <2>4, <2>8, <3>3, <1>1, SameInput
      <4>2. \A j \in 1..Len(order') : NameOf[m] = NameOf[order'[j]] => i = j
        BY <2>8, <3>2, <3>3
      <4>3. 1..(i - 1) = 1..Len(order)
        BY <2>8, <3>3
      <4>4. \A d \in labels[m] : Named(d) # {} =>
              \E j \in 1..(i - 1) : NameOf[order'[j]] = d
        BY <2>8, <3>1, <4>3
      <4>5. NameOf[m] \in DOMAIN visited'
        BY <2>4, <2>6 DEF FrameOk
      <4> QED
        BY <2>6, <4>1, <4>2, <4>4, <4>5
    <3>4. CASE i \in 1..Len(order)
      <4>1. order'[i] = order[i] /\ Deployable(order[i])'
        BY <2>8, <3>4, <1>1, SameInput DEF TopoInv, Order
      <4>2. /\ NameOf[order[i]] \in DOMAIN visited'
            /\ visited'[NameOf[order[i]]] = "Done"
        BY <2>6, <3>4, <3>2 DEF TopoInv, Order
      <4>3. \A j \in 1..Len(order') : NameOf[order[i]] = NameOf[order'[j]] => i = j
        BY <2>8, <3>2, <3>4 DEF TopoInv, Order
      <4>4. \A d \in labels[order[i]] : Named(d) # {} =>
              \E j \in 1..(i - 1) : NameOf[order'[j]] = d
        <5> SUFFICES ASSUME NEW d \in labels[order[i]], Named(d) # {}
                     PROVE  \E j \in 1..(i - 1) : NameOf[order'[j]] = d
          OBVIOUS
        <5>1. PICK j \in 1..(i - 1) : NameOf[order[j]] = d
          BY <3>4 DEF TopoInv, Order
        <5>2. j \in 1..Len(order)
          BY <2>8, <3>4
        <5> QED
          BY <2>8, <5>1, <5>2
      <4> QED
        BY <4>1, <4>2, <4>3, <4>4
    <3> QED
      BY <2>8, <3>3, <3>4
  <2>14. Loop'
    BY <2>1, <2>6, <1>1, SameInput DEF TopoInv, Loop
  <2> QED
    BY <2>10, <2>11, <2>12, <2>13, <2>14 DEF TopoInv
<1> QED
  BY <1>3, <1>4, <1>5, <1>6, <1>7, <1>8 DEF TopoNext

(* The inductive invariant of the sort: the stack is a path of calls, and    *)
(* whatever is marked is on it or sorted.                                    *)
THEOREM SearchIsSound == TopoSpec => []TopoInv
BY TopoStarts, TopoStep, PTL DEF TopoSpec

(* The invariant says more than the property.                                *)
LEMMA OrderIsGood == TopoInv => DependenciesFirst
<1> SUFFICES ASSUME TopoInv PROVE DependenciesFirst
  OBVIOUS
<1>1. \A i, j \in 1..Len(order) : order[i] = order[j] => i = j
  BY DEF TopoInv, Order
<1>2. ASSUME NEW i \in 1..Len(order), NEW n \in labels[order[i]], Named(n) # {}
      PROVE  \E j \in 1..(i - 1) : NameOf[order[j]] = n
  BY <1>2 DEF TopoInv, Order
<1>3. ASSUME spc = "sorted"
      PROVE  {NameOf[order[i]] : i \in 1..Len(order)} =
               {NameOf[m] : m \in {k \in Member : Deployable(k)}}
  <2>1. ASSUME NEW i \in 1..Len(order)
        PROVE  order[i] \in Member /\ Deployable(order[i])
    BY DEF TopoInv, TopoTypeOK, Order
  <2>2. ASSUME NEW m \in Member, Deployable(m)
        PROVE  \E j \in 1..Len(order) : NameOf[order[j]] = NameOf[m]
    <3>1. PICK i \in 1..Len(MemberOrder) : MemberOrder[i] = m
      BY MembersAssumption
    <3>2. i < next /\ stack = << >>
      BY <1>3, MembersAssumption DEF TopoInv, Loop, TopoTypeOK
    <3>3. NameOf[m] \in DOMAIN visited
      BY <2>2, <3>1, <3>2 DEF TopoInv, Loop
    <3>4. visited[NameOf[m]] \in {"InProgress", "Done"}
      BY <3>3 DEF TopoInv, TopoTypeOK
    <3>5. visited[NameOf[m]] # "InProgress"
      BY <3>2, <3>3 DEF TopoInv, Marks
    <3> QED
      BY <3>3, <3>4, <3>5 DEF TopoInv, Marks
  <2> QED
    BY <2>1, <2>2
<1> QED
  BY <1>1, <1>2, <1>3 DEF DependenciesFirst

(* topo_sort puts every member after what it depends on, each once, and      *)
(* loses none.                                                               *)
THEOREM DependenciesComeFirst == TopoSpec => []DependenciesFirst
BY SearchIsSound, OrderIsGood, PTL

-----------------------------------------------------------------------------
(* Members that can be deployed have names of their own: what by_name takes  *)
(* for granted.                                                              *)
NamesApart ==
  \A m, k \in Member : Deployable(m) /\ Deployable(k) /\ NameOf[m] = NameOf[k] => m = k

(* A call that meets a name in progress has gone round a cycle.              *)
LEMMA StackIsCycle ==
  ASSUME TopoInv, NamesApart, NEW k \in 1..Len(stack),
         NodeName(k) \in labels[stack[1].node]
  PROVE  HasCycle
<1> DEFINE names == {NodeName(j) : j \in 1..k}
<1>1. Len(stack) \in Nat /\ stack \in Seq(Frame)
  BY DEF TopoInv, TopoTypeOK
<1>2. ASSUME NEW j \in 1..k
      PROVE  /\ NodeName(j) \in AddrName /\ Named(NodeName(j)) # {}
             /\ \E i \in 1..k : NodeName(i) \in labels[ByName(NodeName(j))]
  <2>1. j \in 1..Len(stack) /\ 1 \in 1..k
    BY <1>1
  <2>2. FrameOk(j)
    BY <2>1 DEF TopoInv, Frames
  <2>3. stack[j].node \in Member
    <3>1. stack[j] \in Frame
      BY <1>1, <2>1
    <3> QED
      BY <3>1 DEF Frame
  <2>4. NodeName(j) \in AddrName /\ Named(NodeName(j)) # {}
    BY <2>2, <2>3, NameListed DEF FrameOk, NodeName
  <2>5. ByName(NodeName(j)) = stack[j].node
    BY <2>2, <2>3, <2>4, NameFound DEF FrameOk, NodeName, NamesApart
  <2>6. CASE j = 1
    BY <2>4, <2>5, <2>6
  <2>7. CASE j > 1
    <3>1. NodeName(j - 1) \in labels[stack[j].node] /\ j - 1 \in 1..k
      BY <1>1, <2>2, <2>7 DEF FrameOk
    <3> QED
      BY <2>4, <2>5, <3>1
  <2> QED
    BY <1>1, <2>6, <2>7
<1>3. names # {}
  BY <1>1
<1>4. names \in SUBSET {n \in AddrName : Named(n) # {}}
  BY <1>2
<1>5. \A n \in names : labels[ByName(n)] \cap names # {}
  BY <1>2
<1> QED
  BY <1>3, <1>4, <1>5 DEF HasCycle

(* An order with dependencies first leaves no room for a cycle.              *)
LEMMA OrderHasNone ==
  ASSUME TopoInv, NamesApart, spc = "sorted"
  PROVE  ~HasCycle
<1> SUFFICES ASSUME NEW names \in SUBSET {n \in AddrName : Named(n) # {}}, names # {},
                    \A n \in names : labels[ByName(n)] \cap names # {}
             PROVE  FALSE
  BY DEF HasCycle
<1> DEFINE places == {i \in 1..Len(order) : NameOf[order[i]] \in names}
<1>1. order \in Seq(Member) /\ Len(order) \in Nat
  BY DEF TopoInv, TopoTypeOK
<1>2. places # {}
  <2>1. PICK n \in names : TRUE
    OBVIOUS
  <2>2. ByName(n) \in Member /\ Deployable(ByName(n)) /\ NameOf[ByName(n)] = n
    BY <2>1, NameFound
  <2>3. n \in {NameOf[order[i]] : i \in 1..Len(order)}
    BY <2>2, OrderIsGood DEF DependenciesFirst
  <2> QED
    BY <2>1, <2>3
<1>3. places \in SUBSET (1..Len(order))
  OBVIOUS
<1>4. PICK i \in places : \A j \in places : i <= j
  <2> HIDE DEF places
  <2> QED
    BY <1>1, <1>2, <1>3, LastAndFirst
<1>5. order[i] = ByName(NameOf[order[i]])
  <2>1. order[i] \in Member /\ Deployable(order[i])
    BY <1>1, <1>4 DEF TopoInv, Order
  <2> QED
    BY <1>4, <2>1, NameFound DEF NamesApart
<1>6. PICK n \in names : n \in labels[order[i]]
  BY <1>4, <1>5
<1>7. PICK j \in 1..(i - 1) : NameOf[order[j]] = n
  BY <1>4, <1>6 DEF TopoInv, Order
<1>8. j \in places /\ j < i
  BY <1>1, <1>4, <1>6, <1>7
<1> QED
  BY <1>1, <1>4, <1>8

(* How a sort can have come to its end.                                      *)
CycleMet == spc = "cycle" =>
  \E k \in 1..Len(stack) : NodeName(k) \in labels[stack[1].node]

(* A cycle is reported from a call whose label is on the stack.              *)
LEMMA CycleStep == TopoInv /\ CycleMet /\ [TopoNext]_topoVars => CycleMet'
<1> SUFFICES ASSUME TopoInv, CycleMet, [TopoNext]_topoVars PROVE CycleMet'
  OBVIOUS
<1>1. CASE Cycle
  <2>1. PICK n \in Top.left : n \in DOMAIN visited /\ visited[n] = "InProgress"
    BY <1>1 DEF Cycle
  <2>2. PICK k \in 1..Len(stack) : NodeName(k) = n
    BY <2>1 DEF TopoInv, Marks
  <2>3. stack # << >> /\ stack \in Seq(Frame)
    BY <1>1 DEF Cycle, TopoInv, TopoTypeOK
  <2>4. 1 \in 1..Len(stack) /\ Top = stack[1]
    BY <2>3 DEF Top
  <2>5. n \in labels[stack[1].node]
    BY <2>1, <2>4 DEF TopoInv, Frames, FrameOk
  <2>6. UNCHANGED <<labels, stack>>
    BY <1>1 DEF Cycle, input
  <2> QED
    BY <2>2, <2>5, <2>6 DEF CycleMet, NodeName
<1>2. CASE UNCHANGED topoVars
  BY <1>2 DEF CycleMet, NodeName, topoVars, input
<1>3. CASE TopoNext /\ ~Cycle
  <2>1. spc' # "cycle"
    BY <1>3 DEF TopoNext, NothingToDeploy, Pass, VisitRoot, SkipDep, VisitDep,
                Return, Sorted
  <2> QED
    BY <2>1 DEF CycleMet
<1> QED
  BY <1>1, <1>2, <1>3

(* Where names are apart, a cycle is reported exactly for an input with one. *)
THEOREM CyclesAreReported == TopoSpec /\ []NamesApart => []CycleReported
<1>1. TopoInit => CycleMet
  BY DEF TopoInit, CycleMet
<1>2. TopoInv /\ CycleMet /\ NamesApart => CycleReported
  BY StackIsCycle, OrderHasNone DEF CycleMet, CycleReported
<1> QED
  BY <1>1, <1>2, CycleStep, SearchIsSound, PTL DEF TopoSpec

-----------------------------------------------------------------------------
(* The place of a run; nothing was deployed before the sort was over.        *)
Place ==
  /\ dpc \in DeployPoints /\ ended \in Endings
  /\ runs \in Nat /\ step \in Nat \ {0}
  /\ runs > 0 => spc = "sorted"
  /\ runs = 0 => dpc = "idle" /\ ended = "none" /\ published = << >>
                 /\ artifacts = << >> /\ created = << >> /\ indexed = coin
  /\ dpc # "idle" => ended = "none" /\ step <= Len(order) + 1
  /\ dpc \in {"submit", "wait"} => step <= Len(order)

(* The coin: past the first publish of a run, and in the first run, the      *)
(* oracle knows its version.                                                 *)
CoinKnown ==
  /\ coin \in Nat /\ indexed \in 1..coin
  /\ dpc = "gas" /\ (step > 1 \/ runs = 1) => indexed = coin
  /\ dpc = "submit" /\ (step > 1 \/ runs = 1) => gas = coin
  /\ ended = "stale" => step = 1 /\ runs > 1

Package == [member : Member, run : Nat,
            links : UNION {[names -> Nat] : names \in SUBSET AddrName}]

(* What is on chain: what a run has published are members it has come to,    *)
(* linked to earlier ones of the same run.                                   *)
OnChain ==
  /\ published \in Seq(Package)
  /\ \A i \in 1..Len(published) :
       /\ published[i].run \in 1..runs
       /\ \A n \in DOMAIN published[i].links :
            published[i].links[n] \in 1..Len(published)
  /\ \A i \in 1..Len(published) : published[i].run = runs =>
       \E k \in 1..Len(order) :
         /\ published[i].member = order[k]
         /\ k <= step /\ (dpc \in {"gas", "submit"} => k < step)
  /\ LinkedWithinRun /\ OncePerRun

(* The artifacts of a run lead to its packages, and hold all that it is past.*)
Kept ==
  /\ DOMAIN artifacts = DOMAIN created /\ DOMAIN artifacts \subseteq AddrName
  /\ \A n \in DOMAIN artifacts :
       /\ artifacts[n] \in 1..Len(published)
       /\ published[artifacts[n]].run = runs
       /\ NameOf[published[artifacts[n]].member] = n
  /\ dpc # "idle" => \A k \in 1..Len(order) :
       k < step \/ (k = step /\ dpc = "wait") => NameOf[order[k]] \in DOMAIN artifacts
  /\ dpc # "idle" \/ ended # "unanswered" => Reported

DeployInv == TopoInv /\ Place /\ CoinKnown /\ OnChain /\ Kept /\ MissingOnlyIfFiltered

(* A sort that has ended stays as it is.                                     *)
LEMMA SortOver ==
  ASSUME spc = "sorted", TopoNext
  PROVE  FALSE
BY DEF TopoNext, NothingToDeploy, Pass, VisitRoot, SkipDep, VisitDep, Cycle, Return, Sorted

(* Before the sort nothing is deployed.                                      *)
LEMMA DeployStarts == DeployInit => DeployInv
<1> SUFFICES ASSUME DeployInit PROVE DeployInv
  OBVIOUS
<1>1. TopoInv
  BY TopoStarts DEF DeployInit
<1>2. Len(published) = 0 /\ DOMAIN artifacts = {} /\ DOMAIN created = {} /\ published \in Seq(Package)
  BY DEF DeployInit
<1>3. Place /\ CoinKnown
  BY DEF DeployInit, Place, CoinKnown, DeployPoints, Endings
<1>4. OnChain
  BY <1>2 DEF OnChain, LinkedWithinRun, OncePerRun
<1>5. Kept
  <2>1. ThisRun = {}
    BY <1>2 DEF ThisRun
  <2>2. Reported
    BY <1>2, <2>1 DEF Reported
  <2> QED
    BY <1>2, <2>2 DEF Kept, DeployInit
<1>6. MissingOnlyIfFiltered
  BY DEF DeployInit, MissingOnlyIfFiltered
<1> QED
  BY <1>1, <1>3, <1>4, <1>5, <1>6 DEF DeployInv

(* The sort, which ends before the first run begins, disturbs nothing.       *)
LEMMA SortStep ==
  ASSUME DeployInv, TopoNext, UNCHANGED <<chain, run, faults>>
  PROVE  DeployInv'
<1>1. runs = 0
  BY SortOver DEF DeployInv, Place
<1>2. UNCHANGED <<coin, indexed, published, dpc, step, gas, artifacts, created, ended, runs>>
  BY DEF chain, run
<1>3. dpc = "idle" /\ ended = "none" /\ published = << >> /\ artifacts = << >>
  BY <1>1 DEF DeployInv, Place
<1>4. TopoInv'
  BY TopoStep DEF DeployInv
<1>5. Place' /\ CoinKnown'
  BY <1>1, <1>2, <1>3 DEF DeployInv, Place, CoinKnown
<1>6. OnChain'
  BY <1>2, <1>3 DEF DeployInv, OnChain, LinkedWithinRun, OncePerRun
<1>7. Kept'
  BY <1>2, <1>3 DEF DeployInv, Kept, Reported, ThisRun
<1>8. MissingOnlyIfFiltered'
  BY <1>2, <1>3 DEF MissingOnlyIfFiltered
<1> QED
  BY <1>4, <1>5, <1>6, <1>7, <1>8 DEF DeployInv

(* The steps of deploy_all leave what was sorted alone.                      *)
LEMMA SameTopo ==
  ASSUME DeployInv, UNCHANGED topoVars
  PROVE  /\ TopoInv'
         /\ order' = order /\ spc' = spc /\ labels' = labels
         /\ \A n : Named(n)' = Named(n)
<1>1. TopoInv'
  BY TopoStep DEF DeployInv
<1> QED
  BY <1>1, SameInput DEF topoVars, input

(* The place in the run and the version of the coin.                         *)
LEMMA PlaceStep ==
  ASSUME DeployInv, RunStart \/ RunStep \/ Index, UNCHANGED topoVars
  PROVE  Place' /\ CoinKnown'
<1> USE DEF DeployInv, Place, CoinKnown, DeployPoints, Endings, End, chain, run
<1>1. order' = order /\ spc' = spc /\ Len(order) \in Nat
  BY SameTopo DEF TopoInv, TopoTypeOK
<1>2. CASE RunStart
  BY <1>1, <1>2 DEF RunStart
<1>3. CASE RunDone
  BY <1>1, <1>3 DEF RunDone
<1>4. CASE ApplyGas
  BY <1>1, <1>4 DEF ApplyGas
<1>5. CASE OracleFails
  BY <1>1, <1>5 DEF OracleFails
<1>6. CASE SubmitStale
  BY <1>1, <1>6 DEF SubmitStale
<1>7. CASE SubmitMissing
  BY <1>1, <1>7 DEF SubmitMissing
<1>8. CASE SubmitAborts
  BY <1>1, <1>8 DEF SubmitAborts
<1>9. CASE SubmitNotSent
  BY <1>1, <1>9 DEF SubmitNotSent
<1>10. CASE SubmitNoAnswer
  BY <1>1, <1>10 DEF SubmitNoAnswer, Publish
<1>11. CASE SubmitOk
  BY <1>1, <1>11 DEF SubmitOk, Publish
<1>12. CASE WaitOk
  BY <1>1, <1>12 DEF WaitOk
<1>13. CASE WaitFails
  BY <1>1, <1>13 DEF WaitFails
<1>14. CASE Index
  BY <1>1, <1>14 DEF Index
<1> QED
  BY <1>2, <1>3, <1>4, <1>5, <1>6, <1>7, <1>8, <1>9, <1>10, <1>11, <1>12, <1>13, <1>14 DEF RunStep

(* Steps that leave the packages and the artifacts alone.                    *)
Quiet ==
  /\ UNCHANGED <<published, artifacts, created, step, runs>>
  /\ dpc' \in {"gas", "submit"} => dpc \in {"gas", "submit"}
  /\ dpc' = "wait" => dpc = "wait"
  /\ dpc' # "idle" => dpc # "idle"
  /\ dpc' # "idle" \/ ended' # "unanswered" => dpc # "idle" \/ ended # "unanswered"

(* They keep what is on chain and in the artifacts.                          *)
LEMMA QuietStep ==
  ASSUME DeployInv, UNCHANGED topoVars, Quiet
  PROVE  OnChain' /\ Kept'
<1>1. order' = order
  BY SameTopo
<1>2. OnChain'
  BY <1>1 DEF DeployInv, OnChain, Quiet, LinkedWithinRun, OncePerRun
<1>3. Kept'
  BY <1>1 DEF DeployInv, Kept, Quiet, Reported, ThisRun
<1> QED
  BY <1>2, <1>3

(* A package goes on chain: it is one this run has not published yet.        *)
LEMMA Publishing ==
  ASSUME DeployInv, UNCHANGED topoVars, dpc = "submit", Publish,
         UNCHANGED <<step, runs>>, dpc' \notin {"gas", "submit"}
  PROVE  /\ OnChain' /\ Len(published') = Len(published) + 1
         /\ \A i \in 1..Len(published) : published'[i] = published[i]
         /\ published'[Len(published')].member = order[step]
         /\ published'[Len(published')].run = runs
<1> DEFINE links == [n \in Resolved(This) |-> artifacts[n]]
           p == [member |-> This, run |-> runs, links |-> links]
           L == Len(published)
<1>1. /\ step \in 1..Len(order) /\ order[step] \in Member /\ This = order[step]
      /\ runs \in Nat \ {0} /\ order' = order
  BY SameTopo DEF DeployInv, Place, DeployPoints, TopoInv, TopoTypeOK, This
<1>2. /\ DOMAIN links \subseteq DOMAIN artifacts
      /\ \A n \in DOMAIN links : links[n] = artifacts[n]
  BY DEF Resolved
<1>3. published \in Seq(Package) /\ L \in Nat
  BY DEF DeployInv, OnChain
<1>4. /\ \A n \in DOMAIN links :
            /\ links[n] \in 1..L /\ published[links[n]].run = runs
            /\ NameOf[published[links[n]].member] = n
  BY <1>2 DEF DeployInv, Kept
<1>5. links \in UNION {[names -> Nat] : names \in SUBSET AddrName}
  <2>1. DOMAIN links \in SUBSET AddrName
    BY <1>2 DEF DeployInv, Kept
  <2>2. links \in [DOMAIN links -> Nat]
    BY <1>3, <1>4
  <2> QED
    BY <2>1, <2>2
<1>6. p \in Package /\ p.member = order[step] /\ p.run = runs /\ p.links = links
  BY <1>1, <1>5 DEF Package
<1>7. published' = Append(published, p)
  BY DEF Publish
<1> HIDE DEF p, links
<1>8. /\ published' \in Seq(Package) /\ Len(published') = L + 1
      /\ published'[L + 1] = p
      /\ \A i \in 1..L : published'[i] = published[i]
  BY <1>3, <1>6, <1>7
<1> HIDE DEF L
<1>9. \A i \in 1..Len(published') : i \in 1..L \/ i = L + 1
  BY <1>3, <1>8
<1>10. ASSUME NEW i \in 1..Len(published')
       PROVE  /\ published'[i].run \in 1..runs'
              /\ \A n \in DOMAIN published'[i].links :
                   published'[i].links[n] \in 1..Len(published')
  <2>1. CASE i \in 1..L
    BY <1>3, <1>8, <2>1 DEF DeployInv, OnChain, L
  <2>2. CASE i = L + 1
    BY <1>1, <1>3, <1>4, <1>6, <1>8, <2>2
  <2> QED
    BY <1>9, <2>1, <2>2
<1>11. \A i \in 1..L : published[i].run = runs =>
         \E k \in 1..Len(order) : published[i].member = order[k] /\ k < step
  BY DEF DeployInv, OnChain, L
<1>12. \A i \in 1..Len(published') : published'[i].run = runs' =>
         \E k \in 1..Len(order') : published'[i].member = order'[k] /\ k <= step'
  BY <1>1, <1>6, <1>8, <1>9, <1>11
<1>13. LinkedWithinRun'
  <2> SUFFICES ASSUME NEW i \in 1..Len(published'), NEW n \in DOMAIN published'[i].links
               PROVE  /\ published'[i].links[n] < i
                      /\ published'[published'[i].links[n]].run = published'[i].run
                      /\ NameOf[published'[published'[i].links[n]].member] = n
    BY DEF LinkedWithinRun
  <2>1. CASE i \in 1..L
    <3>1. n \in DOMAIN published[i].links /\ published'[i] = published[i]
      BY <1>8, <2>1
    <3>2. LinkedWithinRun /\ 1..L = 1..Len(published)
      BY DEF DeployInv, OnChain, L
    <3>3. /\ published[i].links[n] < i
          /\ published[published[i].links[n]].run = published[i].run
          /\ NameOf[published[published[i].links[n]].member] = n
      BY <2>1, <3>1, <3>2 DEF LinkedWithinRun
    <3>4. published[i].links[n] \in 1..L
      BY <2>1, <3>1 DEF DeployInv, OnChain, L
    <3> QED
      BY <1>8, <3>1, <3>3, <3>4
  <2>2. CASE i = L + 1
    <3>1. published'[i].links = links /\ published'[i].run = runs
      BY <1>6, <1>8, <2>2
    <3>2. links[n] \in 1..L /\ published[links[n]].run = runs
          /\ NameOf[published[links[n]].member] = n
      BY <1>4, <3>1
    <3>3. published'[links[n]] = published[links[n]] /\ links[n] < i
      BY <1>3, <1>8, <2>2, <3>2
    <3> QED
      BY <3>1, <3>2, <3>3
  <2> QED
    BY <1>9, <2>1, <2>2
<1>14. OncePerRun'
  <2>1. \A i, j \in 1..Len(order) : order[i] = order[j] => i = j
    BY OrderIsGood DEF DeployInv, DependenciesFirst
  <2>2. \A i \in 1..L : ~(published[i].run = runs /\ published[i].member = order[step])
    BY <1>1, <1>11, <2>1
  <2>3. \A i, j \in 1..L : published[i].member = published[j].member
            /\ published[i].run = published[j].run => i = j
    BY DEF DeployInv, OnChain, OncePerRun, L
  <2> QED
    BY <1>6, <1>8, <1>9, <2>2, <2>3 DEF OncePerRun
<1>15. OnChain'
  BY <1>8, <1>10, <1>12, <1>13, <1>14 DEF OnChain
<1> QED
  BY <1>6, <1>8, <1>15 DEF L

(* A run begins with no packages and no artifacts of its own.                *)
LEMMA StartStep ==
  ASSUME DeployInv, UNCHANGED topoVars, RunStart
  PROVE  OnChain' /\ Kept'
<1>1. /\ published' = published /\ runs' = runs + 1 /\ step' = 1 /\ dpc' = "gas"
      /\ artifacts' = << >> /\ created' = << >> /\ order' = order
  BY SameTopo DEF RunStart, chain
<1>2. /\ published \in Seq(Package) /\ runs \in Nat
      /\ \A i \in 1..Len(published) : published[i].run \in 1..runs
  BY DEF DeployInv, OnChain, Place
<1>3. \A i \in 1..Len(published) : published[i].run \in 1..runs' /\ published[i].run # runs'
  BY <1>1, <1>2
<1>4. OnChain'
  BY <1>1, <1>2, <1>3 DEF DeployInv, OnChain, LinkedWithinRun, OncePerRun
<1>5. ThisRun' = {} /\ DOMAIN artifacts' = {} /\ DOMAIN created' = {}
  BY <1>1, <1>3 DEF ThisRun
<1>6. Reported'
  BY <1>5 DEF Reported
<1>7. order \in Seq(Member) /\ Len(order) \in Nat
  BY DEF DeployInv, TopoInv, TopoTypeOK
<1>8. Kept'
  BY <1>1, <1>5, <1>6, <1>7 DEF Kept
<1> QED
  BY <1>4, <1>8

(* A lost answer: a package that the artifacts do not list.                  *)
LEMMA LostStep ==
  ASSUME DeployInv, UNCHANGED topoVars, SubmitNoAnswer
  PROVE  OnChain' /\ Kept'
<1>1. /\ dpc = "submit" /\ Publish /\ dpc' = "idle" /\ ended' = "unanswered"
      /\ UNCHANGED <<step, artifacts, created, runs>>
  BY DEF SubmitNoAnswer, End
<1>2. /\ OnChain' /\ Len(published') = Len(published) + 1
      /\ \A i \in 1..Len(published) : published'[i] = published[i]
  BY <1>1, Publishing
<1>3. published \in Seq(Package)
  BY DEF DeployInv, OnChain
<1>4. Kept'
  BY <1>1, <1>2, <1>3 DEF DeployInv, Kept
<1> QED
  BY <1>2, <1>4

(* A publish that is answered is recorded under its name.                    *)
LEMMA OkStep ==
  ASSUME DeployInv, UNCHANGED topoVars, SubmitOk
  PROVE  OnChain' /\ Kept'
<1> DEFINE L == Len(published)
           name == NameOf[order[step]]
<1>1. /\ dpc = "submit" /\ Publish /\ dpc' = "wait"
      /\ artifacts' = With(artifacts, name, Len(published'))
      /\ created' = With(created, name, CollectCreated(Len(published')))
      /\ UNCHANGED <<step, runs, ended>> /\ order' = order
  BY SameTopo DEF SubmitOk, This
<1>2. /\ OnChain' /\ Len(published') = L + 1
      /\ \A i \in 1..L : published'[i] = published[i]
      /\ published'[L + 1].member = order[step]
      /\ published'[L + 1].run = runs
  BY <1>1, Publishing
<1>3. published \in Seq(Package) /\ L \in Nat
  BY DEF DeployInv, OnChain
<1>4. step \in 1..Len(order) /\ order[step] \in Member /\ Deployable(order[step])
  BY <1>1 DEF DeployInv, Place, TopoInv, TopoTypeOK, Order
<1>5. name \in AddrName
  BY <1>4, NameListed
<1>6. /\ DOMAIN artifacts' = DOMAIN artifacts \cup {name}
      /\ DOMAIN created' = DOMAIN created \cup {name}
      /\ artifacts'[name] = L + 1
      /\ \A n \in DOMAIN artifacts : n # name => artifacts'[n] = artifacts[n]
  BY <1>1, <1>2 DEF With
<1> HIDE DEF L, name
<1>7. ASSUME NEW n \in DOMAIN artifacts'
      PROVE  /\ artifacts'[n] \in 1..Len(published')
             /\ published'[artifacts'[n]].run = runs
             /\ NameOf[published'[artifacts'[n]].member] = n
  <2>1. CASE n = name
    BY <1>2, <1>3, <1>6, <2>1 DEF name
  <2>2. CASE n # name /\ n \in DOMAIN artifacts
    <3>1. artifacts'[n] = artifacts[n] /\ artifacts[n] \in 1..L
      BY <1>6, <2>2 DEF DeployInv, Kept, L
    <3> QED
      BY <1>2, <1>3, <2>2, <3>1 DEF DeployInv, Kept
  <2> QED
    BY <1>6, <2>1, <2>2
<1>8. \A k \in 1..Len(order) : k < step \/ k = step => NameOf[order[k]] \in DOMAIN artifacts'
  BY <1>1, <1>6 DEF DeployInv, Kept, name
<1>9. Reported'
  <2>1. DOMAIN artifacts = {NameOf[published[i].member] : i \in ThisRun}
    BY <1>1 DEF DeployInv, Kept, Reported
  <2>2. \A i : i \in ThisRun' <=> i \in ThisRun \/ i = L + 1
    BY <1>1, <1>2, <1>3 DEF ThisRun, L
  <2>3. \A i \in ThisRun : published'[i] = published[i]
    BY <1>2 DEF ThisRun, L
  <2>4. DOMAIN artifacts' = {NameOf[published'[i].member] : i \in ThisRun'}
    BY <1>2, <1>6, <2>1, <2>2, <2>3 DEF name
  <2> QED
    BY <2>4 DEF Reported
<1>10. Kept'
  <2>1. DOMAIN artifacts' = DOMAIN created' /\ DOMAIN artifacts' \subseteq AddrName
    BY <1>5, <1>6 DEF DeployInv, Kept
  <2>2. \A k \in 1..Len(order') :
          k < step' \/ (k = step' /\ dpc' = "wait") => NameOf[order'[k]] \in DOMAIN artifacts'
    BY <1>1, <1>8
  <2> QED
    BY <1>1, <1>7, <1>9, <2>1, <2>2 DEF Kept
<1> QED
  BY <1>2, <1>10

(* The run goes on to the next member.                                       *)
LEMMA WaitedStep ==
  ASSUME DeployInv, UNCHANGED topoVars, WaitOk
  PROVE  OnChain' /\ Kept'
<1>1. /\ dpc = "wait" /\ dpc' = "gas" /\ step' = step + 1 /\ order' = order
      /\ UNCHANGED <<published, artifacts, created, runs, ended>>
      /\ step \in Nat /\ order \in Seq(Member)
  BY SameTopo DEF WaitOk, chain, DeployInv, Place, TopoInv, TopoTypeOK
<1>2. OnChain'
  BY <1>1 DEF DeployInv, OnChain, LinkedWithinRun, OncePerRun
<1>3. Kept'
  <2>1. Kept /\ Len(order) \in Nat
    BY <1>1 DEF DeployInv
  <2>2. Reported'
    BY <1>1, <2>1 DEF Kept, Reported, ThisRun
  <2>3. \A k \in 1..Len(order) : k < step' => NameOf[order[k]] \in DOMAIN artifacts
    BY <1>1, <2>1 DEF Kept
  <2> QED
    BY <1>1, <2>1, <2>2, <2>3 DEF Kept
<1> QED
  BY <1>2, <1>3

(* Only a label that no member stands for can be missing.                    *)
LEMMA MissingStep ==
  ASSUME DeployInv, UNCHANGED topoVars, RunStart \/ RunStep \/ Index
  PROVE  MissingOnlyIfFiltered'
<1>1. UNCHANGED <<order, labels>> /\ \A n : Named(n)' = Named(n)
  BY SameTopo
<1>2. CASE SubmitMissing
  <2>1. dpc = "submit" /\ ~Complete(This) /\ step' = step
    BY <1>2 DEF SubmitMissing, End
  <2>2. PICK n \in labels[This] : n \notin DOMAIN artifacts /\ n \notin Pinned
    BY <2>1 DEF Complete, Resolved
  <2>3. step \in 1..Len(order) /\ Len(order) \in Nat
    BY <2>1 DEF DeployInv, Place, TopoInv, TopoTypeOK
  <2>4. Named(n) = {}
    <3> SUFFICES ASSUME Named(n) # {} PROVE FALSE
      OBVIOUS
    <3>1. PICK j \in 1..(step - 1) : NameOf[order[j]] = n
      BY <2>2, <2>3 DEF DeployInv, TopoInv, Order, This
    <3>2. j \in 1..Len(order) /\ j < step
      BY <2>3, <3>1
    <3> QED
      BY <2>1, <2>2, <3>1, <3>2 DEF DeployInv, Kept
  <2>5. This' = This /\ labels' = labels
    BY <1>1, <2>1 DEF This
  <2> QED
    BY <1>1, <2>2, <2>4, <2>5 DEF MissingOnlyIfFiltered
<1>3. CASE Index
  <2>1. UNCHANGED <<ended, step>>
    BY <1>3 DEF Index, run
  <2> QED
    BY <1>1, <2>1 DEF DeployInv, MissingOnlyIfFiltered, This
<1>4. CASE ApplyGas \/ SubmitOk \/ WaitOk
  <2>1. ended' = ended /\ ended # "missing"
    BY <1>4 DEF ApplyGas, SubmitOk, WaitOk, DeployInv, Place
  <2> QED
    BY <2>1 DEF MissingOnlyIfFiltered
<1>5. CASE RunStart \/ RunDone \/ OracleFails \/ SubmitStale \/ SubmitAborts
           \/ SubmitNotSent \/ SubmitNoAnswer \/ WaitFails
  <2>1. ended' # "missing"
    BY <1>5 DEF RunStart, RunDone, OracleFails, SubmitStale, SubmitAborts,
                SubmitNotSent, SubmitNoAnswer, WaitFails, End
  <2> QED
    BY <2>1 DEF MissingOnlyIfFiltered
<1> QED
  BY <1>2, <1>3, <1>4, <1>5 DEF RunStep

(* Nothing happens.                                                          *)
LEMMA StutterStep ==
  ASSUME DeployInv, UNCHANGED topoVars, UNCHANGED chain, UNCHANGED run
  PROVE  DeployInv'
<1>1. /\ TopoInv' /\ UNCHANGED <<order, spc, labels>> /\ \A n : Named(n)' = Named(n)
      /\ UNCHANGED <<coin, indexed, published, dpc, step, gas, artifacts, created, ended, runs>>
  BY SameTopo DEF chain, run
<1>2. Quiet
  BY <1>1 DEF Quiet
<1>3. OnChain' /\ Kept'
  BY <1>2, QuietStep
<1>4. Place' /\ CoinKnown'
  BY <1>1 DEF DeployInv, Place, CoinKnown
<1>5. MissingOnlyIfFiltered'
  BY <1>1 DEF DeployInv, MissingOnlyIfFiltered, This
<1> QED
  BY <1>1, <1>3, <1>4, <1>5 DEF DeployInv

(* Every step keeps the invariant.                                           *)
LEMMA DeployStep == DeployInv /\ [DeployNext]_deployVars => DeployInv'
<1> SUFFICES ASSUME DeployInv, [DeployNext]_deployVars PROVE DeployInv'
  OBVIOUS
<1>1. CASE TopoNext /\ UNCHANGED <<chain, run, faults>>
  BY <1>1, SortStep
<1>2. CASE (RunStart \/ RunStep \/ Index) /\ UNCHANGED topoVars
  <2>1. TopoInv' /\ Place' /\ CoinKnown' /\ MissingOnlyIfFiltered'
    BY <1>2, SameTopo, PlaceStep, MissingStep
  <2>2. OnChain' /\ Kept'
    <3>1. CASE RunStart
      BY <1>2, <3>1, StartStep
    <3>2. CASE SubmitNoAnswer
      BY <1>2, <3>2, LostStep
    <3>3. CASE SubmitOk
      BY <1>2, <3>3, OkStep
    <3>4. CASE WaitOk
      BY <1>2, <3>4, WaitedStep
    <3>5. CASE RunDone \/ ApplyGas \/ OracleFails \/ SubmitStale \/ SubmitMissing
               \/ SubmitAborts \/ SubmitNotSent \/ WaitFails \/ Index
      <4>1. Quiet
        BY <3>5 DEF Quiet, RunDone, ApplyGas, OracleFails, SubmitStale, SubmitMissing,
             SubmitAborts, SubmitNotSent, WaitFails, Index, End, chain, run, DeployInv, Place
      <4> QED
        BY <1>2, <4>1, QuietStep
    <3> QED
      BY <1>2, <3>1, <3>2, <3>3, <3>4, <3>5 DEF RunStep
  <2> QED
    BY <2>1, <2>2 DEF DeployInv
<1>3. CASE UNCHANGED deployVars
  BY <1>3, StutterStep DEF deployVars
<1> QED
  BY <1>1, <1>2, <1>3 DEF DeployNext

(* The inductive invariant of deploy_all, on top of that of the sort.        *)
THEOREM DeployIsSound == DeploySpec => []DeployInv
BY DeployStarts, DeployStep, PTL DEF DeploySpec

(* A package is linked to packages of its own run, published before it.      *)
THEOREM LinksStayInRun == DeploySpec => []LinkedWithinRun
<1>1. DeployInv => LinkedWithinRun
  BY DEF DeployInv, OnChain
<1> QED
  BY <1>1, DeployIsSound, PTL

(* A run publishes no member twice.                                          *)
THEOREM PublishedOnce == DeploySpec => []OncePerRun
<1>1. DeployInv => OncePerRun
  BY DEF DeployInv, OnChain
<1> QED
  BY <1>1, DeployIsSound, PTL

(* A publish fails for a missing dependency only where no member stands for  *)
(* the label: the order of the sort and the artifacts of the run together    *)
(* resolve every other one.                                                  *)
THEOREM OrderResolves == DeploySpec => []MissingOnlyIfFiltered
<1>1. DeployInv => MissingOnlyIfFiltered
  BY DEF DeployInv
<1> QED
  BY <1>1, DeployIsSound, PTL

(* Only the first publish of a later run can pay with an old version.        *)
THEOREM WaitKeepsGasFresh == DeploySpec => []StaleOnlyAtFirst
<1>1. DeployInv => StaleOnlyAtFirst
  BY DEF DeployInv, CoinKnown, StaleOnlyAtFirst
<1> QED
  BY <1>1, DeployIsSound, PTL

(* The partial artifacts are what the run published, unless an answer was    *)
(* lost.                                                                     *)
THEOREM ReportIsExact == DeploySpec => []PartialIsExact
<1>1. DeployInv => PartialIsExact
  BY DEF DeployInv, Kept, PartialIsExact
<1> QED
  BY <1>1, DeployIsSound, PTL

(* The types of deploy_all and of the sort.                                  *)
THEOREM DeployTypes == DeploySpec => []DeployTypeOK
<1>1. DeployInv => DeployTypeOK
  <2> SUFFICES ASSUME DeployInv PROVE DeployTypeOK
    OBVIOUS
  <2>1. TopoTypeOK /\ DOMAIN artifacts = DOMAIN created
    BY DEF DeployInv, TopoInv, Kept
  <2>2. dpc \in DeployPoints /\ ended \in Endings /\ indexed \in 1..coin
    BY DEF DeployInv, Place, CoinKnown
  <2>3. dpc # "idle" => step \in 1..(Len(order) + 1)
    BY <2>1 DEF DeployInv, Place, TopoTypeOK
  <2>4. \A i \in 1..Len(published) :
          /\ published[i].member \in Member
          /\ published[i].run \in 1..runs
          /\ \A n \in DOMAIN published[i].links :
               published[i].links[n] \in 1..Len(published)
    <3> SUFFICES ASSUME NEW i \in 1..Len(published) PROVE published[i].member \in Member
      BY DEF DeployInv, OnChain
    <3>1. published[i] \in Package
      BY DEF DeployInv, OnChain
    <3> QED
      BY <3>1 DEF Package
  <2> QED
    BY <2>1, <2>2, <2>3, <2>4 DEF DeployTypeOK
<1> QED
  BY <1>1, DeployIsSound, PTL
=============================================================================
