---- MODULE TaskGraphProofs ----
(***************************************************************************)
(* Proofs about TaskGraph, for every graph: what the constructor accepts is *)
(* acyclic, what it rejects with a path is not, and the topological order   *)
(* lists every task after everything it depends on.                         *)
(***************************************************************************)
EXTENDS TaskGraph, FiniteSetTheorems, FunctionTheorems, TLAPS

----
(***************************************************************************)
(* The depth-first search.  SearchInv says what the colors mean: gray is on *)
(* the stack, black is finished and everything below it, and what the stack *)
(* has looked at is black or is what it is looking at.                      *)
(***************************************************************************)

SearchTypes ==
    /\ deps \in Seq(Seq(Nat))
    /\ color \in [Tasks -> {"white", "gray", "black"}]
    /\ stack \in Seq(Frame)

GrayOnStack ==
    /\ \A t \in Tasks : color[t] = "gray" <=> t \in Nodes
    /\ \A i, j \in DOMAIN stack : stack[i].node = stack[j].node => i = j

Chained ==
    \A i \in 1..(Len(stack) - 1) :
        \E k \in DOMAIN deps[stack[i].node] : deps[stack[i].node][k] = stack[i + 1].node

\* Dependency k of the task in frame i is done with, or in the frame above.
Looked(i, k) ==
    \/ color[deps[stack[i].node][k]] = "black"
    \/ i < Len(stack) /\ deps[stack[i].node][k] = stack[i + 1].node

LookedAt ==
    \A i \in DOMAIN stack :
        \A k \in DOMAIN deps[stack[i].node] : k < stack[i].next => Looked(i, k)

BlackClosed ==
    /\ \A t \in Colored("black") : Deps(t) \subseteq Colored("black")
    /\ Acyclic(Colored("black"))

SearchInv ==
    /\ SearchTypes
    /\ phase \in Phases
    /\ phase \notin {"check", "rejected"} => Known
    /\ GrayOnStack
    /\ Chained
    /\ LookedAt
    /\ BlackClosed

LEMMA FrontOf ==
    ASSUME NEW S, NEW s \in Seq(S), NEW m \in Nat, m <= Len(s)
    PROVE  /\ SubSeq(s, 1, m) \in Seq(S) /\ Len(SubSeq(s, 1, m)) = m
           /\ \A i \in 1..m : SubSeq(s, 1, m)[i] = s[i]
<1> QED
  OBVIOUS

\* The stack, once there is one.
LEMMA StackFacts ==
    ASSUME SearchTypes, stack # <<>>
    PROVE  /\ Len(stack) \in Nat \ {0}
           /\ DOMAIN stack = 1..Len(stack)
           /\ Len(stack) \in DOMAIN stack
           /\ Top \in Frame
           /\ \A i \in DOMAIN stack : stack[i] \in Frame
<1> QED
  BY DEF SearchTypes, Top

LEMMA LookingFacts ==
    ASSUME SearchInv, Looking
    PROVE  /\ Top.next \in DOMAIN deps[Top.node]
           /\ Dep \in Tasks
           /\ Top.node \in Tasks
<1>1. Top \in Frame
  BY StackFacts DEF SearchInv, Looking
<1>2. deps[Top.node] \in Seq(Nat) /\ Top.node \in Tasks
  BY <1>1 DEF SearchInv, SearchTypes, Frame, Tasks
<1>3. Top.next \in DOMAIN deps[Top.node]
  BY <1>1, <1>2 DEF Looking, Frame
<1>4. Known
  BY DEF SearchInv, Looking, Phases
<1> QED
  BY <1>2, <1>3, <1>4 DEF Known, Deps, Dep

LEMMA InitSearch == Init => SearchInv
<1> SUFFICES ASSUME Init PROVE SearchInv
  OBVIOUS
<1>1. SearchTypes /\ phase \in Phases /\ phase = "check"
  BY GraphsAreLists DEF Init, SearchTypes, Phases
<1>2. Nodes = {} /\ DOMAIN stack = {} /\ Len(stack) = 0
  BY DEF Init, Nodes
<1>3. Colored("black") = {}
  BY DEF Init, Colored
<1> QED
  BY <1>1, <1>2, <1>3 DEF Init, SearchInv, GrayOnStack, Chained, LookedAt, BlackClosed, Acyclic

\* No step changes a dependency; acyclicity depends on nothing else.
LEMMA AcyclicStays ==
    ASSUME deps' = deps, NEW S, Acyclic(S)
    PROVE  \A C \in SUBSET S : C # {} => \E t \in C : Deps(t)' \cap C = {}
<1>1. ASSUME NEW t PROVE Deps(t)' = Deps(t)
  BY DEF Deps
<1> QED
  BY <1>1 DEF Acyclic

LEMMA BlackUnchanged ==
    ASSUME BlackClosed, deps' = deps, Colored("black")' = Colored("black")
    PROVE  BlackClosed'
<1>1. Acyclic(Colored("black"))'
  BY AcyclicStays DEF BlackClosed, Acyclic
<1>2. ASSUME NEW t PROVE Deps(t)' = Deps(t)
  BY DEF Deps
<1> QED
  BY <1>1, <1>2 DEF BlackClosed

\* Leaving a task keeps the black tasks closed and acyclic: all it depends on
\* is black, and no black task depends on it.
LEMMA BlackGrows ==
    ASSUME BlackClosed, NEW n \in Tasks, n \notin Colored("black"),
           Deps(n) \subseteq Colored("black"), Colored("black")' = Colored("black") \union {n},
           deps' = deps
    PROVE  BlackClosed'
<1>1. \A t \in Colored("black")' : Deps(t)' \subseteq Colored("black")'
  BY DEF BlackClosed, Deps
<1>2. ASSUME NEW C \in SUBSET (Colored("black") \union {n}), C # {}
      PROVE  \E t \in C : Deps(t) \cap C = {}
  <2> DEFINE B == C \ {n}
  <2>1. B \subseteq Colored("black")
    OBVIOUS
  <2>2. CASE B = {}
    BY <1>2, <2>2
  <2>3. CASE B # {}
    <3>1. PICK t \in B : Deps(t) \cap B = {}
      BY <2>1, <2>3 DEF BlackClosed, Acyclic
    <3>2. n \notin Deps(t)
      BY <2>1 DEF BlackClosed
    <3> QED
      BY <3>1, <3>2
  <2> QED
    BY <2>2, <2>3
<1>3. Acyclic(Colored("black"))'
  <2>1. Acyclic(Colored("black") \union {n})
    BY <1>2 DEF Acyclic
  <2> QED
    BY <2>1, AcyclicStays DEF Acyclic
<1> QED
  BY <1>1, <1>3 DEF BlackClosed

LEMMA RootSearch == SearchInv /\ Root => SearchInv'
<1> SUFFICES ASSUME SearchInv, Root PROVE SearchInv'
  OBVIOUS
<1>1. PICK t \in Colored("white") :
          /\ color' = [color EXCEPT ![t] = "gray"]
          /\ stack' = <<[node |-> t, next |-> 1]>>
  BY DEF Root
<1>2. t \in Tasks /\ color[t] = "white" /\ deps' = deps /\ phase' = phase /\ phase = "search"
  BY DEF Root, Colored
<1>3. SearchTypes'
  BY <1>1, <1>2 DEF SearchInv, SearchTypes, Frame, Tasks
<1>4. DOMAIN stack' = {1} /\ Len(stack') = 1 /\ stack'[1] = [node |-> t, next |-> 1] /\ Nodes' = {t}
  BY <1>1 DEF Nodes
<1>5. Nodes = {}
  BY DEF Root, Nodes
<1>6. GrayOnStack'
  BY <1>1, <1>2, <1>4, <1>5 DEF SearchInv, SearchTypes, GrayOnStack, Tasks
<1>7. Chained' /\ LookedAt'
  <2>1. \A i \in DOMAIN stack' : stack'[i].next = 1
    BY <1>4
  <2>2. \A k \in DOMAIN deps[t] : ~(k < 1)
    BY <1>2 DEF SearchInv, SearchTypes, Tasks
  <2> QED
    BY <1>2, <1>4, <2>1, <2>2 DEF Chained, LookedAt
<1>8. BlackClosed'
  <2>1. Colored("black")' = Colored("black")
    BY <1>1, <1>2 DEF Colored, SearchInv, SearchTypes, Tasks
  <2> QED
    BY <1>2, <2>1, BlackUnchanged DEF SearchInv
<1> QED
  BY <1>2, <1>3, <1>6, <1>7, <1>8 DEF SearchInv, Known, Deps, Tasks

\* A step that leaves colors and stack alone leaves the search as it was.
LEMMA SearchUnchanged ==
    ASSUME SearchInv, deps' = deps, color' = color, stack' = stack, phase' \in Phases,
           phase' \notin {"check", "rejected"} => Known
    PROVE  SearchInv'
<1>1. Colored("black")' = Colored("black")
  BY DEF Colored, Tasks
<1>2. BlackClosed'
  BY <1>1, BlackUnchanged DEF SearchInv
<1>3. SearchTypes'
  BY DEF SearchInv, SearchTypes, Tasks, Frame
<1>4. GrayOnStack'
  BY DEF SearchInv, GrayOnStack, Tasks, Nodes
<1>5. Chained' /\ LookedAt'
  BY DEF SearchInv, Chained, LookedAt, Looked, Deps
<1>6. Known => Known'
  BY DEF Known, Deps, Tasks
<1> QED
  BY <1>2, <1>3, <1>4, <1>5, <1>6 DEF SearchInv

\* Moving on at the top changes the next dependency there and nothing else.
LEMMA AdvanceShape ==
    ASSUME SearchInv, Looking
    PROVE  /\ Advance \in Seq(Frame) /\ Len(Advance) = Len(stack)
           /\ \A i \in 1..Len(stack) : Advance[i].node = stack[i].node
           /\ \A i \in 1..Len(stack) : i # Len(stack) => Advance[i] = stack[i]
           /\ Advance[Len(stack)].next = Top.next + 1
<1> DEFINE L == Len(stack)
<1>1. [Top EXCEPT !.next = @ + 1] \in Frame /\ Top \in Frame /\ Top = stack[L]
  BY StackFacts DEF SearchInv, Looking, Frame, Top
<1>2. Advance = [stack EXCEPT ![L] = [Top EXCEPT !.next = @ + 1]]
  BY DEF Advance, Top
<1>3. stack \in Seq(Frame) /\ L \in Nat \ {0} /\ DOMAIN stack = 1..L
  BY StackFacts DEF SearchInv, SearchTypes, Looking
<1>4. Advance \in Seq(Frame) /\ Len(Advance) = L /\ \A i \in 1..L : i # L => Advance[i] = stack[i]
  BY <1>1, <1>2, <1>3
<1>5. Advance[L] = [Top EXCEPT !.next = @ + 1]
  BY <1>2, <1>3
<1>6. Advance[L].node = stack[L].node /\ Advance[L].next = Top.next + 1
  BY <1>1, <1>5 DEF Frame
<1> QED
  BY <1>4, <1>6

LEMMA AdvanceFacts ==
    ASSUME SearchInv, Looking, stack' = Advance
    PROVE  /\ stack' \in Seq(Frame)
           /\ Len(stack') = Len(stack) /\ DOMAIN stack' = DOMAIN stack
           /\ \A i \in DOMAIN stack : stack'[i].node = stack[i].node
           /\ \A i \in DOMAIN stack : i # Len(stack) => stack'[i] = stack[i]
           /\ stack'[Len(stack)].next = Top.next + 1
           /\ Nodes' = Nodes
<1>1. DOMAIN stack = 1..Len(stack)
  BY StackFacts DEF SearchInv, Looking
<1>2. DOMAIN stack' = DOMAIN stack
  <2>1. stack' \in Seq(Frame) /\ Len(stack') = Len(stack)
    BY AdvanceShape
  <2>2. DOMAIN stack' = 1..Len(stack')
    BY <2>1
  <2> QED
    BY <1>1, <2>1, <2>2
<1>3. Nodes' = Nodes
  BY <1>1, <1>2, AdvanceShape DEF Nodes
<1> QED
  BY <1>1, <1>2, <1>3, AdvanceShape

LEMMA SkipSearch == SearchInv /\ Skip => SearchInv'
<1> SUFFICES ASSUME SearchInv, Skip PROVE SearchInv'
  OBVIOUS
<1> USE DEF Skip
<1>1. Looking /\ color[Dep] = "black" /\ deps' = deps /\ color' = color /\ phase' = phase /\ stack' = Advance
  OBVIOUS
<1>2. SearchTypes' /\ GrayOnStack' /\ Chained'
  <2>1. SearchTypes'
    BY <1>1, AdvanceFacts DEF SearchInv, SearchTypes, Tasks, Frame
  <2>2. GrayOnStack'
    BY <1>1, AdvanceFacts DEF SearchInv, GrayOnStack, Tasks
  <2>3. Chained'
    <3>1. DOMAIN stack = 1..Len(stack) /\ Len(stack) \in Nat
      BY <1>1, StackFacts DEF SearchInv, Looking
    <3>2. Len(stack') = Len(stack) /\ \A i \in 1..Len(stack) : stack'[i].node = stack[i].node
      BY <1>1, <3>1, AdvanceFacts
    <3>3. ASSUME NEW i \in 1..(Len(stack) - 1) PROVE i \in 1..Len(stack) /\ i + 1 \in 1..Len(stack)
      <4>1. Len(stack) \in Nat
        BY <3>1
      <4> QED
        BY <4>1
    <3> QED
      BY <1>1, <3>2, <3>3 DEF SearchInv, Chained
  <2> QED
    BY <2>1, <2>2, <2>3
<1>3. LookedAt'
  <2> SUFFICES ASSUME NEW i \in DOMAIN stack, NEW k \in DOMAIN deps[stack[i].node], k < stack'[i].next
               PROVE  Looked(i, k)'
    BY <1>1, AdvanceFacts DEF LookedAt
  <2>1. CASE k < stack[i].next
    BY <1>1, <2>1, AdvanceFacts, StackFacts DEF SearchInv, LookedAt, Looked, Looking
  <2>2. CASE ~(k < stack[i].next)
    <3>1. i = Len(stack) /\ k = Top.next
      <4>1. i = Len(stack)
        BY <1>1, <2>2, AdvanceFacts
      <4>2. k < Top.next + 1 /\ ~(k < Top.next)
        BY <1>1, <2>2, <4>1, AdvanceFacts DEF Top
      <4>3. k \in Nat /\ Top.next \in Nat
        BY <1>1, <4>1, StackFacts DEF SearchInv, SearchTypes, Looking, Frame, Tasks, Top
      <4> QED
        BY <4>1, <4>2, <4>3
    <3>2. deps'[stack'[i].node][k] = Dep
      BY <1>1, <3>1, AdvanceFacts DEF Dep, Top
    <3> QED
      BY <1>1, <3>2 DEF Looked
  <2> QED
    BY <2>1, <2>2
<1>4. BlackClosed'
  <2>1. Colored("black")' = Colored("black")
    BY <1>1 DEF Colored, Tasks
  <2> QED
    BY <1>1, <2>1, BlackUnchanged DEF SearchInv
<1> QED
  BY <1>1, <1>2, <1>3, <1>4 DEF SearchInv, Known, Deps, Tasks

LEMMA EnterSearch == SearchInv /\ Enter => SearchInv'
<1> SUFFICES ASSUME SearchInv, Enter PROVE SearchInv'
  OBVIOUS
<1> DEFINE L == Len(stack)
           new == [node |-> Dep, next |-> 1]
<1>1. /\ Looking /\ color[Dep] = "white" /\ deps' = deps /\ phase' = phase
      /\ color' = [color EXCEPT ![Dep] = "gray"] /\ stack' = Append(Advance, new)
  BY DEF Enter
<1>2. Dep \in Tasks /\ Top.next \in DOMAIN deps[Top.node]
  BY <1>1, LookingFacts
<1>0. L \in Nat /\ L >= 1
  BY <1>1, StackFacts DEF SearchInv, Looking
<1>3. DOMAIN stack = 1..L /\ \A i \in 1..L : stack[i] \in Frame
  BY <1>1, StackFacts DEF SearchInv, Looking
<1>4. /\ Advance \in Seq(Frame) /\ Len(Advance) = L
      /\ \A i \in 1..L : Advance[i].node = stack[i].node
      /\ \A i \in 1..L : i # L => Advance[i] = stack[i]
      /\ Advance[L].next = Top.next + 1
  BY <1>1, AdvanceShape
<1>5. /\ stack' \in Seq(Frame) /\ Len(stack') = L + 1 /\ DOMAIN stack' = 1..(L + 1)
      /\ stack'[L + 1] = new
      /\ \A i \in 1..L : stack'[i] = Advance[i]
  <2>1. new \in Frame
    BY <1>2 DEF Frame
  <2>2. Advance \in Seq(Frame) /\ Len(Advance) = L
    BY <1>4
  <2>3. stack' = Append(Advance, new)
    BY <1>1
  <2>4. stack' \in Seq(Frame) /\ Len(stack') = L + 1 /\ stack'[L + 1] = new
    BY <2>1, <2>2, <2>3
  <2>5. \A i \in 1..L : stack'[i] = Advance[i]
    BY <2>1, <2>2, <2>3
  <2>6. DOMAIN stack' = 1..(L + 1)
    BY <2>4
  <2> QED
    BY <2>4, <2>5, <2>6
<1>6. Nodes' = Nodes \union {Dep}
  <2>1. \A i \in 1..L : stack'[i].node = stack[i].node
    BY <1>4, <1>5
  <2>2. stack'[L + 1].node = Dep
    BY <1>5
  <2>3. Nodes' = {stack'[i].node : i \in 1..(L + 1)} /\ Nodes = {stack[i].node : i \in 1..L}
    BY <1>3, <1>5 DEF Nodes
  <2>4. 1..(L + 1) = (1..L) \union {L + 1}
    BY <1>0
  <2> QED
    BY <2>1, <2>2, <2>3, <2>4
<1>7. SearchTypes'
  BY <1>1, <1>5 DEF SearchInv, SearchTypes, Tasks, Frame
<1>8. GrayOnStack'
  <2>1. \A t \in Tasks : color'[t] = "gray" <=> t \in Nodes'
    BY <1>1, <1>2, <1>6 DEF SearchInv, SearchTypes, GrayOnStack
  <2>2. Dep \notin Nodes
    BY <1>1, <1>2 DEF SearchInv, GrayOnStack
  <2>3. \A i \in 1..L : stack'[i].node = stack[i].node /\ stack[i].node # Dep
    BY <1>3, <1>4, <1>5, <2>2 DEF Nodes
  <2>4. \A i, j \in 1..L : stack[i].node = stack[j].node => i = j
    BY <1>3 DEF SearchInv, GrayOnStack
  <2>5. ASSUME NEW i \in DOMAIN stack', NEW j \in DOMAIN stack', stack'[i].node = stack'[j].node
        PROVE  i = j
    <3>0. i \in 1..(L + 1) /\ j \in 1..(L + 1)
      BY <1>5
    <3>1. i \in 1..L \/ i = L + 1
      BY <1>0, <3>0
    <3>2. j \in 1..L \/ j = L + 1
      BY <1>0, <3>0
    <3>3. stack'[L + 1].node = Dep
      BY <1>5
    <3> QED
      BY <2>3, <2>4, <2>5, <3>1, <3>2, <3>3
  <2> QED
    BY <1>1, <2>1, <2>5 DEF GrayOnStack, Tasks
<1>9. Chained'
  <2> SUFFICES ASSUME NEW i \in 1..L
               PROVE  \E k \in DOMAIN deps[stack'[i].node] : deps[stack'[i].node][k] = stack'[i + 1].node
    <3>1. (L + 1) - 1 = L
      BY <1>0
    <3> QED
      BY <1>1, <1>5, <3>1 DEF Chained
  <2>1. stack'[i].node = stack[i].node
    BY <1>4, <1>5
  <2>2. CASE i = L
    <3>1. stack'[i + 1].node = Dep
      BY <1>5, <2>2
    <3>2. stack'[i].node = Top.node
      BY <2>1, <2>2 DEF Top
    <3> QED
      BY <1>2, <3>1, <3>2 DEF Dep
  <2>3. CASE i # L
    <3>1. i \in 1..(L - 1) /\ i + 1 \in 1..L
      BY <1>0, <2>3
    <3>2. stack'[i + 1].node = stack[i + 1].node
      BY <1>4, <1>5, <3>1
    <3> QED
      BY <2>1, <3>1, <3>2 DEF SearchInv, Chained
  <2> QED
    BY <2>2, <2>3
<1>10. LookedAt'
  <2> SUFFICES ASSUME NEW i \in 1..(L + 1), NEW k \in DOMAIN deps[stack'[i].node], k < stack'[i].next
               PROVE  Looked(i, k)'
    BY <1>1, <1>5 DEF LookedAt
  <2>1. ASSUME NEW t \in Nat, color[t] = "black" PROVE color'[t] = "black"
    BY <1>1, <2>1 DEF SearchInv, SearchTypes
  <2>2. CASE i = L + 1
    <3>1. k < 1
      BY <1>5, <2>2
    <3>2. k \in DOMAIN deps[Dep]
      BY <1>5, <2>2
    <3>3. deps[Dep] \in Seq(Nat)
      BY <1>2 DEF SearchInv, SearchTypes, Tasks
    <3>4. DOMAIN deps[Dep] = 1..Len(deps[Dep]) /\ Len(deps[Dep]) \in Nat
      BY <3>3
    <3> QED
      BY <3>1, <3>2, <3>4
  <2>3. CASE i \in 1..L
    <3>1. stack'[i].node = stack[i].node /\ stack'[i] = Advance[i]
      BY <1>4, <1>5, <2>3
    <3>2. CASE k < stack[i].next
      <4>1. Looked(i, k)
        BY <1>3, <2>3, <3>1, <3>2 DEF SearchInv, LookedAt
      <4>2. CASE color[deps[stack[i].node][k]] = "black"
        <5>1. deps[stack[i].node][k] # Dep
          BY <1>1, <4>2
        <5>2. color'[deps[stack[i].node][k]] = "black"
          BY <1>1, <4>2, <5>1 DEF SearchInv, SearchTypes
        <5> QED
          BY <1>1, <3>1, <5>2 DEF Looked
      <4>3. CASE i < L /\ deps[stack[i].node][k] = stack[i + 1].node
        <5>1. i + 1 \in 1..L /\ i < L + 1
          BY <1>0, <2>3, <4>3
        <5>2. stack'[i + 1].node = stack[i + 1].node
          BY <1>4, <1>5, <5>1
        <5>3. deps'[stack'[i].node][k] = stack'[i + 1].node /\ i < Len(stack')
          BY <1>1, <1>5, <3>1, <4>3, <5>1, <5>2
        <5> QED
          BY <5>3 DEF Looked
      <4> QED
        BY <4>1, <4>2, <4>3 DEF Looked
    <3>3. CASE ~(k < stack[i].next)
      <4>1. i = L
        BY <1>4, <2>3, <3>1, <3>3
      <4>2. k \in Nat /\ Top.next \in Nat /\ k < Top.next + 1 /\ ~(k < Top.next)
        <5>1. stack[i].node \in Tasks /\ stack[i].next \in Nat
          BY <1>3, <2>3 DEF Frame
        <5>4. deps[stack[i].node] \in Seq(Nat)
          BY <5>1 DEF SearchInv, SearchTypes, Tasks
        <5>2. DOMAIN deps[stack[i].node] \subseteq Nat
          BY <5>4
        <5>3. k \in DOMAIN deps[stack[i].node]
          BY <3>1
        <5> QED
          BY <1>4, <3>1, <3>3, <4>1, <5>1, <5>2, <5>3 DEF Top
      <4>3. k = Top.next
        BY <4>2
      <4>4. deps'[stack'[i].node][k] = Dep
        BY <1>1, <3>1, <4>1, <4>3 DEF Dep, Top
      <4>5. stack'[i + 1].node = Dep /\ i < Len(stack')
        BY <1>0, <1>5, <4>1
      <4> QED
        BY <4>4, <4>5 DEF Looked
    <3> QED
      BY <3>2, <3>3
  <2> QED
    BY <1>0, <2>2, <2>3
<1>11. BlackClosed'
  <2>1. Colored("black")' = Colored("black")
    BY <1>1, <1>2 DEF SearchInv, SearchTypes, Colored, Tasks
  <2> QED
    BY <1>1, <2>1, BlackUnchanged DEF SearchInv
<1> QED
  BY <1>1, <1>7, <1>8, <1>9, <1>10, <1>11 DEF SearchInv, Known, Deps, Tasks

LEMMA LeaveSearch == SearchInv /\ Leave => SearchInv'
<1> SUFFICES ASSUME SearchInv, Leave PROVE SearchInv'
  OBVIOUS
<1> DEFINE L == Len(stack)
           n == Top.node
<1>1. /\ stack # <<>> /\ Top.next > Len(deps[n]) /\ deps' = deps /\ phase' = phase
      /\ color' = [color EXCEPT ![n] = "black"] /\ stack' = Pop
  BY DEF Leave
<1>0. L \in Nat /\ L >= 1
  BY <1>1, StackFacts DEF SearchInv
<1>2. DOMAIN stack = 1..L /\ (\A i \in 1..L : stack[i] \in Frame) /\ Top = stack[L]
  BY <1>1, StackFacts DEF SearchInv, Top
<1>3. n \in Tasks /\ n \in Nodes /\ color[n] = "gray" /\ Top.next \in Nat
  <2>1. L \in 1..L
    BY <1>0
  <2>2. n \in Tasks /\ Top.next \in Nat
    BY <1>2, <2>1 DEF Frame
  <2>3. n \in Nodes
    BY <1>2, <2>1 DEF Nodes
  <2> QED
    BY <2>2, <2>3 DEF SearchInv, GrayOnStack
<1>4. /\ stack' \in Seq(Frame) /\ Len(stack') = L - 1 /\ DOMAIN stack' = 1..(L - 1)
      /\ \A i \in 1..(L - 1) : stack'[i] = stack[i] /\ i \in 1..L /\ i + 1 \in 1..L /\ i # L
  <2>1. stack \in Seq(Frame)
    BY DEF SearchInv, SearchTypes
  <2>2. stack' = SubSeq(stack, 1, L - 1)
    BY <1>1 DEF Pop
  <2>7. L - 1 \in Nat /\ L - 1 <= L /\ (L - 1) - 1 + 1 = L - 1
    BY <1>0
  <2>3. stack' \in Seq(Frame) /\ Len(stack') = L - 1
    BY <2>1, <2>2, <2>7, FrontOf
  <2>4. \A i \in 1..(L - 1) : stack'[i] = stack[i]
    BY <2>1, <2>2, <2>7, FrontOf
  <2>5. \A i \in 1..(L - 1) : i \in 1..L /\ i + 1 \in 1..L /\ i # L
    BY <1>0
  <2>6. DOMAIN stack' = 1..(L - 1)
    BY <2>3
  <2> QED
    BY <2>3, <2>4, <2>5, <2>6
<1>5. Deps(n) \subseteq Colored("black")
  <2> SUFFICES ASSUME NEW k \in DOMAIN deps[n] PROVE deps[n][k] \in Colored("black")
    BY DEF Deps
  <2>1. k < Top.next
    <3>1. deps[n] \in Seq(Nat)
      BY <1>3 DEF SearchInv, SearchTypes, Tasks
    <3>2. k \in 1..Len(deps[n]) /\ Len(deps[n]) \in Nat
      BY <3>1
    <3> QED
      BY <1>1, <1>3, <3>2
  <2>2. Looked(L, k)
    <3>1. L \in DOMAIN stack
      BY <1>0, <1>2
    <3> QED
      BY <1>2, <2>1, <3>1 DEF SearchInv, LookedAt
  <2>3. color[deps[n][k]] = "black"
    <3>1. ~(L < L)
      BY <1>0
    <3> QED
      BY <1>2, <2>2, <3>1 DEF Looked
  <2>4. deps[n][k] \in Tasks
    BY <1>3 DEF Leave, SearchInv, Known, Deps
  <2> QED
    BY <2>3, <2>4 DEF Colored
<1>6. Nodes' = Nodes \ {n}
  <2>1. Nodes' = {stack[i].node : i \in 1..(L - 1)}
    BY <1>4 DEF Nodes
  <2>2. Nodes = {stack[i].node : i \in 1..L}
    BY <1>2 DEF Nodes
  <2>3. 1..L = (1..(L - 1)) \union {L}
    BY <1>0
  <2>4. ASSUME NEW i \in 1..(L - 1) PROVE stack[i].node # n
    <3>0. i \in 1..L /\ L \in 1..L /\ i # L
      BY <1>0
    <3>1. i \in DOMAIN stack /\ L \in DOMAIN stack /\ i # L
      BY <1>2, <3>0
    <3> QED
      BY <1>2, <3>1 DEF SearchInv, GrayOnStack
  <2> QED
    BY <1>2, <2>1, <2>2, <2>3, <2>4
<1>7. SearchTypes'
  BY <1>1, <1>4 DEF SearchInv, SearchTypes, Tasks, Frame
<1>8. GrayOnStack'
  <2>1. \A t \in Tasks : color'[t] = "gray" <=> t \in Nodes'
    BY <1>1, <1>3, <1>6 DEF SearchInv, SearchTypes, GrayOnStack
  <2>2. \A i, j \in 1..(L - 1) : stack[i].node = stack[j].node => i = j
    BY <1>2, <1>4 DEF SearchInv, GrayOnStack
  <2>3. \A i, j \in DOMAIN stack' : stack'[i].node = stack'[j].node => i = j
    BY <1>4, <2>2
  <2> QED
    BY <1>1, <2>1, <2>3 DEF GrayOnStack, Tasks
<1>9. Chained'
  <2> SUFFICES ASSUME NEW i \in 1..(L - 1 - 1)
               PROVE  \E k \in DOMAIN deps[stack'[i].node] : deps[stack'[i].node][k] = stack'[i + 1].node
    BY <1>1, <1>4 DEF Chained
  <2>1. i \in 1..(L - 1) /\ i + 1 \in 1..(L - 1)
    BY <1>0
  <2>2. stack'[i] = stack[i] /\ stack'[i + 1] = stack[i + 1]
    BY <1>4, <2>1
  <2> QED
    BY <2>1, <2>2 DEF SearchInv, Chained
<1>10. LookedAt'
  <2> SUFFICES ASSUME NEW i \in 1..(L - 1), NEW k \in DOMAIN deps[stack[i].node], k < stack[i].next
               PROVE  Looked(i, k)'
    BY <1>1, <1>4 DEF LookedAt
  <2>1. Looked(i, k)
    BY <1>2, <1>4 DEF SearchInv, LookedAt
  <2>2. CASE color[deps[stack[i].node][k]] = "black"
    <3>1. color'[deps[stack[i].node][k]] = "black"
      BY <1>1, <1>3, <2>2 DEF SearchInv, SearchTypes
    <3> QED
      BY <1>1, <1>4, <3>1 DEF Looked
  <2>3. CASE i < L /\ deps[stack[i].node][k] = stack[i + 1].node
    <3>1. CASE i = L - 1
      <4>0. i + 1 = L
        BY <1>0, <3>1
      <4>1. deps[stack[i].node][k] = n
        BY <1>2, <2>3, <4>0
      <4> QED
        BY <1>1, <1>3, <1>4, <4>1 DEF Looked, SearchInv, SearchTypes
    <3>2. CASE i # L - 1
      <4>1. i + 1 \in 1..(L - 1) /\ i < L - 1
        BY <1>0, <3>2
      <4>2. stack'[i] = stack[i] /\ stack'[i + 1] = stack[i + 1] /\ i < Len(stack')
        BY <1>4, <4>1
      <4> QED
        BY <1>1, <2>3, <4>2 DEF Looked
    <3> QED
      BY <3>1, <3>2
  <2> QED
    BY <2>1, <2>2, <2>3 DEF Looked
<1>11. BlackClosed'
  <2>1. Colored("black")' = Colored("black") \union {n} /\ n \notin Colored("black")
    BY <1>1, <1>3 DEF SearchInv, SearchTypes, Colored, Tasks
  <2> QED
    BY <1>1, <1>3, <1>5, <2>1, BlackGrows DEF SearchInv
<1> QED
  BY <1>1, <1>7, <1>8, <1>9, <1>10, <1>11 DEF SearchInv, Known, Deps, Tasks

LEMMA SearchStays == SearchInv /\ [Next]_vars => SearchInv'
<1> SUFFICES ASSUME SearchInv, [Next]_vars PROVE SearchInv'
  OBVIOUS
<1>1. CASE Check
  BY <1>1, SearchUnchanged DEF Check, Phases
<1>2. CASE Root \/ Enter \/ Skip \/ Leave
  BY <1>2, RootSearch, EnterSearch, SkipSearch, LeaveSearch
<1>3. CASE Found \/ Accept \/ Prepare \/ Take \/ Finish \/ UNCHANGED vars
  <2>1. deps' = deps /\ color' = color /\ stack' = stack
    BY <1>3 DEF Found, Accept, Prepare, Take, Finish, vars
  <2>2. phase' \in Phases /\ (phase' \notin {"check", "rejected"} => Known)
    BY <1>3 DEF Found, Looking, Accept, Prepare, Take, Finish, vars, Phases, SearchInv
  <2> QED
    BY <2>1, <2>2, SearchUnchanged
<1> QED
  BY <1>1, <1>2, <1>3 DEF Next, Searching, Sorting

----
(* What the search decides. *)

LEMMA AcceptedStays == SearchInv /\ AcceptedRightly /\ [Next]_vars => AcceptedRightly'
<1> SUFFICES ASSUME SearchInv, AcceptedRightly, [Next]_vars,
                    phase' \in {"accepted", "sort", "sorted", "stuck"}
             PROVE  (Known /\ Acyclic(Tasks))'
  BY DEF AcceptedRightly
<1>1. Known /\ Acyclic(Tasks)
  <2>1. CASE Accept
    <3>1. Nodes = {}
      BY <2>1 DEF Accept, Nodes
    <3>2. Colored("black") = Tasks
      BY <2>1, <3>1 DEF Accept, SearchInv, SearchTypes, GrayOnStack, Colored
    <3> QED
      BY <2>1, <3>2 DEF Accept, SearchInv, BlackClosed, Phases
  <2>2. CASE ~Accept
    BY <2>2 DEF AcceptedRightly, Next, Check, Searching, Root, Enter, Skip, Found, Leave,
                Sorting, Prepare, Take, Finish, vars, Looking
  <2> QED
    BY <2>1, <2>2
<1>2. deps' = deps
  BY DEF Next, Check, Searching, Root, Enter, Skip, Found, Leave, Accept, Sorting, Prepare, Take, Finish, vars
<1>3. Known' /\ Tasks' = Tasks
  BY <1>1, <1>2 DEF Known, Deps, Tasks
<1>4. Acyclic(Tasks)'
  BY <1>1, <1>2, <1>3, AcyclicStays DEF Acyclic
<1> QED
  BY <1>3, <1>4

\* The constructor accepts only graphs without a cycle.
THEOREM AcceptedIsAcyclic == Spec => []AcceptedRightly
<1>1. Init => SearchInv /\ AcceptedRightly
  BY InitSearch DEF Init, AcceptedRightly
<1>2. SearchInv /\ AcceptedRightly /\ [Next]_vars => (SearchInv /\ AcceptedRightly)'
  BY SearchStays, AcceptedStays
<1> QED
  BY <1>1, <1>2, PTL DEF Spec

----
(***************************************************************************)
(* What the search reports: the stack, read from the top down to the gray   *)
(* dependency, is a cycle, or the top depends on itself.                    *)
(***************************************************************************)

LEMMA Concatenated ==
    ASSUME NEW S, NEW a \in Seq(S), NEW c \in Seq(S)
    PROVE  /\ Len(a \o c) = Len(a) + Len(c)
           /\ \A i \in 1..(Len(a) + Len(c)) : i > Len(a) => (a \o c)[i] = c[i - Len(a)]
<1>1. Len(a \o c) = Len(a) + Len(c)
  OBVIOUS
<1>2. \A i \in 1..(Len(a) + Len(c)) : i > Len(a) => (a \o c)[i] = c[i - Len(a)]
  OBVIOUS
<1> QED
  BY <1>1, <1>2

LEMMA Joined ==
    ASSUME NEW S, NEW a \in Seq(S), NEW m \in Nat, Len(a) = m, NEW c \in Seq(S), Len(c) = 1
    PROVE  /\ Len(a \o c) = m + 1 /\ (a \o c)[m + 1] = c[1]
           /\ \A i \in 1..m : (a \o c)[i] = a[i]
<1>0. /\ Len(a \o c) = Len(a) + Len(c)
      /\ \A i \in 1..(Len(a) + Len(c)) : i > Len(a) => (a \o c)[i] = c[i - Len(a)]
  BY Concatenated
<1>1. Len(a \o c) = m + 1
  BY <1>0
<1>2. \A i \in 1..m : (a \o c)[i] = a[i]
  OBVIOUS
<1>3. m + 1 \in 1..(Len(a) + Len(c)) /\ m + 1 > Len(a) /\ (m + 1) - Len(a) = 1
  OBVIOUS
<1>4. (a \o c)[m + 1] = c[(m + 1) - Len(a)]
  BY <1>0, <1>3
<1> QED
  BY <1>1, <1>2, <1>3, <1>4

LEMMA Remaining ==
    ASSUME NEW L \in Nat, NEW p \in 1..L, p # L
    PROVE  L - p \in Nat /\ p + (L - p) = L /\ L - p >= 1
<1> QED
  OBVIOUS

LEMMA Framed ==
    ASSUME NEW S, NEW d \in S, NEW b \in Seq(S), NEW n \in Nat, Len(b) = n
    PROVE  /\ Len(<<d>> \o b \o <<d>>) = n + 2
           /\ (<<d>> \o b \o <<d>>)[1] = d /\ (<<d>> \o b \o <<d>>)[n + 2] = d
           /\ \A i \in 2..(n + 1) : (<<d>> \o b \o <<d>>)[i] = b[i - 1]
<1> DEFINE a == <<d>> \o b
           c == <<d>>
<1>1. a \in Seq(S) /\ Len(a) = n + 1 /\ c \in Seq(S) /\ Len(c) = 1 /\ c[1] = d
  OBVIOUS
<1>2. a[1] = d /\ \A i \in 2..(n + 1) : a[i] = b[i - 1]
  OBVIOUS
<1>3. <<d>> \o b \o <<d>> = a \o c
  OBVIOUS
<1> HIDE DEF a, c
<1>4. Len(a \o c) = n + 2 /\ (\A i \in 1..(n + 1) : (a \o c)[i] = a[i]) /\ (a \o c)[n + 2] = d
  <2>1. n + 1 \in Nat /\ (n + 1) + 1 = n + 2
    OBVIOUS
  <2> QED
    BY <1>1, <2>1, Joined
<1>5. 1 \in 1..(n + 1) /\ \A i \in 2..(n + 1) : i \in 1..(n + 1)
  OBVIOUS
<1> QED
  BY <1>2, <1>3, <1>4, <1>5

\* The path of a gray dependency that is below the top of the stack.
LEMMA PathCloses ==
    ASSUME SearchInv, Looking, NEW L \in Nat, L = Len(stack),
           NEW p \in Nat, NEW n \in Nat, p >= 1, n >= 1, p + n = L, stack[p].node = Dep
    PROVE  Closed(Path(Dep))
<1> DEFINE d == Dep
           b == [i \in 1..n |-> stack[L + 1 - i].node]
<1>1. DOMAIN stack = 1..L /\ Top = stack[L] /\ \A i \in 1..L : stack[i] \in Frame
  BY StackFacts DEF SearchInv, Looking, Top
<1>2. /\ p \in 1..L /\ p # L /\ p \in 1..(L - 1) /\ \A j \in 1..(L - 1) : j \in 1..L
      /\ L - (p + 1) + 1 = n /\ \A i \in 1..n : L + 1 - i \in 1..L
  OBVIOUS
<1>3. {j \in 1..(L - 1) : stack[j].node = d} = {p}
  <2>1. \A j \in 1..(L - 1) : stack[j].node = d => j = p
    BY <1>1, <1>2 DEF SearchInv, GrayOnStack
  <2> QED
    BY <1>2, <2>1
<1>4. Path(Dep) = <<d>> \o b \o <<d>>
  <2>1. (CHOOSE j \in {p} : TRUE) = p /\ {p} # {}
    OBVIOUS
  <2>2. Len(stack) = L
    OBVIOUS
  <2> QED
    BY <1>2, <1>3, <2>1, <2>2 DEF Path
<1>5. b \in Seq(Tasks) /\ Len(b) = n /\ d \in Tasks
  <2>1. \A i \in 1..n : stack[L + 1 - i].node \in Tasks
    BY <1>1, <1>2 DEF Frame
  <2>2. b \in [1..n -> Tasks] /\ DOMAIN b = 1..n
    BY <2>1
  <2>3. b \in Seq(Tasks) /\ Len(b) = n
    BY <2>2
  <2> QED
    BY <2>3, LookingFacts
<1> DEFINE q == <<d>> \o b \o <<d>>
<1>6. Len(q) = n + 2 /\ q[1] = d /\ q[n + 2] = d /\ \A i \in 2..(n + 1) : q[i] = b[i - 1]
  <2> HIDE DEF b, d
  <2> QED
    BY <1>5, Framed
<1>7. \A i \in 2..(n + 1) : q[i] = stack[L + 2 - i].node
  <2>1. \A i \in 2..(n + 1) : i - 1 \in 1..n /\ L + 1 - (i - 1) = L + 2 - i
    OBVIOUS
  <2>2. \A i \in 1..n : b[i] = stack[L + 1 - i].node
    OBVIOUS
  <2> HIDE DEF b, q
  <2> QED
    BY <1>6, <2>1, <2>2
<1> HIDE DEF q
<1>8. ASSUME NEW i \in 1..(n + 1) PROVE q[i] \in Deps(q[i + 1])
  <2>1. CASE i = 1
    <3>1. i + 1 \in 2..(n + 1) /\ L + 2 - (i + 1) = L
      BY <2>1
    <3>2. q[i + 1] = Top.node
      BY <1>1, <1>7, <3>1
    <3>3. Dep \in Deps(Top.node)
      BY LookingFacts DEF Dep, Deps
    <3> QED
      BY <1>6, <2>1, <3>2, <3>3
  <2>2. CASE i # 1
    <3>1. PICK k \in Int : k = L + 1 - i
      OBVIOUS
    <3>2. i \in 2..(n + 1) /\ k \in 1..(L - 1) /\ L + 2 - i = k + 1
      BY <2>2, <3>1
    <3>3. stack[k + 1].node \in Deps(stack[k].node)
      <4>1. k \in 1..(Len(stack) - 1)
        BY <3>2
      <4> QED
        BY <4>1 DEF SearchInv, Chained, Deps
    <3>4. q[i] = stack[k + 1].node
      BY <1>7, <3>2
    <3>5. q[i + 1] = stack[k].node
      <4>1. CASE i = n + 1
        <5>1. k = p /\ i + 1 = n + 2
          BY <3>1, <4>1
        <5> QED
          BY <1>6, <5>1
      <4>2. CASE i # n + 1
        <5>1. i + 1 \in 2..(n + 1) /\ L + 2 - (i + 1) = k
          BY <3>1, <4>2
        <5> QED
          BY <1>7, <5>1
      <4> QED
        BY <4>1, <4>2
    <3> QED
      BY <3>3, <3>4, <3>5
  <2> QED
    BY <2>1, <2>2
<1>9. Closed(q)
  <2>1. Len(q) - 1 = n + 1
    BY <1>6
  <2> QED
    BY <1>6, <1>8, <2>1 DEF Closed
<1> QED
  BY <1>4, <1>9 DEF q

\* A path starts with the dependency that was gray.
LEMMA PathStarts ==
    ASSUME SearchInv, Looking
    PROVE  Path(Dep)[1] = Dep
<1>1. ASSUME NEW S, NEW d \in S, NEW m \in Nat, NEW b \in [1..m -> S]
      PROVE  (<<d>> \o b \o <<d>>)[1] = d
  <2>1. b \in Seq(S) /\ Len(b) = m
    BY <1>1
  <2> QED
    BY <2>1, Framed
<1> DEFINE L == Len(stack)
           below == {j \in 1..(L - 1) : stack[j].node = Dep}
           lowest == IF below = {} THEN 1 ELSE (CHOOSE j \in below : TRUE) + 1
           b == [i \in 1..(L - lowest + 1) |-> stack[L + 1 - i].node]
<1>2. L \in Nat /\ L >= 1 /\ \A i \in 1..L : stack[i].node \in Tasks
  BY StackFacts DEF SearchInv, Looking, Frame
<1>3. lowest \in 1..L
  <2>1. CASE below = {}
    BY <1>2, <2>1
  <2>2. CASE below # {}
    <3>1. (CHOOSE j \in below : TRUE) \in below
      BY <2>2
    <3>2. (CHOOSE j \in below : TRUE) \in 1..(L - 1)
      BY <3>1
    <3> HIDE DEF below
    <3> QED
      BY <1>2, <2>2, <3>2
  <2> QED
    BY <2>1, <2>2
<1> HIDE DEF lowest, L
<1>4. L - lowest + 1 \in Nat /\ \A i \in 1..(L - lowest + 1) : L + 1 - i \in 1..L
  BY <1>2, <1>3
<1>5. b \in [1..(L - lowest + 1) -> Tasks]
  BY <1>2, <1>4
<1>6. Path(Dep) = <<Dep>> \o b \o <<Dep>>
  BY DEF Path, L, lowest
<1> HIDE DEF b
<1> QED
  BY <1>1, <1>4, <1>5, <1>6, LookingFacts

LEMMA RejectedStays == SearchInv /\ RejectedRightly /\ [Next]_vars => RejectedRightly'
<1> SUFFICES ASSUME SearchInv, RejectedRightly, [Next]_vars PROVE RejectedRightly'
  OBVIOUS
<1>1. CASE Found
  <2>1. Looking /\ color[Dep] = "gray" /\ report' = Path(Dep) /\ deps' = deps
    BY <1>1 DEF Found
  <2>2. Len(stack) \in Nat /\ Len(stack) >= 1 /\ DOMAIN stack = 1..Len(stack) /\ Top = stack[Len(stack)]
    BY <2>1, StackFacts DEF SearchInv, Looking, Top
  <2>3. Dep \in Tasks /\ Dep \in Deps(Top.node)
    BY <2>1, LookingFacts DEF Dep, Deps
  <2>4. PICK p \in 1..Len(stack) : stack[p].node = Dep
    BY <2>1, <2>2, <2>3 DEF SearchInv, GrayOnStack, Nodes
  <2>5. CASE p = Len(stack)
    <3>1. Dep \in Deps(Dep)
      BY <2>2, <2>3, <2>4, <2>5
    <3>2. Path(Dep)[1] = Dep
      BY <2>1, PathStarts
    <3>3. report'[1] = Dep /\ Dep \in {deps'[Dep][k] : k \in DOMAIN deps'[Dep]}
      BY <2>1, <3>1, <3>2 DEF Deps
    <3> QED
      BY <3>3 DEF RejectedRightly, Deps
  <2>6. CASE p # Len(stack)
    <3>1. PICK n \in Nat : p + n = Len(stack) /\ n >= 1
      <4>1. Len(stack) - p \in Nat /\ p + (Len(stack) - p) = Len(stack) /\ Len(stack) - p >= 1
        BY <2>2, <2>6, Remaining
      <4> QED
        BY <4>1
    <3>2. p \in Nat /\ p >= 1
      BY <2>2, <2>4
    <3>3. Closed(Path(Dep))
      BY <2>1, <2>2, <2>4, <3>1, <3>2, PathCloses
    <3>4. Closed(report)'
      BY <2>1, <3>3 DEF Closed, Deps
    <3> QED
      BY <3>4 DEF RejectedRightly
  <2> QED
    BY <2>5, <2>6
<1>2. CASE ~Found
  <2>1. report' = report /\ deps' = deps
    BY <1>2 DEF Next, Check, Searching, Root, Enter, Skip, Leave, Accept, Sorting, Prepare, Take, Finish, vars
  <2> QED
    BY <2>1 DEF RejectedRightly, Closed, Deps
<1> QED
  BY <1>1, <1>2

\* The constructor reports a path only for graphs with a cycle: the path is
\* one, or starts with a task that depends on itself.
THEOREM RejectedIsCyclic == Spec => []RejectedRightly
<1>1. Init => SearchInv /\ RejectedRightly
  BY InitSearch DEF Init, RejectedRightly
<1>2. SearchInv /\ RejectedRightly /\ [Next]_vars => (SearchInv /\ RejectedRightly)'
  BY SearchStays, RejectedStays
<1> QED
  BY <1>1, <1>2, PTL DEF Spec

\* Both directions: the constructor accepts exactly what can be executed.
THEOREM ValidationIsRight == Spec => []ValidatedRightly
<1>1. ValidatedRightly <=> AcceptedRightly /\ RejectedRightly
  BY DEF ValidatedRightly
<1> QED
  BY <1>1, AcceptedIsAcyclic, RejectedIsCyclic, PTL

----
(***************************************************************************)
(* The topological order, for every graph: it lists every task once and     *)
(* after everything the task depends on.                                    *)
(***************************************************************************)

(* Sequences without repetition, and InOrder. *)

Injective(s) == \A i, j \in DOMAIN s : s[i] = s[j] => i = j

LEMMA OnAppend ==
    ASSUME NEW S, NEW s \in Seq(S), NEW e \in S
    PROVE  /\ Append(s, e) \in Seq(S) /\ Len(Append(s, e)) = Len(s) + 1
           /\ \A i \in 1..Len(s) : Append(s, e)[i] = s[i]
           /\ Append(s, e)[Len(s) + 1] = e
           /\ On(Append(s, e)) = On(s) \union {e}
           /\ Injective(s) /\ e \notin On(s) => Injective(Append(s, e))
<1> DEFINE a == Append(s, e)
           n == Len(s)
<1>1. n \in Nat /\ DOMAIN s = 1..n /\ DOMAIN a = 1..(n + 1)
  OBVIOUS
<1>2. a \in Seq(S) /\ Len(a) = n + 1 /\ (\A i \in 1..n : a[i] = s[i]) /\ a[n + 1] = e
  OBVIOUS
<1>3. 1..(n + 1) = (1..n) \union {n + 1}
  BY <1>1
<1> HIDE DEF a, n
<1>4. On(a) = On(s) \union {e}
  BY <1>1, <1>2, <1>3 DEF On
<1>5. ASSUME Injective(s), e \notin On(s) PROVE Injective(a)
  <2>1. \A i \in 1..n : a[i] # e
    BY <1>1, <1>2, <1>5 DEF On
  <2>2. \A i, j \in 1..n : a[i] = a[j] => i = j
    BY <1>1, <1>2, <1>5 DEF Injective
  <2> QED
    BY <1>1, <1>2, <1>3, <2>1, <2>2 DEF Injective
<1> QED
  BY <1>2, <1>4, <1>5 DEF a, n

LEMMA OnTail ==
    ASSUME NEW S, NEW s \in Seq(S), s # <<>>, Injective(s)
    PROVE  /\ Head(s) \in On(s) /\ Head(s) \in S
           /\ Tail(s) \in Seq(S)
           /\ On(Tail(s)) = On(s) \ {Head(s)}
           /\ Injective(Tail(s))
<1> DEFINE a == Tail(s)
           n == Len(s)
<1>1. n \in Nat /\ n >= 1 /\ DOMAIN s = 1..n /\ DOMAIN a = 1..(n - 1)
  OBVIOUS
<1>2. a \in Seq(S) /\ (\A i \in 1..(n - 1) : a[i] = s[i + 1]) /\ Head(s) = s[1] /\ Head(s) \in S
  OBVIOUS
<1>3. /\ 1 \in 1..n /\ \A i \in 1..(n - 1) : i + 1 \in 1..n /\ i + 1 # 1
      /\ \A i, j \in 1..(n - 1) : i + 1 = j + 1 => i = j
      /\ \A j \in 1..n : j # 1 => j - 1 \in 1..(n - 1) /\ (j - 1) + 1 = j
  BY <1>1
<1> HIDE DEF a, n
<1>6. \A i, j \in 1..n : s[i] = s[j] => i = j
  BY <1>1 DEF Injective
<1>4. Injective(a)
  <2> SUFFICES ASSUME NEW i \in 1..(n - 1), NEW j \in 1..(n - 1), a[i] = a[j] PROVE i = j
    BY <1>1 DEF Injective
  <2>1. i + 1 \in 1..n /\ j + 1 \in 1..n /\ s[i + 1] = s[j + 1]
    BY <1>2, <1>3
  <2>2. i + 1 = j + 1
    BY <1>6, <2>1
  <2> QED
    BY <1>3, <2>2
<1>5. On(a) = On(s) \ {Head(s)}
  <2>1. ASSUME NEW i \in 1..(n - 1) PROVE a[i] \in On(s) /\ a[i] # Head(s)
    <3>1. i + 1 \in 1..n /\ i + 1 # 1 /\ a[i] = s[i + 1]
      BY <1>2, <1>3
    <3>2. s[i + 1] # s[1]
      BY <1>3, <1>6, <3>1
    <3> QED
      BY <1>1, <1>2, <3>1, <3>2 DEF On
  <2>2. ASSUME NEW j \in 1..n, s[j] # Head(s) PROVE s[j] \in On(a)
    <3>0. j # 1
      BY <1>2, <2>2
    <3>1. j - 1 \in 1..(n - 1) /\ a[j - 1] = s[j]
      BY <1>2, <1>3, <3>0
    <3> QED
      BY <1>1, <3>1 DEF On
  <2> QED
    BY <1>1, <2>1, <2>2 DEF On
<1>7. Head(s) \in On(s)
  BY <1>1, <1>2, <1>3 DEF On
<1> QED
  BY <1>2, <1>4, <1>5, <1>7 DEF a

LEMMA OnConcat ==
    ASSUME NEW S, NEW s \in Seq(S), NEW t \in Seq(S)
    PROVE  /\ s \o t \in Seq(S)
           /\ On(s \o t) = On(s) \union On(t)
           /\ Injective(s) /\ Injective(t) /\ On(s) \cap On(t) = {} => Injective(s \o t)
<1> DEFINE a == s \o t
           m == Len(s)
           n == Len(t)
<1>1. m \in Nat /\ n \in Nat /\ DOMAIN s = 1..m /\ DOMAIN t = 1..n /\ DOMAIN a = 1..(m + n)
  OBVIOUS
<1>2. a \in Seq(S) /\ (\A i \in 1..m : a[i] = s[i]) /\ (\A i \in 1..(m + n) : i > m => a[i] = t[i - m])
  OBVIOUS
<1>3. /\ \A i \in 1..(m + n) : i \in 1..m \/ (i > m /\ i - m \in 1..n)
      /\ \A i \in 1..m : i \in 1..(m + n)
      /\ \A i \in 1..n : i + m \in 1..(m + n) /\ i + m > m /\ (i + m) - m = i
      /\ \A i, j \in 1..(m + n) : i - m = j - m => i = j
  BY <1>1
<1> HIDE DEF a, m, n
<1>4. On(a) = On(s) \union On(t)
  <2>1. ASSUME NEW i \in 1..(m + n) PROVE a[i] \in On(s) \union On(t)
    <3>1. CASE i \in 1..m
      BY <1>1, <1>2, <3>1 DEF On
    <3>2. CASE i > m /\ i - m \in 1..n
      <4>1. a[i] = t[i - m]
        BY <1>2, <3>2
      <4> QED
        BY <1>1, <3>2, <4>1 DEF On
    <3> QED
      BY <1>3, <3>1, <3>2
  <2>2. ASSUME NEW i \in 1..m PROVE s[i] \in On(a)
    <3>1. a[i] = s[i] /\ i \in 1..(m + n)
      BY <1>2, <1>3
    <3> QED
      BY <1>1, <3>1 DEF On
  <2>3. ASSUME NEW i \in 1..n PROVE t[i] \in On(a)
    <3>1. a[i + m] = t[i] /\ i + m \in 1..(m + n)
      BY <1>2, <1>3
    <3> QED
      BY <1>1, <3>1 DEF On
  <2> QED
    BY <1>1, <2>1, <2>2, <2>3 DEF On
<1>5. ASSUME Injective(s), Injective(t), On(s) \cap On(t) = {} PROVE Injective(a)
  <2> SUFFICES ASSUME NEW i \in 1..(m + n), NEW j \in 1..(m + n), a[i] = a[j] PROVE i = j
    BY <1>1 DEF Injective
  <2>1. CASE i \in 1..m /\ j \in 1..m
    BY <1>1, <1>2, <1>5, <2>1 DEF Injective
  <2>2. CASE i > m /\ i - m \in 1..n /\ j > m /\ j - m \in 1..n
    <3>1. a[i] = t[i - m] /\ a[j] = t[j - m]
      BY <1>2, <2>2
    <3>2. i - m = j - m
      BY <1>1, <1>5, <2>2, <3>1 DEF Injective
    <3> QED
      BY <1>3, <3>2
  <2>3. CASE i \in 1..m /\ j > m /\ j - m \in 1..n
    <3>1. a[i] = s[i] /\ a[j] = t[j - m]
      BY <1>2, <2>3
    <3>2. a[i] \in On(s) /\ a[j] \in On(t)
      BY <1>1, <2>3, <3>1 DEF On
    <3> QED
      BY <1>5, <3>2
  <2>4. CASE j \in 1..m /\ i > m /\ i - m \in 1..n
    <3>1. a[j] = s[j] /\ a[i] = t[i - m]
      BY <1>2, <2>4
    <3>2. a[j] \in On(s) /\ a[i] \in On(t)
      BY <1>1, <2>4, <3>1 DEF On
    <3> QED
      BY <1>5, <3>2
  <2> QED
    BY <1>3, <2>1, <2>2, <2>3, <2>4
<1> QED
  BY <1>2, <1>4, <1>5 DEF a, m, n

\* A member's place is its own, and every place is somebody's.
LEMMA PlaceFacts ==
    ASSUME NEW S \in SUBSET Nat, IsFiniteSet(S)
    PROVE  /\ Cardinality(S) \in Nat
           /\ \A t \in S : Place(t, S) \in 1..Cardinality(S)
           /\ \A t, u \in S : Place(t, S) = Place(u, S) => t = u
           /\ \A i \in 1..Cardinality(S) : \E t \in S : Place(t, S) = i
<1> DEFINE upto(t) == {u \in S : u <= t}
           c == Cardinality(S)
           f == [t \in S |-> Place(t, S)]
<1>1. c \in Nat
  BY FS_CardinalityType
<1>2. ASSUME NEW t \in S PROVE IsFiniteSet(upto(t)) /\ Cardinality(upto(t)) \in Nat /\ Cardinality(upto(t)) <= c
  <2>1. upto(t) \in SUBSET S
    OBVIOUS
  <2>2. IsFiniteSet(upto(t)) /\ Cardinality(upto(t)) <= c
    BY <2>1, FS_Subset
  <2> QED
    BY <2>2, FS_CardinalityType
<1>3. ASSUME NEW t \in S PROVE Place(t, S) \in 1..c
  <2>1. t \in upto(t)
    OBVIOUS
  <2>2. Cardinality(upto(t)) # 0
    BY <1>2, <2>1, FS_EmptySet
  <2>3. Cardinality(upto(t)) \in 1..c
    BY <1>1, <1>2, <2>2
  <2> QED
    BY <2>3 DEF Place
<1>4. ASSUME NEW t \in S, NEW u \in S, t < u PROVE Place(t, S) # Place(u, S)
  <2>0. t \in Nat /\ u \in Nat
    OBVIOUS
  <2>5. ~(u <= t) /\ \A w \in S : w <= t => w <= u
    BY <1>4, <2>0
  <2>6. u <= u
    BY <2>0
  <2>1. u \notin upto(t) /\ upto(t) \union {u} \in SUBSET upto(u)
    BY <2>5, <2>6
  <2>2. Cardinality(upto(t) \union {u}) = Cardinality(upto(t)) + 1
    BY <1>2, <2>1, FS_AddElement
  <2>3. Cardinality(upto(t) \union {u}) <= Cardinality(upto(u))
    BY <1>2, <2>1, FS_Subset
  <2>4. Cardinality(upto(t)) + 1 <= Cardinality(upto(u))
    BY <2>2, <2>3
  <2>7. Cardinality(upto(t)) # Cardinality(upto(u))
    BY <1>2, <2>4
  <2> QED
    BY <2>7 DEF Place
<1>5. \A t, u \in S : Place(t, S) = Place(u, S) => t = u
  <2> SUFFICES ASSUME NEW t \in S, NEW u \in S, t # u PROVE Place(t, S) # Place(u, S)
    OBVIOUS
  <2>1. t < u \/ u < t
    OBVIOUS
  <2> QED
    BY <1>4, <2>1
<1>6. \A i \in 1..c : \E t \in S : Place(t, S) = i
  <2>1. f \in [S -> 1..c]
    BY <1>3
  <2>2. \A a, b \in S : f[a] = f[b] => a = b
    BY <1>5
  <2>3. f \in Injection(S, 1..c)
    BY <2>1, <2>2, Fun_IsInj
  <2>4. IsFiniteSet(1..c) /\ Cardinality(1..c) = c
    <3>1. 1 \in Int /\ c \in Int
      BY <1>1
    <3>2. IsFiniteSet(1..c) /\ Cardinality(1..c) = IF 1 > c THEN 0 ELSE c - 1 + 1
      BY <3>1, FS_Interval
    <3> QED
      BY <1>1, <3>2
  <2>5. f \in Surjection(S, 1..c)
    BY <2>3, <2>4, FS_Injection
  <2>6. \A i \in 1..c : \E t \in S : f[t] = i
    BY <2>5 DEF Surjection
  <2> QED
    BY <2>6
<1> QED
  BY <1>1, <1>3, <1>5, <1>6

LEMMA InOrderFacts ==
    ASSUME NEW S \in SUBSET Nat, IsFiniteSet(S)
    PROVE  /\ InOrder(S) \in Seq(S)
           /\ On(InOrder(S)) = S
           /\ Injective(InOrder(S))
<1> DEFINE c == Cardinality(S)
           q == InOrder(S)
<1>1. c \in Nat /\ DOMAIN q = 1..c
  BY PlaceFacts DEF InOrder
<1>2. \A i \in 1..c : q[i] \in S /\ Place(q[i], S) = i
  BY PlaceFacts DEF InOrder
<1>3. q \in Seq(S)
  <2>1. q \in [1..c -> S]
    <3>1. q = [i \in 1..c |-> CHOOSE t \in S : Place(t, S) = i]
      BY DEF InOrder
    <3> QED
      BY <1>2, <3>1
  <2> QED
    BY <1>1, <2>1
<1>4. On(q) = S
  <2>1. On(q) \subseteq S
    BY <1>1, <1>2 DEF On
  <2>2. ASSUME NEW t \in S PROVE t \in On(q)
    <3>1. Place(t, S) \in 1..c
      BY PlaceFacts
    <3>2. Place(q[Place(t, S)], S) = Place(t, S) /\ q[Place(t, S)] \in S
      BY <1>2, <3>1
    <3>3. q[Place(t, S)] = t
      BY <3>2, PlaceFacts
    <3> QED
      BY <1>1, <3>1, <3>3 DEF On
  <2> QED
    BY <2>1, <2>2
<1>5. Injective(q)
  BY <1>1, <1>2 DEF Injective
<1> QED
  BY <1>3, <1>4, <1>5

----
(***************************************************************************)
(* Kahn's algorithm.  SortInv counts: in_degree of a task is the number of  *)
(* its dependencies, repetitions included, that are not placed yet; it is   *)
(* zero for the tasks placed or queued and for no others.                   *)
(***************************************************************************)

Missing(t) == {i \in DOMAIN deps[t] : deps[t][i] \notin On(result)}

Counted ==
    /\ \A t \in Tasks : degree[t] = Cardinality(Missing(t))
    /\ \A t \in Tasks : degree[t] = 0 <=> t \in On(result) \union On(queue)
    /\ On(result) \cap On(queue) = {}
    /\ Injective(queue)

SortTypes ==
    /\ deps \in Seq(Seq(Nat))
    /\ phase \in Phases
    /\ degree \in [Tasks -> Nat]
    /\ queue \in Seq(Tasks)
    /\ result \in Seq(Tasks)

SortInv ==
    /\ SortTypes
    /\ phase \in {"sort", "sorted"} => Counted
    /\ phase \notin {"sort", "sorted"} => result = <<>>
    /\ OrderRespected
    /\ NeverStuck

\* What a task depends on, as a sequence.
LEMMA DepsFacts ==
    ASSUME SortTypes, NEW t \in Tasks
    PROVE  /\ DOMAIN deps[t] = 1..Len(deps[t]) /\ Len(deps[t]) \in Nat
           /\ IsFiniteSet(DOMAIN deps[t]) /\ Cardinality(DOMAIN deps[t]) = Len(deps[t])
<1>1. deps[t] \in Seq(Nat)
  BY DEF SortTypes, Tasks
<1>2. DOMAIN deps[t] = 1..Len(deps[t]) /\ Len(deps[t]) \in Nat
  BY <1>1
<1>3. Len(deps[t]) \in Int /\ 1 \in Int
  BY <1>2
<1>4. /\ IsFiniteSet(1..Len(deps[t]))
      /\ Cardinality(1..Len(deps[t])) = IF 1 > Len(deps[t]) THEN 0 ELSE Len(deps[t]) - 1 + 1
  BY <1>3, FS_Interval
<1> QED
  BY <1>2, <1>4

LEMMA TasksFinite ==
    ASSUME SortTypes
    PROVE  Tasks \in SUBSET Nat /\ IsFiniteSet(Tasks) /\ Cardinality(Tasks) = Len(deps)
<1>1. Tasks = 1..Len(deps) /\ Len(deps) \in Nat
  BY DEF SortTypes, Tasks
<1>2. Len(deps) \in Int /\ 1 \in Int
  BY <1>1
<1>3. IsFiniteSet(1..Len(deps)) /\ Cardinality(1..Len(deps)) = IF 1 > Len(deps) THEN 0 ELSE Len(deps) - 1 + 1
  BY <1>2, FS_Interval
<1> QED
  BY <1>1, <1>3

LEMMA InitSort == Init => SortInv
<1> SUFFICES ASSUME Init PROVE SortInv
  OBVIOUS
<1>1. SortTypes /\ phase = "check" /\ result = <<>> /\ DOMAIN result = {}
  BY GraphsAreLists DEF Init, SortTypes, Phases
<1> QED
  BY <1>1 DEF SortInv, OrderRespected, NeverStuck

LEMMA PrepareSorts == SortInv /\ Prepare => SortInv'
<1> SUFFICES ASSUME SortInv, Prepare PROVE SortInv'
  OBVIOUS
<1> DEFINE Free == {t \in Tasks : Len(deps[t]) = 0}
<1>1. /\ deps' = deps /\ result' = result /\ phase' = "sort" /\ phase = "accepted"
      /\ degree' = [t \in Tasks |-> Len(deps[t])] /\ queue' = InOrder(Free)
  BY DEF Prepare
<1>2. SortTypes /\ result = <<>> /\ On(result) = {}
  BY <1>1 DEF SortInv, On
<1>3. Free \in SUBSET Nat /\ IsFiniteSet(Free)
  BY <1>2, TasksFinite, FS_Subset
<1>4. InOrder(Free) \in Seq(Free) /\ On(InOrder(Free)) = Free /\ Injective(InOrder(Free))
  BY <1>3, InOrderFacts
<1>5. SortTypes'
  <2>1. queue' \in Seq(Tasks)
    BY <1>1, <1>4
  <2>2. degree' \in [Tasks -> Nat]
    BY <1>1, <1>2, DepsFacts
  <2> QED
    BY <1>1, <1>2, <2>1, <2>2 DEF SortTypes, Tasks, Phases
<1>6. Counted'
  <2>1. \A t \in Tasks : {i \in DOMAIN deps[t] : deps[t][i] \notin On(result)} = DOMAIN deps[t]
    BY <1>2
  <2>2. On(result)' = On(result) /\ On(queue)' = Free
    BY <1>1, <1>4 DEF On
  <2>3. \A t \in Tasks : Missing(t)' = DOMAIN deps[t]
    BY <1>1, <2>1, <2>2 DEF Missing
  <2>4. \A t \in Tasks : degree'[t] = Cardinality(DOMAIN deps[t])
    BY <1>1, <1>2, DepsFacts
  <2>5. \A t \in Tasks : degree'[t] = 0 <=> t \in Free
    BY <1>1
  <2> QED
    BY <1>1, <1>2, <1>4, <2>2, <2>3, <2>4, <2>5 DEF Counted, Tasks, Injective
<1>7. OrderRespected' /\ NeverStuck'
  BY <1>1, <1>2 DEF OrderRespected, NeverStuck
<1> QED
  BY <1>1, <1>5, <1>6, <1>7 DEF SortInv

LEMMA TakeSorts == SortInv /\ Take => SortInv'
<1> SUFFICES ASSUME SortInv, Take PROVE SortInv'
  OBVIOUS
<1> DEFINE h == Head(queue)
           New == {t \in Tasks : degree[t] > 0 /\ degree'[t] = 0}
           L == Len(result)
<1>1. /\ phase = "sort" /\ queue # <<>> /\ deps' = deps /\ phase' = phase
      /\ result' = Append(result, h)
      /\ degree' = [t \in Tasks |-> degree[t] - Times(h, t)]
      /\ queue' = Tail(queue) \o InOrder(New)
  BY DEF Take
<1>2. SortTypes /\ Counted
  BY <1>1 DEF SortInv
<1>3. /\ h \in Tasks /\ h \in On(queue) /\ Tail(queue) \in Seq(Tasks)
      /\ On(Tail(queue)) = On(queue) \ {h} /\ Injective(Tail(queue))
  BY <1>1, <1>2, OnTail DEF SortTypes, Counted
<1>4. h \notin On(result) /\ degree[h] = 0
  BY <1>2, <1>3 DEF Counted
<1>5. Injective(result)
  BY DEF SortInv, OrderRespected, Injective
<1>6. /\ Append(result, h) \in Seq(Tasks) /\ Len(Append(result, h)) = L + 1
      /\ \A i \in 1..L : Append(result, h)[i] = result[i]
      /\ Append(result, h)[L + 1] = h
      /\ On(Append(result, h)) = On(result) \union {h}
      /\ Injective(Append(result, h))
  BY <1>2, <1>3, <1>4, <1>5, OnAppend DEF SortTypes
<1>7. On(result)' = On(result) \union {h}
  BY <1>1, <1>6 DEF On
<1>8. ASSUME NEW t \in Tasks
      PROVE  /\ degree'[t] = Cardinality(Missing(t)') /\ degree'[t] \in Nat /\ degree'[t] <= degree[t]
  <2> DEFINE Off == {i \in DOMAIN deps[t] : deps[t][i] = h}
  <2>1. IsFiniteSet(Missing(t)) /\ Off \subseteq Missing(t)
    <3>1. Missing(t) \in SUBSET DOMAIN deps[t]
      BY DEF Missing
    <3> QED
      BY <1>2, <1>4, <3>1, DepsFacts, FS_Subset DEF Missing
  <2>2. Missing(t)' = Missing(t) \ Off
    BY <1>1, <1>7 DEF Missing
  <2>3. /\ Cardinality(Missing(t) \ Off) = Cardinality(Missing(t)) - Cardinality(Missing(t) \cap Off)
        /\ IsFiniteSet(Missing(t) \ Off)
    BY <2>1, FS_Difference
  <2>4. Missing(t) \cap Off = Off
    BY <2>1
  <2>5. degree'[t] = degree[t] - Cardinality(Off)
    BY <1>1 DEF Times
  <2>6. degree'[t] = Cardinality(Missing(t)')
    BY <1>2, <2>2, <2>3, <2>4, <2>5 DEF Counted
  <2>7. Cardinality(Missing(t)') \in Nat /\ Cardinality(Off) \in Nat /\ degree[t] \in Nat
    <3>1. IsFiniteSet(Off)
      BY <2>1, FS_Subset
    <3> QED
      BY <1>2, <2>2, <2>3, <3>1, FS_CardinalityType DEF SortTypes
  <2>8. degree'[t] <= degree[t]
    BY <2>5, <2>7
  <2> QED
    BY <2>6, <2>7, <2>8
<1>9. New \in SUBSET Tasks /\ New \in SUBSET Nat /\ IsFiniteSet(New)
  <2>1. New \in SUBSET Tasks
    OBVIOUS
  <2> QED
    BY <1>2, <2>1, TasksFinite, FS_Subset
<1>10. InOrder(New) \in Seq(Tasks) /\ On(InOrder(New)) = New /\ Injective(InOrder(New))
  <2>1. InOrder(New) \in Seq(New)
    BY <1>9, InOrderFacts
  <2>2. InOrder(New) \in Seq(Tasks)
    BY <1>9, <2>1
  <2> QED
    BY <1>9, <2>2, InOrderFacts
<1> HIDE DEF New
<1>11. \A t \in New : t \in Tasks /\ degree[t] > 0 /\ degree'[t] = 0
  BY DEF New
<1>12. New \cap On(queue) = {} /\ New \cap On(result) = {}
  <2> SUFFICES ASSUME NEW t \in New PROVE t \notin On(queue) /\ t \notin On(result)
    OBVIOUS
  <2>1. t \in Tasks /\ degree[t] > 0
    BY <1>11
  <2>2. degree[t] # 0
    BY <1>2, <2>1 DEF SortTypes
  <2> QED
    BY <1>2, <2>1, <2>2 DEF Counted
<1>13. /\ queue' \in Seq(Tasks) /\ Injective(queue)'
       /\ On(queue)' = (On(queue) \ {h}) \union New
  <2>1. On(Tail(queue)) \cap On(InOrder(New)) = {}
    BY <1>3, <1>10, <1>12
  <2>2. ASSUME NEW a \in Seq(Tasks), NEW b \in Seq(Tasks),
               Injective(a), Injective(b), On(a) \cap On(b) = {}
        PROVE  a \o b \in Seq(Tasks) /\ On(a \o b) = On(a) \union On(b) /\ Injective(a \o b)
    BY <2>2, OnConcat
  <2> DEFINE a == Tail(queue)
             b == InOrder(New)
  <2>3. a \in Seq(Tasks) /\ b \in Seq(Tasks) /\ Injective(a) /\ Injective(b) /\ On(a) \cap On(b) = {}
    BY <1>3, <1>10, <2>1
  <2>4. queue' = a \o b
    BY <1>1
  <2>5. On(a) = On(queue) \ {h} /\ On(b) = New
    BY <1>3, <1>10
  <2> HIDE DEF a, b, h
  <2>6. a \o b \in Seq(Tasks) /\ On(a \o b) = On(a) \union On(b) /\ Injective(a \o b)
    BY <2>2, <2>3
  <2>7. queue' \in Seq(Tasks) /\ On(queue') = (On(queue) \ {h}) \union New /\ Injective(queue')
    BY <2>4, <2>5, <2>6
  <2> QED
    BY <2>7 DEF On, Injective
<1>14. SortTypes'
  <2>1. degree' \in [Tasks -> Nat]
    BY <1>1, <1>8
  <2> QED
    BY <1>1, <1>2, <1>6, <1>13, <2>1 DEF SortTypes, Tasks
<1>15. Counted'
  <2>1. ASSUME NEW t \in Tasks
        PROVE  degree'[t] = 0 <=> t \in On(result)' \union On(queue)'
    <3>1. CASE t \in On(result) \union On(queue)
      <4>1. degree[t] = 0
        BY <1>2, <3>1 DEF Counted
      <4>2. degree'[t] = 0
        BY <1>8, <4>1
      <4> QED
        BY <1>7, <1>13, <3>1, <4>2
    <3>2. CASE t \notin On(result) \union On(queue)
      <4>1. degree[t] # 0 /\ degree[t] \in Nat
        BY <1>2, <3>2 DEF Counted, SortTypes
      <4>2. degree[t] > 0
        BY <4>1
      <4>3. degree'[t] = 0 <=> t \in New
        BY <4>2 DEF New
      <4>4. t # h
        BY <1>3, <3>2
      <4> QED
        BY <1>7, <1>13, <3>2, <4>3, <4>4
    <3> QED
      BY <3>1, <3>2
  <2>2. On(result)' \cap On(queue)' = {}
    BY <1>2, <1>4, <1>7, <1>12, <1>13, <1>11 DEF Counted
  <2> QED
    BY <1>1, <1>8, <1>13, <2>1, <2>2 DEF Counted, Tasks
<1>16. OrderRespected'
  <2>0. L \in Nat /\ DOMAIN result = 1..L
    BY <1>2 DEF SortTypes
  <2>1. DOMAIN result' = 1..(L + 1)
    BY <1>1, <1>6
  <2>2. Deps(h) \subseteq {result[j] : j \in 1..L}
    <3>1. Missing(h) = {}
      <4>1. Missing(h) \in SUBSET DOMAIN deps[h]
        BY DEF Missing
      <4>2. IsFiniteSet(Missing(h))
        BY <1>2, <1>3, <4>1, DepsFacts, FS_Subset
      <4>3. Cardinality(Missing(h)) = 0
        BY <1>2, <1>3, <1>4 DEF Counted
      <4> QED
        BY <4>2, <4>3, FS_EmptySet
    <3> QED
      BY <2>0, <3>1 DEF Missing, Deps, On
  <2>3. ASSUME NEW i \in 1..(L + 1)
        PROVE  {deps[result'[i]][k] : k \in DOMAIN deps[result'[i]]} \subseteq {result'[j] : j \in 1..(i - 1)}
    <3>1. CASE i = L + 1
      <4>1. result'[i] = h /\ i - 1 = L
        BY <1>1, <1>6, <2>0, <3>1
      <4>2. {result'[j] : j \in 1..L} = {result[j] : j \in 1..L}
        BY <1>1, <1>6
      <4> QED
        BY <2>2, <4>1, <4>2 DEF Deps
    <3>2. CASE i # L + 1
      <4>1. i \in 1..L /\ \A j \in 1..(i - 1) : j \in 1..L
        BY <2>0, <3>2
      <4>2. result'[i] = result[i] /\ \A j \in 1..(i - 1) : result'[j] = result[j]
        BY <1>1, <1>6, <4>1
      <4>3. Deps(result[i]) \subseteq {result[j] : j \in 1..(i - 1)}
        BY <2>0, <4>1 DEF SortInv, OrderRespected
      <4> QED
        BY <4>2, <4>3 DEF Deps
    <3> QED
      BY <3>1, <3>2
  <2>4. \A i, j \in DOMAIN result' : result'[i] = result'[j] => i = j
    BY <1>1, <1>6 DEF Injective
  <2> QED
    BY <1>1, <2>1, <2>3, <2>4 DEF OrderRespected, Deps
<1>17. NeverStuck'
  BY <1>1 DEF NeverStuck
<1> QED
  BY <1>1, <1>14, <1>15, <1>16, <1>17 DEF SortInv

\* With the queue empty and no cycle nothing is missing: a task that is not
\* placed waits for another one that is not.
LEMMA AllPlaced ==
    ASSUME SortInv, AcceptedRightly, phase = "sort", queue = <<>>
    PROVE  On(result) = Tasks /\ Len(result) = Len(deps)
<1> DEFINE C == Tasks \ On(result)
<1>1. On(result) \subseteq Tasks
  BY DEF SortInv, SortTypes, On
<1>2. SortTypes /\ Counted /\ Known /\ Acyclic(Tasks) /\ On(queue) = {}
  BY DEF SortInv, AcceptedRightly, On
<1>3. C = {}
  <2> SUFFICES ASSUME C # {} PROVE FALSE
    OBVIOUS
  <2>1. PICK t \in C : Deps(t) \cap C = {}
    BY <1>2 DEF Acyclic
  <2>2. Missing(t) = {}
    BY <1>2, <2>1 DEF Missing, Known, Deps
  <2>3. degree[t] = 0
    BY <1>2, <2>2, FS_EmptySet DEF Counted
  <2> QED
    BY <1>2, <2>3 DEF Counted
<1>4. Len(result) = Len(deps)
  <2>1. Len(result) \in Nat /\ DOMAIN result = 1..Len(result) /\ result \in [1..Len(result) -> Tasks]
    BY <1>2 DEF SortTypes
  <2>2. \A i, j \in 1..Len(result) : result[i] = result[j] => i = j
    BY <2>1 DEF SortInv, OrderRespected
  <2>3. result \in Injection(1..Len(result), Tasks)
    BY <2>1, <2>2, Fun_IsInj
  <2>4. \A t \in Tasks : \E i \in 1..Len(result) : result[i] = t
    BY <1>1, <1>3, <2>1 DEF On
  <2>5. result \in Surjection(1..Len(result), Tasks)
    BY <2>1, <2>4, Fun_IsSurj
  <2>6. IsFiniteSet(Tasks) /\ Cardinality(Tasks) = Len(deps)
    BY <1>2, TasksFinite
  <2>7. Cardinality(1..Len(result)) = Cardinality(Tasks)
    BY <2>3, <2>5, <2>6, FS_Injection
  <2>8. Cardinality(1..Len(result)) = Len(result)
    <3>1. Len(result) \in Int /\ 1 \in Int
      BY <2>1
    <3>2. Cardinality(1..Len(result)) = IF 1 > Len(result) THEN 0 ELSE Len(result) - 1 + 1
      BY <3>1, FS_Interval
    <3> QED
      BY <2>1, <3>2
  <2> QED
    BY <2>6, <2>7, <2>8
<1> QED
  BY <1>1, <1>3, <1>4

\* A step that leaves the sort alone.
LEMMA SortKept ==
    ASSUME SortTypes, OrderRespected, deps' = deps, degree' = degree, queue' = queue,
           result' = result, phase' \in Phases
    PROVE  SortTypes' /\ OrderRespected' /\ (Counted => Counted')
<1>1. SortTypes'
  BY DEF SortTypes, Tasks
<1>2. OrderRespected'
  BY DEF OrderRespected, Deps
<1>3. ASSUME Counted PROVE Counted'
  <2>1. On(result)' = On(result) /\ On(queue)' = On(queue) /\ Tasks' = Tasks
    BY DEF On, Tasks
  <2>2. ASSUME NEW t PROVE Missing(t)' = Missing(t)
    BY DEF Missing, On
  <2>3. Injective(queue)'
    BY <1>3 DEF Counted, Injective
  <2> QED
    BY <1>3, <2>1, <2>2, <2>3 DEF Counted
<1> QED
  BY <1>1, <1>2, <1>3

LEMMA SortUnchanged ==
    ASSUME SortInv, deps' = deps, degree' = degree, queue' = queue, result' = result,
           phase' \in Phases \ {"sort", "sorted", "stuck"}, phase \notin {"sort", "sorted"}
    PROVE  SortInv'
<1>1. SortTypes' /\ OrderRespected'
  BY SortKept DEF SortInv
<1> QED
  BY <1>1 DEF SortInv, NeverStuck

LEMMA FinishSorts == SortInv /\ AcceptedRightly /\ Finish => SortInv'
<1> SUFFICES ASSUME SortInv, AcceptedRightly, Finish PROVE SortInv'
  OBVIOUS
<1>1. /\ phase = "sort" /\ queue = <<>>
      /\ deps' = deps /\ degree' = degree /\ queue' = queue /\ result' = result
  BY DEF Finish
<1>2. On(result) = Tasks /\ phase' = "sorted"
  BY <1>1, AllPlaced DEF Finish
<1>3. phase' \in Phases
  BY <1>2 DEF Phases
<1>4. SortTypes' /\ OrderRespected' /\ Counted'
  BY <1>1, <1>3, SortKept DEF SortInv
<1>5. NeverStuck'
  BY <1>1, <1>2 DEF NeverStuck, On, Tasks
<1> QED
  BY <1>2, <1>3, <1>4, <1>5 DEF SortInv

LEMMA SortStays == SortInv /\ AcceptedRightly /\ [Next]_vars => SortInv'
<1> SUFFICES ASSUME SortInv, AcceptedRightly, [Next]_vars PROVE SortInv'
  OBVIOUS
<1>1. CASE Check \/ Searching
  BY <1>1, SortUnchanged
  DEF Check, Searching, Root, Enter, Skip, Found, Leave, Accept, Looking, Phases
<1>2. CASE Prepare \/ Take \/ Finish
  BY <1>2, PrepareSorts, TakeSorts, FinishSorts
<1>3. CASE UNCHANGED vars
  <2>1. /\ deps' = deps /\ degree' = degree /\ queue' = queue /\ result' = result
        /\ phase' = phase /\ phase \in Phases
    BY <1>3 DEF vars, SortInv, SortTypes
  <2>2. SortTypes' /\ OrderRespected' /\ (Counted => Counted')
    BY <2>1, SortKept DEF SortInv
  <2>3. NeverStuck'
    BY <2>1 DEF SortInv, NeverStuck, On, Tasks
  <2> QED
    BY <2>1, <2>2, <2>3 DEF SortInv
<1> QED
  BY <1>1, <1>2, <1>3 DEF Next, Sorting

\* What topological_order returns lists a task once and after everything it
\* depends on, repeated dependencies or not.
THEOREM SortedInOrder == Spec => []OrderRespected
<1>1. Init => SearchInv /\ AcceptedRightly /\ SortInv
  BY InitSearch, InitSort DEF Init, AcceptedRightly
<1>2. SearchInv /\ AcceptedRightly /\ SortInv /\ [Next]_vars => (SearchInv /\ AcceptedRightly /\ SortInv)'
  BY SearchStays, AcceptedStays, SortStays
<1>3. SortInv => OrderRespected
  BY DEF SortInv
<1> QED
  BY <1>1, <1>2, <1>3, PTL DEF Spec

\* The RuntimeError at the end of topological_order is unreachable: what the
\* constructor accepts is sorted completely.
THEOREM SortCompletes == Spec => []NeverStuck
<1>1. Init => SearchInv /\ AcceptedRightly /\ SortInv
  BY InitSearch, InitSort DEF Init, AcceptedRightly
<1>2. SearchInv /\ AcceptedRightly /\ SortInv /\ [Next]_vars => (SearchInv /\ AcceptedRightly /\ SortInv)'
  BY SearchStays, AcceptedStays, SortStays
<1>3. SortInv => NeverStuck
  BY DEF SortInv
<1> QED
  BY <1>1, <1>2, <1>3, PTL DEF Spec
====
