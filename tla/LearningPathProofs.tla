------------------------- MODULE LearningPathProofs -------------------------
(***************************************************************************)
(* For every graph, profile and request: a plan can be followed, reaches   *)
(* the requirements with nothing to spare and is the only answer, and a    *)
(* chain is direct.                                                        *)
(***************************************************************************)
EXTENDS LearningPath, TLAPS, FiniteSetTheorems, WellFoundedInduction

\* Nothing is planned before the request, and for_skill asks for a node.
NotAskedYet ==
    /\ phase \in {"loaded", "refused", "built"} => plan = <<>>
    /\ phase = "skill" => required \subseteq Skills

IInv == TypeOK /\ NotAskedYet /\ Followable

-----------------------------------------------------------------------------

\* Every prerequisite of a skill is one of its ancestors, and ancestors are closed
\* under prerequisites (nx.ancestors).
LEMMA AncestorsClosed ==
    ASSUME NEW t
    PROVE  /\ Prerequisites(t) \subseteq Ancestors(t)
           /\ \A n \in Ancestors(t) : Prerequisites(n) \subseteq Ancestors(t)
<1>1. Prerequisites(t) \subseteq Ancestors(t)
  BY DEF Ancestors, Prerequisites
<1>2. ASSUME NEW n \in Ancestors(t), NEW p \in Prerequisites(n)
      PROVE  p \in Ancestors(t)
  <2>1. p \in Skills
    BY <1>2 DEF Prerequisites
  <2>2. ASSUME NEW S \in SUBSET Skills,
               Prerequisites(t) \subseteq S, \A s \in S : Prerequisites(s) \subseteq S
        PROVE  p \in S
    <3>1. n \in S
      BY <2>2, <1>2 DEF Ancestors
    <3>2. QED
      BY <3>1, <2>2, <1>2
  <2>3. QED
    BY <2>1, <2>2 DEF Ancestors
<1>3. QED
  BY <1>1, <1>2

\* What a needed skill depends on directly is known or needed too: the induced
\* subgraph loses only edges from known skills.
LEMMA NeededClosed ==
    \A n \in Needed : Prerequisites(n) \subseteq known \cup Needed
<1> SUFFICES ASSUME NEW n \in Needed, NEW p \in Prerequisites(n), p \notin known
             PROVE  p \in Needed
  OBVIOUS
<1>1. CASE n \in Targets
  <2>1. p \in Ancestors(n)
    BY AncestorsClosed
  <2>2. QED
    BY <1>1, <2>1 DEF Needed
<1>2. CASE n \notin Targets
  <2>1. PICK t \in Targets : n \in Ancestors(t)
    BY <1>2 DEF Needed
  <2>2. p \in Ancestors(t)
    BY <2>1, AncestorsClosed
  <2>3. QED
    BY <2>2 DEF Needed
<1>3. QED
  BY <1>1, <1>2

\* Needed skills are nodes the user does not know.
LEMMA NeededAreUnknown == Needed \subseteq Skills \ known
BY DEF Needed, Targets, Ancestors

\* A chain is a sequence of skills.
LEMMA ChainsAreSequences ==
    ASSUME NEW k, NEW t \in Skills
    PROVE  Cheapest(k, t) \subseteq Seq(Skills)
<1>1. Cardinality(Skills) \in Nat
  BY FS_CardinalityType, SkillsAreNumbered
<1>2. Chains(t) \subseteq Seq(Skills)
  <2>1. ASSUME NEW c \in Chains(t) PROVE c \in Seq(Skills)
    <3>1. PICK n \in 1..Cardinality(Skills) : c \in [1..n -> Skills]
      BY <2>1 DEF Chains
    <3>2. n \in Nat
      BY <1>1
    <3>3. QED
      BY <3>1, <3>2
  <2>2. QED
    BY <2>1
<1>3. <<t>> \in Seq(Skills)
  OBVIOUS
<1>4. QED
  BY <1>2, <1>3 DEF Cheapest

-----------------------------------------------------------------------------

LEMMA InitEstablishes == Init => IInv
BY DEF Init, IInv, TypeOK, NotAskedYet, Followable

\* The step that matters: the skill emitted next has all it depends on.
LEMMA EmitPreserves == IInv /\ Emit => IInv'
<1> SUFFICES ASSUME IInv, Emit PROVE IInv'
  OBVIOUS
<1>1. PICK n \in Ready : plan' = Append(plan, n)
  BY DEF Emit
<1>2. /\ n \in Needed /\ n \notin Planned
      /\ Prerequisites(n) \cap Needed \subseteq Planned
  BY DEF Ready
<1>3. n \in Skills /\ n \notin known
  BY <1>2, NeededAreUnknown
<1>4. Prerequisites(n) \subseteq known \cup Planned
  BY <1>2, NeededClosed
<1>5. plan \in Seq(Skills) /\ Len(plan) \in Nat
  BY DEF IInv, TypeOK
<1>6. /\ plan' \in Seq(Skills) /\ Len(plan') = Len(plan) + 1
      /\ plan'[Len(plan) + 1] = n
      /\ \A i \in 1..Len(plan) : plan'[i] = plan[i]
  BY <1>1, <1>3, <1>5
<1>7. UNCHANGED <<edges, difficulty, known, required, phase, chain>>
  BY DEF Emit
<1>8. \A m : Prerequisites(m)' = Prerequisites(m)
  BY <1>7 DEF Prerequisites
<1>9. TypeOK'
  BY <1>6, <1>7 DEF IInv, TypeOK
<1>10. NotAskedYet'
  BY <1>7 DEF IInv, NotAskedYet, Emit
<1>11. Followable'
  <2> SUFFICES ASSUME NEW i \in 1..(Len(plan) + 1)
               PROVE  /\ Prerequisites(plan'[i]) \subseteq known \cup {plan'[j] : j \in 1..(i - 1)}
                      /\ plan'[i] \notin known
                      /\ \A j \in 1..(i - 1) : plan'[i] # plan'[j]
    BY <1>6, <1>7, <1>8 DEF Followable
  <2>1. CASE i \in 1..Len(plan)
    <3>1. \A j \in 1..(i - 1) : j \in 1..Len(plan)
      BY <2>1, <1>5
    <3>2. {plan'[j] : j \in 1..(i - 1)} = {plan[j] : j \in 1..(i - 1)}
      BY <3>1, <1>6
    <3>3. QED
      BY <2>1, <3>1, <3>2, <1>6 DEF IInv, Followable
  <2>2. CASE i = Len(plan) + 1
    <3>1. 1..(i - 1) = 1..Len(plan)
      BY <2>2, <1>5
    <3>2. {plan'[j] : j \in 1..(i - 1)} = Planned
      BY <3>1, <1>6 DEF Planned
    <3>3. \A j \in 1..(i - 1) : plan'[j] \in Planned
      BY <3>2
    <3>4. QED
      BY <2>2, <3>2, <3>3, <1>2, <1>3, <1>4, <1>6
  <2>3. QED
    BY <2>1, <2>2, <1>5
<1>12. QED
  BY <1>9, <1>10, <1>11 DEF IInv

LEMMA NextPreserves == IInv /\ [Next]_vars => IInv'
<1> SUFFICES ASSUME IInv, [Next]_vars PROVE IInv'
  OBVIOUS
<1>1. CASE BuildGraph
  BY <1>1 DEF BuildGraph, IInv, TypeOK, NotAskedYet, Followable, Prerequisites
<1>2. CASE \E k \in SUBSET Skills, r \in SUBSET Requirable : ForJob(k, r)
  BY <1>2 DEF ForJob, Ask, IInv, TypeOK, NotAskedYet, Followable
<1>3. CASE \E k \in SUBSET Skills, t \in Skills : ForSkill(k, t)
  BY <1>3 DEF ForSkill, Ask, IInv, TypeOK, NotAskedYet, Followable
<1>4. CASE Emit
  BY <1>4, EmitPreserves
<1>5. CASE AnswerJob
  BY <1>5 DEF AnswerJob, IInv, TypeOK, NotAskedYet, Followable, Prerequisites
<1>6. CASE AnswerSkill
  <2>1. chain' \in Seq(Skills)
    BY <1>6, ChainsAreSequences DEF AnswerSkill, IInv, NotAskedYet
  <2>2. QED
    BY <1>6, <2>1 DEF AnswerSkill, IInv, TypeOK, NotAskedYet, Followable, Prerequisites
<1>7. CASE UNCHANGED vars
  BY <1>7 DEF vars, IInv, TypeOK, NotAskedYet, Followable, Prerequisites
<1>8. QED
  BY <1>1, <1>2, <1>3, <1>4, <1>5, <1>6, <1>7 DEF Next

\* In every plan, for every graph, every set of known skills and every request,
\* each step finds its direct prerequisites known or earlier in the plan
\* (compute_learning_path).
THEOREM PlansAreFollowable == Spec => []Followable
<1>1. IInv => Followable
  BY DEF IInv
<1>2. QED
  BY <1>1, InitEstablishes, NextPreserves, PTL DEF Spec

\* The planner keeps its types (compute_learning_path, prerequisite_chain).
THEOREM PathsTypeCorrect == Spec => []TypeOK
<1>1. IInv => TypeOK
  BY DEF IInv
<1>2. QED
  BY <1>1, InitEstablishes, NextPreserves, PTL DEF Spec

\* A set of numbers has a least one.
LEMMA LeastExists ==
    ASSUME NEW S, S \subseteq Nat, S # {}
    PROVE  \E n \in S : \A m \in S : n <= m
<1>1. PICK less : less = OpToRel(<, Nat)
  OBVIOUS
<1>2. IsWellFoundedOn(less, Nat)
  BY <1>1, NatLessThanWellFounded, Zenon
<1>3. ASSUME NEW m \in Nat, NEW n \in Nat, m < n PROVE <<m, n>> \in less
  <2>1. <<m, n>> \in OpToRel(<, Nat)
    BY <1>3 DEF OpToRel
  <2> QED
    BY <1>1, <2>1, Zenon
<1>4. PICK n \in S : \A m \in S : ~ (<<m, n>> \in less)
  BY <1>2, WFMin, Zenon
<1>5. \A m \in S : ~ (m < n)
  BY <1>3, <1>4, Zenon
<1> QED
  BY <1>5

-----------------------------------------------------------------------------
(* Graphs without cycles.                                                  *)

\* What leads to an ancestor leads to the skill.
LEMMA AncestorsTransitive ==
    ASSUME NEW n, NEW m \in Ancestors(n)
    PROVE  Ancestors(m) \subseteq Ancestors(n)
<1> SUFFICES ASSUME NEW x \in Ancestors(m) PROVE x \in Ancestors(n)
  OBVIOUS
<1>1. x \in Skills
  BY DEF Ancestors
<1>2. ASSUME NEW S \in SUBSET Skills,
             Prerequisites(n) \subseteq S, \A s \in S : Prerequisites(s) \subseteq S
      PROVE  x \in S
  <2>1. m \in S
    BY <1>2 DEF Ancestors
  <2>2. Prerequisites(m) \subseteq S
    BY <1>2, <2>1
  <2> QED
    BY <1>2, <2>2 DEF Ancestors
<1> QED
  BY <1>1, <1>2 DEF Ancestors

\* A set of skills of which each has a prerequisite in the set has a cycle.
LEMMA SomeSkillComesFirst ==
    ASSUME ~Cyclic, NEW S, S \subseteq Skills, S # {}
    PROVE  \E n \in S : Prerequisites(n) \cap S = {}
<1> DEFINE size(n) == Cardinality(Ancestors(n))
           sizes == {size(n) : n \in S}
<1>1. \A n : IsFiniteSet(Ancestors(n)) /\ size(n) \in Nat
  <2>1. \A n : Ancestors(n) \in SUBSET Skills
    BY DEF Ancestors
  <2> QED
    BY <2>1, FS_Subset, FS_CardinalityType, SkillsAreNumbered
<1>2. sizes \subseteq Nat /\ sizes # {}
  BY <1>1
<1>3. PICK k \in sizes : \A j \in sizes : k <= j
  BY <1>2, LeastExists
<1>4. PICK n \in S : k = size(n)
  BY <1>3
<1>5. ASSUME NEW m \in Prerequisites(n) \cap S PROVE FALSE
  <2>1. m \in Ancestors(n) /\ Ancestors(m) \subseteq Ancestors(n)
    BY AncestorsClosed, AncestorsTransitive
  <2>2. m \notin Ancestors(m)
    BY DEF Cyclic
  <2>3. Ancestors(m) \in SUBSET Ancestors(n) /\ Ancestors(m) # Ancestors(n)
    BY <2>1, <2>2
  <2>4. size(m) <= size(n) /\ size(m) # size(n)
    BY <1>1, <2>3, FS_Subset
  <2>5. k <= size(m)
    BY <1>3
  <2> QED
    BY <1>1, <1>4, <2>4, <2>5
<1> QED
  BY <1>5

\* The heap is empty only when everything needed has been emitted.
LEMMA EmptyHeapIsDone ==
    ASSUME ~Cyclic, Ready = {}
    PROVE  Needed \subseteq Planned
<1> SUFFICES ASSUME Needed \ Planned # {} PROVE FALSE
  OBVIOUS
<1>1. Needed \ Planned \subseteq Skills
  BY NeededAreUnknown
<1>2. PICK n \in Needed \ Planned : Prerequisites(n) \cap (Needed \ Planned) = {}
  BY <1>1, SomeSkillComesFirst
<1>3. n \in Ready
  BY <1>2 DEF Ready
<1> QED
  BY <1>3

-----------------------------------------------------------------------------
(* What a plan consists of, and in which order.                            *)

\* Each step was the least of the skills that were ready then.
Greedy ==
    \A i \in 1..Len(plan) : \A m \in Needed :
        /\ \A j \in 1..i : m # plan[j]
        /\ Prerequisites(m) \cap Needed \subseteq {plan[j] : j \in 1..(i - 1)}
        => Before(plan[i], m)

\* A graph that was built has no cycle, a plan is of needed skills, and of all of them once
\* it is answered.
PlanInv ==
    /\ phase \notin {"loaded", "refused"} => ~Cyclic
    /\ Planned \subseteq Needed
    /\ phase = "answered" => Needed \subseteq Planned
    /\ Greedy

LEMMA InitPlanInv == Init => PlanInv
BY DEF Init, PlanInv, Planned, Greedy

LEMMA EmitKeepsPlanInv ==
    ASSUME IInv, PlanInv, Emit
    PROVE  PlanInv'
<1>1. PICK n \in Ready : plan' = Append(plan, n) /\ \A m \in Ready \ {n} : Before(n, m)
  BY DEF Emit
<1>2. n \in Needed /\ n \notin Planned /\ n \in Skills
  BY NeededAreUnknown DEF Ready
<1>3. UNCHANGED <<edges, difficulty, known, required, phase, chain>>
  BY DEF Emit
<1>4. phase \in {"job", "skill"}
  BY DEF Emit
<1>5. /\ Needed' = Needed /\ Cyclic' = Cyclic
      /\ \A m : Prerequisites(m)' = Prerequisites(m)
      /\ \A a, b : Before(a, b)' = Before(a, b)
  BY <1>3 DEF Needed, Targets, Ancestors, Prerequisites, Cyclic, Before
<1>6. plan \in Seq(Skills) /\ Len(plan) \in Nat
  BY DEF IInv, TypeOK
<1>7. /\ plan' \in Seq(Skills) /\ Len(plan') = Len(plan) + 1
      /\ plan'[Len(plan) + 1] = n
      /\ \A i \in 1..Len(plan) : plan'[i] = plan[i]
  BY <1>1, <1>2, <1>6
<1>8. Planned' \subseteq Needed
  BY <1>2, <1>6, <1>7 DEF Planned, PlanInv
<1>9. Greedy'
  <2> SUFFICES ASSUME NEW i \in 1..(Len(plan) + 1), NEW m \in Needed,
                      \A j \in 1..i : m # plan'[j],
                      Prerequisites(m) \cap Needed \subseteq {plan'[j] : j \in 1..(i - 1)}
               PROVE  Before(plan'[i], m)
    BY <1>5, <1>7 DEF Greedy
  <2>1. \A j \in 1..(i - 1) : j \in 1..Len(plan) /\ plan'[j] = plan[j]
    BY <1>6, <1>7
  <2>2. {plan'[j] : j \in 1..(i - 1)} = {plan[j] : j \in 1..(i - 1)}
    BY <2>1
  <2>3. CASE i \in 1..Len(plan)
    <3>1. \A j \in 1..i : j \in 1..Len(plan)
      BY <1>6, <2>3
    <3>2. \A j \in 1..i : m # plan[j]
      BY <1>7, <3>1
    <3> QED
      BY <1>7, <2>2, <2>3, <3>2 DEF PlanInv, Greedy
  <2>4. CASE i = Len(plan) + 1
    <3>1. \A j \in 1..Len(plan) : j \in 1..i
      BY <1>6, <2>4
    <3>2. m \notin Planned /\ m # n
      <4>1. \A j \in 1..Len(plan) : m # plan[j]
        BY <1>7, <3>1
      <4>2. m # plan'[Len(plan) + 1]
        BY <1>6, <2>4
      <4>3. m \notin Planned
        BY <4>1 DEF Planned
      <4> QED
        BY <1>7, <4>2, <4>3
    <3>3. {plan'[j] : j \in 1..(i - 1)} = Planned
      <4>1. i - 1 = Len(plan)
        BY <1>6, <2>4
      <4> QED
        BY <2>2, <4>1, Zenon DEF Planned
    <3>4. m \in Ready \ {n}
      BY <3>2, <3>3 DEF Ready
    <3> QED
      BY <1>1, <1>7, <2>4, <3>4
  <2> QED
    BY <1>6, <2>3, <2>4
<1> QED
  BY <1>3, <1>4, <1>5, <1>8, <1>9 DEF PlanInv

LEMMA NextKeepsPlanInv ==
    ASSUME IInv, PlanInv, [Next]_vars
    PROVE  PlanInv'
<1>1. CASE BuildGraph
  <2>1. plan = <<>> /\ plan' = <<>> /\ (phase' = "refused" \/ (phase' = "built" /\ ~Cyclic))
        /\ edges' = edges
    BY <1>1 DEF BuildGraph, IInv, NotAskedYet
  <2>2. Cyclic' = Cyclic
    BY <2>1 DEF Cyclic, Ancestors, Prerequisites
  <2> QED
    BY <2>1, <2>2 DEF PlanInv, Planned, Greedy
<1>2. ASSUME NEW k, NEW r, Ask(k, r), phase' \in {"job", "skill"} PROVE PlanInv'
  <2>1. plan' = <<>> /\ edges' = edges /\ phase = "built"
    BY <1>2 DEF Ask, IInv, NotAskedYet
  <2>2. Cyclic' = Cyclic
    BY <2>1 DEF Cyclic, Ancestors, Prerequisites
  <2> QED
    BY <1>2, <2>1, <2>2 DEF PlanInv, Planned, Greedy
<1>3. CASE AnswerJob \/ AnswerSkill \/ UNCHANGED vars
  <2>1. UNCHANGED <<edges, difficulty, known, required, plan>>
    BY <1>3 DEF AnswerJob, AnswerSkill, vars
  <2>2. /\ phase' = phase \/ (phase' = "answered" /\ phase \in {"job", "skill"} /\ Ready = {})
    BY <1>3 DEF AnswerJob, AnswerSkill, vars
  <2>3. /\ Needed' = Needed /\ Cyclic' = Cyclic /\ Planned' = Planned
    BY <2>1 DEF Needed, Targets, Ancestors, Prerequisites, Cyclic, Planned
  <2>4. Greedy'
    BY <2>1, <2>3 DEF PlanInv, Greedy, Before, Prerequisites
  <2>5. Ready = {} /\ phase \in {"job", "skill"} => Needed \subseteq Planned
    BY EmptyHeapIsDone DEF PlanInv
  <2> QED
    BY <2>2, <2>3, <2>4, <2>5 DEF PlanInv
<1>4. CASE Emit
  BY <1>4, EmitKeepsPlanInv
<1> QED
  BY <1>1, <1>2, <1>3, <1>4 DEF Next, ForJob, ForSkill

\* A finished plan reaches every requirement the graph knows, and nothing that is neither
\* required nor leads to it, for every graph (compute_learning_path over build_graph).
THEOREM PlansClose == Spec => []PlanCloses
<1>1. PlanInv => PlanCloses
  <2> SUFFICES ASSUME PlanInv, phase = "answered"
               PROVE  /\ required \cap Skills \subseteq known \cup Planned
                      /\ \A n \in Planned : n \in required \/ \E t \in required \cap Planned : n \in Ancestors(t)
    BY DEF PlanCloses
  <2>1. Planned = Needed
    BY DEF PlanInv
  <2>2. Targets \subseteq Needed /\ Targets \subseteq required
    BY DEF Needed, Targets
  <2>3. required \cap Skills \subseteq known \cup Planned
    BY <2>1, <2>2 DEF Targets
  <2> QED
    BY <2>1, <2>2, <2>3 DEF Needed
<1>2. IInv /\ PlanInv /\ [Next]_vars => (IInv /\ PlanInv)'
  BY NextPreserves, NextKeepsPlanInv
<1> QED
  BY <1>1, <1>2, InitEstablishes, InitPlanInv, PTL DEF Spec

\* A plan without repetition has as many steps as skills, in an order of its own.
LEMMA PlansCount ==
    ASSUME IInv
    PROVE  Cardinality(Planned) = Len(plan) /\ IsFiniteSet(Planned)
<1>1. plan \in Seq(Skills) /\ Len(plan) \in Nat
  BY DEF IInv, TypeOK
<1>2. ASSUME NEW i \in 1..Len(plan), NEW j \in 1..Len(plan), i # j PROVE plan[i] # plan[j]
  <2>1. i \in 1..(j - 1) \/ j \in 1..(i - 1)
    BY <1>1, <1>2
  <2> QED
    BY <2>1 DEF IInv, Followable
<1> DEFINE f == [i \in 1..Len(plan) |-> plan[i]]
<1>3. f \in Bijection(1..Len(plan), Planned)
  BY <1>1, <1>2 DEF Planned, Bijection, Injection, Surjection, IsInjective
<1>4. IsFiniteSet(1..Len(plan)) /\ Cardinality(1..Len(plan)) = Len(plan)
  BY <1>1, FS_Interval
<1>5. ExistsBijection(1..Len(plan), Planned)
  BY <1>3 DEF ExistsBijection
<1> QED
  BY <1>4, <1>5, FS_Bijection

\* An order of a set names each of its members.
LEMMA OrdersAreComplete ==
    ASSUME NEW S, IsFiniteSet(S), NEW q \in Orders(S), NEW s \in S
    PROVE  \E i \in 1..Cardinality(S) : q[i] = s
<1>1. Cardinality(S) \in Nat
  BY FS_CardinalityType
<1>2. IsFiniteSet(1..Cardinality(S)) /\ Cardinality(1..Cardinality(S)) = Cardinality(S)
  BY <1>1, FS_Interval
<1>3. q \in Injection(1..Cardinality(S), S)
  BY DEF Orders, Injection, IsInjective
<1>4. q \in Surjection(1..Cardinality(S), S)
  BY <1>2, <1>3, FS_Injection
<1> QED
  BY <1>4 DEF Surjection

\* The answer is a function of the request: the first, by difficulty and name, of all orders
\* in which its skills can be learned, for every graph (the tie-break of the heap).
THEOREM PlansAreLeast == Spec => []PlanIsLeast
<1>1. IInv /\ PlanInv => PlanIsLeast
  <2> SUFFICES ASSUME IInv, PlanInv, phase = "answered", NEW q \in Orders(Planned) \ {plan}
               PROVE  \E i \in DOMAIN q : /\ Before(plan[i], q[i])
                                          /\ \A j \in 1..(i - 1) : plan[j] = q[j]
    BY DEF PlanIsLeast
  <2>1. Cardinality(Planned) = Len(plan) /\ IsFiniteSet(Planned)
    BY PlansCount
  <2>2. plan \in [1..Len(plan) -> Skills] /\ Len(plan) \in Nat
    BY DEF IInv, TypeOK
  <2>3. /\ q \in [1..Len(plan) -> Planned] /\ DOMAIN q = 1..Len(plan)
        /\ \A i, j \in 1..Len(plan) : i # j => q[i] # q[j]
        /\ \A i, j \in 1..Len(plan) : <<q[i], q[j]>> \in edges => i < j
    BY <2>1 DEF Orders
  <2> DEFINE differ == {i \in 1..Len(plan) : plan[i] # q[i]}
  <2>4. differ \subseteq Nat /\ differ # {}
    <3>1. q # plan
      OBVIOUS
    <3> QED
      BY <2>2, <2>3, <3>1
  <2>5. PICK i \in differ : \A j \in differ : i <= j
    BY <2>4, LeastExists
  <2>6. \A j \in 1..(i - 1) : j \in 1..Len(plan) /\ plan[j] = q[j]
    BY <2>2, <2>5
  <2>7. q[i] \in Needed /\ Planned = Needed
    BY <2>3, <2>5 DEF PlanInv
  <2>8. ASSUME NEW j \in 1..i PROVE q[i] # plan[j]
    <3>1. j = i \/ j \in 1..(i - 1)
      BY <2>5
    <3>2. j \in 1..(i - 1) => j # i
      BY <2>5
    <3> QED
      BY <2>3, <2>5, <2>6, <3>1, <3>2
  <2>9. ASSUME NEW p \in Prerequisites(q[i]) \cap Needed
        PROVE  \E j \in 1..(i - 1) : p = plan[j]
    <3>1. PICK j \in 1..Len(plan) : q[j] = p
      BY <2>1, <2>7, OrdersAreComplete
    <3>2. <<q[j], q[i]>> \in edges
      BY <3>1 DEF Prerequisites
    <3>3. j < i
      BY <2>3, <2>5, <3>2
    <3>4. j \in 1..(i - 1)
      BY <2>2, <2>5, <3>3
    <3> QED
      BY <2>6, <3>1, <3>4
  <2>10. Before(plan[i], q[i])
    <3>1. i \in 1..Len(plan)
      BY <2>5
    <3> HIDE DEF differ
    <3> QED
      BY <2>7, <2>8, <2>9, <3>1 DEF PlanInv, Greedy
  <2> QED
    BY <2>3, <2>5, <2>6, <2>10
<1>2. IInv /\ PlanInv /\ [Next]_vars => (IInv /\ PlanInv)'
  BY NextPreserves, NextKeepsPlanInv
<1> QED
  BY <1>1, <1>2, InitEstablishes, InitPlanInv, PTL DEF Spec

-----------------------------------------------------------------------------
(* Chains.                                                                 *)

\* n skills of which each is a prerequisite of the next.
Leads(c, n) ==
    /\ n \in Nat \ {0}
    /\ c \in [1..n -> Skills]
    /\ \A i \in 1..(n - 1) : <<c[i], c[i + 1]>> \in edges

LEMMA ChainsLead ==
    ASSUME NEW t, NEW c
    PROVE  c \in Chains(t) <=> /\ Len(c) \in 1..Cardinality(Skills)
                               /\ Leads(c, Len(c))
                               /\ c[Len(c)] = t
<1>1. Cardinality(Skills) \in Nat
  BY FS_CardinalityType, SkillsAreNumbered
<1>2. ASSUME NEW n \in 1..Cardinality(Skills), c \in [1..n -> Skills]
      PROVE  Len(c) = n
  <2>1. n \in Nat
    BY <1>1
  <2> QED
    BY <1>2, <2>1
<1>3. ASSUME c \in Chains(t)
      PROVE  Len(c) \in 1..Cardinality(Skills) /\ Leads(c, Len(c)) /\ c[Len(c)] = t
  <2>1. PICK n \in 1..Cardinality(Skills) : c \in [1..n -> Skills]
    BY <1>3 DEF Chains
  <2>2. Len(c) = n /\ n \in Nat \ {0}
    BY <1>1, <1>2, <2>1
  <2> QED
    BY <1>3, <2>1, <2>2 DEF Chains, Leads
<1>4. ASSUME Len(c) \in 1..Cardinality(Skills), Leads(c, Len(c)), c[Len(c)] = t
      PROVE  c \in Chains(t)
  BY <1>4 DEF Chains, Leads
<1> QED
  BY <1>3, <1>4

\* Whatever stands before a skill on the way to it is one of its ancestors.
LEMMA LeadersAreAncestors ==
    ASSUME NEW c, NEW n, Leads(c, n), NEW i \in 1..n
    PROVE  \A j \in (i + 1)..n : c[i] \in Ancestors(c[j])
<1> DEFINE wrong == {j \in (i + 1)..n : c[i] \notin Ancestors(c[j])}
<1>1. n \in Nat
  BY DEF Leads
<1>2. SUFFICES ASSUME wrong # {} PROVE FALSE
  OBVIOUS
<1>3. wrong \subseteq Nat
  BY <1>1
<1>4. PICK j \in wrong : \A k \in wrong : j <= k
  BY <1>2, <1>3, LeastExists
<1>5. j \in (i + 1)..n /\ c[i] \notin Ancestors(c[j])
  OBVIOUS
<1>6. c[j - 1] \in Prerequisites(c[j])
  <2>1. j - 1 \in 1..(n - 1) /\ (j - 1) + 1 = j
    BY <1>1, <1>5
  <2>2. <<c[j - 1], c[j]>> \in edges
    BY <2>1 DEF Leads
  <2>3. c[j - 1] \in Skills
    BY <1>1, <2>1 DEF Leads
  <2> QED
    BY <2>2, <2>3 DEF Prerequisites
<1>7. c[j - 1] \in Ancestors(c[j])
  BY <1>6, AncestorsClosed
<1>8. CASE j - 1 = i
  BY <1>5, <1>7, <1>8
<1>9. CASE j - 1 # i
  <2>1. j - 1 \in (i + 1)..n /\ ~ (j <= j - 1)
    BY <1>1, <1>5, <1>9
  <2>2. j - 1 \notin wrong
    BY <1>4, <2>1
  <2>3. c[i] \in Ancestors(c[j - 1])
    BY <2>1, <2>2
  <2> QED
    BY <1>5, <1>7, <2>3, AncestorsTransitive
<1> QED
  BY <1>8, <1>9

\* Without cycles no way is longer than there are skills.
LEMMA LeadsAreShort ==
    ASSUME ~Cyclic, NEW c, NEW n, Leads(c, n)
    PROVE  n \in 1..Cardinality(Skills)
<1>1. n \in Nat \ {0} /\ c \in [1..n -> Skills]
  BY DEF Leads
<1>2. ASSUME NEW i \in 1..n, NEW j \in 1..n, i < j PROVE c[i] # c[j]
  <2>1. j \in (i + 1)..n
    BY <1>1, <1>2
  <2>2. c[i] \in Ancestors(c[j])
    BY <2>1, LeadersAreAncestors
  <2>3. c[j] \in Skills
    BY <1>1
  <2> QED
    BY <2>2, <2>3 DEF Cyclic
<1>3. c \in Injection(1..n, Skills)
  <2>1. \A i, j \in 1..n : i = j \/ i < j \/ j < i
    BY <1>1
  <2> QED
    BY <1>1, <1>2, <2>1 DEF Injection, IsInjective
<1>4. IsFiniteSet(1..n) /\ Cardinality(1..n) = n
  BY <1>1, FS_Interval
<1>5. n <= Cardinality(Skills) /\ Cardinality(Skills) \in Nat
  BY <1>3, <1>4, FS_Injection, FS_CardinalityType, SkillsAreNumbered
<1> QED
  BY <1>1, <1>5

\* A prerequisite of the first skill of a chain begins a longer one.
LEMMA ChainsGrow ==
    ASSUME ~Cyclic, NEW t, NEW c \in Chains(t), NEW m \in Prerequisites(c[1])
    PROVE  \E d \in Chains(t) : d[1] = m
<1> DEFINE n == Len(c)
           d == [i \in 1..(n + 1) |-> IF i = 1 THEN m ELSE c[i - 1]]
<1>1. Leads(c, n) /\ c[n] = t
  BY ChainsLead
<1> HIDE DEF n
<1>2. n \in Nat \ {0} /\ c \in [1..n -> Skills] /\ m \in Skills /\ <<m, c[1]>> \in edges
  BY <1>1 DEF Leads, Prerequisites
<1>3. d \in [1..(n + 1) -> Skills]
  <2>1. \A i \in 1..(n + 1) : i = 1 \/ i - 1 \in 1..n
    BY <1>2
  <2> QED
    BY <1>2, <2>1
<1>4. d[1] = m /\ d[n + 1] = t
  BY <1>1, <1>2
<1>5. ASSUME NEW i \in 1..n PROVE <<d[i], d[i + 1]>> \in edges
  <2>1. d[i + 1] = c[i]
    BY <1>2
  <2>2. CASE i = 1
    BY <1>2, <1>4, <2>1, <2>2
  <2>3. CASE i # 1
    <3>1. i - 1 \in 1..(n - 1) /\ (i - 1) + 1 = i /\ d[i] = c[i - 1]
      BY <1>2, <2>3
    <3>2. <<c[i - 1], c[i]>> \in edges
      BY <1>1, <3>1 DEF Leads
    <3> QED
      BY <2>1, <3>1, <3>2
  <2> QED
    BY <2>2, <2>3
<1> HIDE DEF d
<1>6. Leads(d, n + 1)
  BY <1>2, <1>3, <1>5 DEF Leads
<1>7. Len(d) = n + 1
  BY <1>2, <1>3
<1>8. d \in Chains(t)
  BY <1>4, <1>6, <1>7, ChainsLead, LeadsAreShort
<1> QED
  BY <1>4, <1>8

\* From every ancestor a chain leads to the skill.
LEMMA AncestorsLead ==
    ASSUME ~Cyclic, NEW t \in Skills, NEW a \in Ancestors(t)
    PROVE  \E c \in Chains(t) : c[1] = a
<1> DEFINE S == {m \in Skills : \E c \in Chains(t) : c[1] = m}
<1>1. <<t>> \in Chains(t) /\ <<t>>[1] = t
  <2>1. Leads(<<t>>, 1)
    BY DEF Leads
  <2>2. Len(<<t>>) = 1 /\ <<t>>[1] = t
    OBVIOUS
  <2> QED
    BY <2>1, <2>2, ChainsLead, LeadsAreShort
<1>2. Prerequisites(t) \subseteq S
  <2> SUFFICES ASSUME NEW m \in Prerequisites(t) PROVE m \in S
    OBVIOUS
  <2>1. m \in Skills
    BY DEF Prerequisites
  <2> QED
    BY <1>1, <2>1, ChainsGrow
<1>3. ASSUME NEW s \in S, NEW m \in Prerequisites(s) PROVE m \in S
  <2>1. m \in Skills
    BY DEF Prerequisites
  <2> QED
    BY <2>1, ChainsGrow
<1>4. a \in S
  BY <1>2, <1>3 DEF Ancestors
<1> QED
  BY <1>4

\* The cost of the way up to each skill.
Sums(u, c, n) == u = [i \in 1..n |-> IF i = 1 THEN 0 ELSE u[i - 1] + difficulty[c[i]]]

LEMMA SumsExist ==
    ASSUME NEW c, NEW n \in Nat \ {0}
    PROVE  \E u : Sums(u, c, n)
<1> DEFINE open == {k \in 1..n : ~ \E u : Sums(u, c, k)}
<1>1. SUFFICES ASSUME open # {} PROVE FALSE
  <2>1. n \in 1..n
    OBVIOUS
  <2> QED
    BY <2>1
<1>2. open \subseteq Nat
  OBVIOUS
<1>3. PICK k \in open : \A j \in open : k <= j
  BY <1>1, <1>2, LeastExists
<1>4. k \in 1..n /\ ~ \E u : Sums(u, c, k)
  OBVIOUS
<1>5. CASE k = 1
  <2> DEFINE u == [i \in 1..1 |-> 0]
  <2>1. Sums(u, c, 1)
    BY DEF Sums
  <2> QED
    BY <1>4, <1>5, <2>1
<1>6. CASE k # 1
  <2>1. k - 1 \in 1..n /\ ~ (k <= k - 1)
    BY <1>4, <1>6
  <2>2. PICK u : Sums(u, c, k - 1)
    BY <1>3, <2>1
  <2> DEFINE v == [i \in 1..k |-> IF i = k THEN u[k - 1] + difficulty[c[k]] ELSE u[i]]
  <2>3. \A i \in 1..(k - 1) : v[i] = u[i] /\ u[i] = (IF i = 1 THEN 0 ELSE u[i - 1] + difficulty[c[i]])
    BY <1>4, <2>2 DEF Sums
  <2>4. ASSUME NEW i \in 1..k PROVE v[i] = IF i = 1 THEN 0 ELSE v[i - 1] + difficulty[c[i]]
    <3>1. v[k] = u[k - 1] + difficulty[c[k]]
      BY <1>4
    <3>2. i # 1 => i - 1 \in 1..(k - 1)
      BY <1>4
    <3>3. i # k => i \in 1..(k - 1)
      BY <1>4
    <3> HIDE DEF v
    <3>4. CASE i = k
      BY <1>6, <2>3, <3>1, <3>2, <3>4
    <3>5. CASE i # k
      BY <2>3, <3>2, <3>3, <3>5
    <3> QED
      BY <3>4, <3>5
  <2>5. v = [i \in 1..k |-> v[i]]
    OBVIOUS
  <2> HIDE DEF v
  <2>6. Sums(v, c, k)
    BY <2>4, <2>5 DEF Sums
  <2> QED
    BY <1>4, <2>6
<1> QED
  BY <1>5, <1>6

LEMMA CostIsASum ==
    ASSUME NEW c, NEW n \in Nat \ {0}, Len(c) = n
    PROVE  \E u : Sums(u, c, n) /\ Cost(c) = u[n]
<1> DEFINE u == CHOOSE upTo : upTo = [i \in 1..Len(c) |->
                  IF i = 1 THEN 0 ELSE upTo[i - 1] + difficulty[c[i]]]
<1>1. Cost(c) = u[Len(c)]
  BY DEF Cost
<1>2. u = [i \in 1..Len(c) |-> IF i = 1 THEN 0 ELSE u[i - 1] + difficulty[c[i]]]
  BY SumsExist DEF Sums
<1> HIDE DEF u
<1> QED
  BY <1>1, <1>2 DEF Sums

LEMMA SumsAreNumbers ==
    ASSUME TypeOK, NEW c, NEW n, Leads(c, n), NEW u, Sums(u, c, n)
    PROVE  \A i \in 1..n : u[i] \in Nat
<1> DEFINE wrong == {i \in 1..n : u[i] \notin Nat}
<1>1. n \in Nat \ {0}
  BY DEF Leads
<1>2. SUFFICES ASSUME wrong # {} PROVE FALSE
  OBVIOUS
<1>3. wrong \subseteq Nat
  OBVIOUS
<1>4. PICK i \in wrong : \A j \in wrong : i <= j
  BY <1>2, <1>3, LeastExists
<1>5. i \in 1..n /\ u[i] \notin Nat /\ u[i] = IF i = 1 THEN 0 ELSE u[i - 1] + difficulty[c[i]]
  BY DEF Sums
<1>6. i # 1
  BY <1>5
<1>7. i - 1 \in 1..n /\ ~ (i <= i - 1)
  BY <1>1, <1>5, <1>6
<1>8. u[i - 1] \in Nat
  BY <1>4, <1>7
<1>9. difficulty[c[i]] \in Nat
  BY <1>5, DifficultiesArePositive DEF TypeOK, Leads
<1> QED
  BY <1>5, <1>6, <1>8, <1>9

\* What a chain goes on with after its second skill, or a later one, is cheaper than it.
LEMMA RestIsCheaper ==
    ASSUME TypeOK, NEW t, NEW c \in Chains(t), NEW i \in 2..Len(c)
    PROVE  \E d \in Chains(t) : d[1] = c[i] /\ ~ (Cost(c) <= Cost(d))
<1>1. PICK n : n = Len(c) /\ Leads(c, n) /\ c[n] = t /\ n \in 1..Cardinality(Skills)
  BY ChainsLead
<1>2. n \in Nat \ {0} /\ c \in [1..n -> Skills] /\ Cardinality(Skills) \in Nat /\ i \in 2..n
  BY <1>1, FS_CardinalityType, SkillsAreNumbered DEF Leads
<1>3. PICK l : l = n - i + 1
  OBVIOUS
<1>4. l \in Nat \ {0} /\ l < n /\ l + i - 1 = n
  BY <1>2, <1>3
<1> DEFINE d == [k \in 1..l |-> c[k + i - 1]]
<1>5. \A k \in 1..l : k + i - 1 \in 1..n
  BY <1>2, <1>4
<1>6. d \in [1..l -> Skills] /\ Len(d) = l /\ d[1] = c[i] /\ d[l] = t
  <2>1. d \in [1..l -> Skills]
    BY <1>2, <1>5
  <2>2. Len(d) = l
    BY <1>4, <2>1
  <2> QED
    BY <1>1, <1>2, <1>4, <2>1, <2>2
<1>7. ASSUME NEW k \in 1..(l - 1) PROVE <<d[k], d[k + 1]>> \in edges
  <2>1. k + i - 1 \in 1..(n - 1) /\ (k + 1) + i - 1 = (k + i - 1) + 1 /\ k \in 1..l /\ k + 1 \in 1..l
    BY <1>2, <1>4
  <2>2. <<c[k + i - 1], c[(k + i - 1) + 1]>> \in edges
    BY <1>1, <2>1 DEF Leads
  <2> QED
    BY <2>1, <2>2
<1>8. \A k \in 1..l : d[k] = c[k + i - 1]
  OBVIOUS
<1> HIDE DEF d
<1>9. Leads(d, l)
  BY <1>4, <1>6, <1>7 DEF Leads
<1>10. d \in Chains(t)
  BY <1>1, <1>2, <1>4, <1>6, <1>9, ChainsLead
<1>11. PICK u : Sums(u, c, n) /\ Cost(c) = u[n]
  BY <1>1, <1>2, CostIsASum
<1>12. PICK v : Sums(v, d, l) /\ Cost(d) = v[l]
  BY <1>4, <1>6, CostIsASum
<1>13. (\A k \in 1..n : u[k] \in Nat) /\ (\A k \in 1..l : v[k] \in Nat)
  BY <1>1, <1>9, <1>11, <1>12, SumsAreNumbers
<1>14. u[i] > 0
  <2>1. i \in 1..n /\ i # 1 /\ i - 1 \in 1..n
    BY <1>2
  <2>2. u[i] = u[i - 1] + difficulty[c[i]]
    BY <1>11, <2>1 DEF Sums
  <2>3. difficulty[c[i]] \in Nat \ {0}
    BY <1>2, <2>1, DifficultiesArePositive DEF TypeOK
  <2> QED
    BY <1>13, <2>1, <2>2, <2>3
<1>15. \A k \in 1..l : u[k + i - 1] = u[i] + v[k]
  <2> DEFINE wrong == {k \in 1..l : u[k + i - 1] # u[i] + v[k]}
  <2>1. SUFFICES ASSUME wrong # {} PROVE FALSE
    OBVIOUS
  <2>2. wrong \subseteq Nat
    OBVIOUS
  <2>3. PICK k \in wrong : \A j \in wrong : k <= j
    BY <2>1, <2>2, LeastExists
  <2>4. k \in 1..l /\ u[k + i - 1] # u[i] + v[k]
    OBVIOUS
  <2>5. v[k] = IF k = 1 THEN 0 ELSE v[k - 1] + difficulty[d[k]]
    BY <1>12, <2>4 DEF Sums
  <2>6. k # 1
    <3>1. 1 + i - 1 = i /\ i \in 1..n
      BY <1>2
    <3> QED
      BY <1>13, <2>4, <2>5, <3>1
  <2>7. k - 1 \in 1..l /\ ~ (k <= k - 1) /\ (k - 1) + i - 1 = (k + i - 1) - 1
        /\ k + i - 1 \in 1..n /\ k + i - 1 # 1 /\ (k + i - 1) - 1 \in 1..n /\ i \in 1..n
    BY <1>2, <1>4, <2>4, <2>6
  <2>8. u[(k + i - 1) - 1] = u[i] + v[k - 1]
    <3>1. k - 1 \notin wrong
      BY <2>3, <2>7
    <3> QED
      BY <2>7, <3>1
  <2>9. u[k + i - 1] = u[(k + i - 1) - 1] + difficulty[d[k]]
    BY <1>8, <1>11, <2>4, <2>7 DEF Sums
  <2>10. difficulty[d[k]] \in Nat
    BY <1>6, <2>4, DifficultiesArePositive DEF TypeOK
  <2> QED
    BY <1>13, <2>4, <2>5, <2>6, <2>7, <2>8, <2>9, <2>10
<1>16. Cost(c) = u[i] + Cost(d) /\ Cost(d) \in Nat /\ u[i] \in Nat
  <2>1. l \in 1..l /\ i \in 1..n
    BY <1>2, <1>4
  <2> QED
    BY <1>4, <1>11, <1>12, <1>13, <1>15, <2>1
<1>17. ~ (Cost(c) <= Cost(d))
  BY <1>14, <1>16
<1> QED
  BY <1>6, <1>10, <1>17

\* What prerequisite_chain finds, whichever of several cheapest it is.
LEMMA CheapestIsDirect ==
    ASSUME TypeOK, ~Cyclic, NEW t \in Skills, NEW c \in Cheapest(known, t)
    PROVE  /\ Len(c) \in Nat \ {0} /\ c[Len(c)] = t
           /\ \A i \in 1..(Len(c) - 1) : <<c[i], c[i + 1]>> \in edges
           /\ \A i \in 2..(Len(c) - 1) : c[i] \notin known
           /\ known \cap Ancestors(t) # {} => c[1] \in known
<1> DEFINE routes == {d \in Chains(t) : d[1] \in Sources(known, t)}
<1>1. known \cap Ancestors(t) # {} => routes # {}
  <2> SUFFICES ASSUME NEW a \in known \cap Ancestors(t) PROVE routes # {}
    OBVIOUS
  <2>1. PICK d \in Chains(t) : d[1] = a
    BY AncestorsLead
  <2>2. a \in Sources(known, t)
    BY DEF Sources
  <2> QED
    BY <2>1, <2>2
<1>2. CASE routes = {}
  <2>1. c = <<t>>
    BY <1>2 DEF Cheapest
  <2>2. Len(c) = 1 /\ c[1] = t
    BY <2>1
  <2> QED
    BY <1>1, <1>2, <2>2
<1>3. CASE routes # {}
  <2>1. c \in routes /\ \A d \in routes : Cost(c) <= Cost(d)
    BY <1>3 DEF Cheapest
  <2>2. Leads(c, Len(c)) /\ c[Len(c)] = t
    BY <2>1, ChainsLead
  <2>3. ASSUME NEW i \in 2..(Len(c) - 1), c[i] \in known PROVE FALSE
    <3>1. Len(c) \in Nat \ {0} /\ i \in 1..Len(c) /\ i \in 2..Len(c) /\ Len(c) \in (i + 1)..Len(c)
      BY <2>2 DEF Leads
    <3>2. c[i] \in Ancestors(t)
      BY <2>2, <3>1, LeadersAreAncestors
    <3>3. PICK d \in Chains(t) : d[1] = c[i] /\ ~ (Cost(c) <= Cost(d))
      BY <2>1, <3>1, RestIsCheaper
    <3>4. d \in routes
      BY <2>3, <3>2, <3>3 DEF Sources
    <3> QED
      BY <2>1, <3>3, <3>4
  <2>4. known \cap Ancestors(t) # {} => c[1] \in known
    BY <2>1 DEF Sources
  <2> QED
    BY <2>2, <2>3, <2>4 DEF Leads
<1> QED
  BY <1>2, <1>3

\* Nothing happens to a chain once it is the answer.
ChainInv ==
    /\ phase = "skill" => \E t \in Skills : required = {t}
    /\ chain # <<>> => phase = "answered"
    /\ ChainIsDirect

LEMMA NextKeepsChainInv ==
    ASSUME IInv, PlanInv, ChainInv, [Next]_vars
    PROVE  ChainInv'
<1>1. CASE BuildGraph \/ Emit
  BY <1>1 DEF BuildGraph, Emit, ChainInv, ChainIsDirect
<1>2. ASSUME NEW k, NEW r, ForJob(k, r) PROVE ChainInv'
  BY <1>2 DEF ForJob, Ask, ChainInv, ChainIsDirect
<1>3. ASSUME NEW k, NEW t \in Skills, ForSkill(k, t) PROVE ChainInv'
  BY <1>3 DEF ForSkill, Ask, ChainInv, ChainIsDirect
<1>4. CASE AnswerJob \/ UNCHANGED vars
  BY <1>4 DEF AnswerJob, vars, ChainInv, ChainIsDirect, Ancestors, Prerequisites
<1>5. CASE AnswerSkill
  <2>1. PICK t \in Skills : required = {t} /\ chain' \in Cheapest(known, t)
    BY <1>5 DEF AnswerSkill, ChainInv
  <2>2. phase' = "answered" /\ UNCHANGED <<edges, known, required>>
    BY <1>5 DEF AnswerSkill
  <2>3. ~Cyclic /\ TypeOK
    BY <1>5 DEF AnswerSkill, PlanInv, IInv
  <2>4. \A n : Ancestors(n)' = Ancestors(n)
    BY <2>2 DEF Ancestors, Prerequisites
  <2> PICK c : c = chain'
    OBVIOUS
  <2>5. /\ c[Len(c)] = t
        /\ \A i \in 1..(Len(c) - 1) : <<c[i], c[i + 1]>> \in edges
        /\ \A i \in 2..(Len(c) - 1) : c[i] \notin known
        /\ known \cap Ancestors(t) # {} => c[1] \in known
    BY <2>1, <2>3, CheapestIsDirect
  <2>6. /\ {chain'[Len(chain')]} = required'
        /\ \A i \in 1..(Len(chain') - 1) : <<chain'[i], chain'[i + 1]>> \in edges'
        /\ \A i \in 2..(Len(chain') - 1) : chain'[i] \notin known'
        /\ known' \cap Ancestors(t)' # {} => chain'[1] \in known'
    BY <2>1, <2>2, <2>4, <2>5
  <2>7. chain'[Len(chain')] = t
    BY <2>5
  <2> QED
    BY <2>2, <2>6, <2>7, Zenon DEF ChainInv, ChainIsDirect
<1> QED
  BY <1>1, <1>2, <1>3, <1>4, <1>5 DEF Next

\* A chain follows prerequisite edges to the skill asked for, meets no known skill on the
\* way, and starts from a known one where one leads there (prerequisite_chain).
THEOREM ChainsAreDirect == Spec => []ChainIsDirect
<1>1. Init => ChainInv
  BY DEF Init, ChainInv, ChainIsDirect
<1>2. IInv /\ PlanInv /\ ChainInv /\ [Next]_vars => (IInv /\ PlanInv /\ ChainInv)'
  BY NextPreserves, NextKeepsPlanInv, NextKeepsChainInv
<1>3. ChainInv => ChainIsDirect
  BY DEF ChainInv
<1> QED
  BY <1>1, <1>2, <1>3, InitEstablishes, InitPlanInv, PTL DEF Spec
=============================================================================
