---------------------------- MODULE LearningPath ----------------------------
(***************************************************************************)
(* The planner: build_graph, compute_learning_path and prerequisite_chain  *)
(* of services/skill_graph.py, driven by LearningPathService.  The search  *)
(* is the loop of networkx's lexicographical_topological_sort, one emitted *)
(* skill at a time.                                                        *)
(*                                                                         *)
(* A skill is the number of its canonical name in alphabetical order.      *)
(***************************************************************************)
EXTENDS FiniteSets, Integers, Sequences

CONSTANTS
    Skills,       \* the nodes of the graph
    Gone,         \* ids a job or an edge may name that are no node
    Edges,        \* bound: the edges a graph may have, <<prerequisite, skill>>
    Difficulties,
    Requirable    \* bound: the ids jobs ask for

ASSUME SkillsAreNumbered == Skills \subseteq Nat /\ IsFiniteSet(Skills)
ASSUME GoneAreNoNodes == Gone \cap Skills = {}
ASSUME EdgesArePairs == Edges \subseteq (Skills \cup Gone) \X (Skills \cup Gone)
ASSUME DifficultiesArePositive == Difficulties \subseteq Nat \ {0}

VARIABLES edges, difficulty, known, required, phase, plan, chain

vars == <<edges, difficulty, known, required, phase, plan, chain>>

Init ==
    /\ edges \in SUBSET Edges
    /\ difficulty \in [Skills -> Difficulties]
    /\ known = {}
    /\ required = {}
    /\ phase = "loaded"
    /\ plan = <<>>
    /\ chain = <<>>

-----------------------------------------------------------------------------

Prerequisites(n) == {m \in Skills : <<m, n>> \in edges}

\* nx.ancestors: the least set with the prerequisites of n that is closed under
\* prerequisites.
Ancestors(n) ==
    {m \in Skills : \A S \in SUBSET Skills :
        Prerequisites(n) \subseteq S /\ (\A s \in S : Prerequisites(s) \subseteq S) => m \in S}

Targets == (required \cap Skills) \ known

\* Mutant: the direct prerequisites alone.
Needed_OneLevel == (Targets \cup UNION {Prerequisites(t) : t \in Targets}) \ known

Needed == (Targets \cup UNION {Ancestors(t) : t \in Targets}) \ known

Planned == {plan[i] : i \in 1..Len(plan)}

\* The order of the heap: easier first, then by name.
Before(m, n) == difficulty[m] < difficulty[n] \/ (difficulty[m] = difficulty[n] /\ m < n)

\* Mutant: one unlocked prerequisite is enough.
Ready_AnyPrerequisite ==
    {n \in Needed \ Planned :
        Prerequisites(n) \cap Needed = {} \/ Prerequisites(n) \cap Planned # {}}

\* Skills whose prerequisites within the induced subgraph have been emitted.
Ready == {n \in Needed \ Planned : Prerequisites(n) \cap Needed \subseteq Planned}

-----------------------------------------------------------------------------

Cyclic == \E n \in Skills : n \in Ancestors(n)
Dangling == \E e \in edges : e[1] \in Gone \/ e[2] \in Gone

\* Mutant: cycles are not looked for.
BuildGraph_NoCycleCheck ==
    /\ phase = "loaded"
    /\ phase' = IF Dangling THEN "refused" ELSE "built"
    /\ UNCHANGED <<edges, difficulty, known, required, plan, chain>>

BuildGraph ==
    /\ phase = "loaded"
    /\ phase' = IF Dangling \/ Cyclic THEN "refused" ELSE "built"
    /\ UNCHANGED <<edges, difficulty, known, required, plan, chain>>

\* for_job asks for the skills of a job, for_skill for one skill and for the
\* cheapest chain to it.
Ask(k, r) ==
    /\ phase = "built"
    /\ known' = k
    /\ required' = r
    /\ UNCHANGED <<edges, difficulty, plan, chain>>

ForJob(k, r) == Ask(k, r) /\ phase' = "job"

ForSkill(k, t) == Ask(k, {t}) /\ phase' = "skill"

\* Mutant: the heap is keyed by name alone.
Emit_ByName ==
    /\ phase \in {"job", "skill"}
    /\ \E n \in Ready : /\ \A m \in Ready \ {n} : n < m
                        /\ plan' = Append(plan, n)
    /\ UNCHANGED <<edges, difficulty, known, required, phase, chain>>

\* The least skill of the heap is emitted and unlocks its successors.
Emit ==
    /\ phase \in {"job", "skill"}
    /\ \E n \in Ready : /\ \A m \in Ready \ {n} : Before(n, m)
                        /\ plan' = Append(plan, n)
    /\ UNCHANGED <<edges, difficulty, known, required, phase, chain>>

AnswerJob ==
    /\ phase = "job"
    /\ Ready = {}
    /\ phase' = "answered"
    /\ UNCHANGED <<edges, difficulty, known, required, plan, chain>>

-----------------------------------------------------------------------------
(* prerequisite_chain.                                                     *)

Chains(t) ==
    {c \in UNION {[1..n -> Skills] : n \in 1..Cardinality(Skills)} :
        /\ c[Len(c)] = t
        /\ \A i \in 1..(Len(c) - 1) : <<c[i], c[i + 1]>> \in edges}

\* The weight of an edge is the difficulty of the skill it unlocks.
Cost(c) ==
    LET upTo[i \in 1..Len(c)] == IF i = 1 THEN 0 ELSE upTo[i - 1] + difficulty[c[i]]
    IN  upTo[Len(c)]

\* Mutant: a known skill is no better a start than any root.
Sources_RootsToo(k, t) ==
    {a \in Ancestors(t) : a \in k \/ Prerequisites(a) = {}}

Sources(k, t) ==
    IF Ancestors(t) \cap k # {} THEN Ancestors(t) \cap k
    ELSE {a \in Ancestors(t) : Prerequisites(a) = {}}

\* Which of several cheapest chains is found is left open: the sources are a set.
Cheapest(k, t) ==
    LET routes == {c \in Chains(t) : c[1] \in Sources(k, t)}
    IN  IF routes = {} THEN {<<t>>}
        ELSE {c \in routes : \A d \in routes : Cost(c) <= Cost(d)}

AnswerSkill ==
    /\ phase = "skill"
    /\ Ready = {}
    /\ \E t \in required : chain' \in Cheapest(known, t)
    /\ phase' = "answered"
    /\ UNCHANGED <<edges, difficulty, known, required, plan>>

Next ==
    \/ BuildGraph
    \/ \E k \in SUBSET Skills, r \in SUBSET Requirable : ForJob(k, r)
    \/ \E k \in SUBSET Skills, t \in Skills : ForSkill(k, t)
    \/ Emit
    \/ AnswerJob
    \/ AnswerSkill

Spec == Init /\ [][Next]_vars

-----------------------------------------------------------------------------
(* Properties.                                                             *)

\* Every variable has its type.
TypeOK ==
    /\ edges \subseteq Edges
    /\ difficulty \in [Skills -> Difficulties]
    /\ known \subseteq Skills
    /\ required \subseteq Requirable \cup Skills
    /\ phase \in {"loaded", "refused", "built", "job", "skill", "answered"}
    /\ plan \in Seq(Skills)
    /\ chain \in Seq(Skills)

\* A plan can be followed from the first step to the last: whoever starts a step
\* holds each of its direct prerequisites, known before or learned in an earlier
\* step, and no step is repeated or already known (compute_learning_path).
Followable ==
    \A i \in 1..Len(plan) :
        /\ Prerequisites(plan[i]) \subseteq known \cup {plan[j] : j \in 1..(i - 1)}
        /\ plan[i] \notin known
        /\ \A j \in 1..(i - 1) : plan[i] # plan[j]

\* The finished plan reaches every requirement the graph knows, and contains
\* nothing that is neither required nor a prerequisite of something required.
PlanCloses ==
    phase = "answered" =>
        /\ required \cap Skills \subseteq known \cup Planned
        /\ \A n \in Planned : n \in required \/ \E t \in required \cap Planned : n \in Ancestors(t)

\* The answer is a function of the request (the reason for the tie-break): of all
\* followable orders of the same skills it is the first when the orders are
\* compared step by step by difficulty and name.
Orders(S) == {q \in [1..Cardinality(S) -> S] :
                 \A i, j \in DOMAIN q : /\ i # j => q[i] # q[j]
                                        /\ <<q[i], q[j]>> \in edges => i < j}

PlanIsLeast ==
    phase = "answered" =>
        \A q \in Orders(Planned) \ {plan} :
            \E i \in DOMAIN q : /\ Before(plan[i], q[i])
                                /\ \A j \in 1..(i - 1) : plan[j] = q[j]

\* A chain leads along prerequisite edges to the skill that was asked for, and
\* nothing on it but its first skill is known already; it starts from a known
\* skill whenever one leads to the target (prerequisite_chain).
ChainIsDirect ==
    chain # <<>> =>
        /\ {chain[Len(chain)]} = required
        /\ \A i \in 1..(Len(chain) - 1) : <<chain[i], chain[i + 1]>> \in edges
        /\ \A i \in 2..(Len(chain) - 1) : chain[i] \notin known
        /\ known \cap Ancestors(chain[Len(chain)]) # {} => chain[1] \in known
=============================================================================
