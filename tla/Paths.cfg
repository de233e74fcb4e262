\* The planner over every graph on four skills with edges among the eight of EdgeBound.
CONSTANTS
    Skills = {1, 2, 3, 4}
    Gone = {5}
    Edges <- EdgeBound
    Difficulties = {1, 2}
    Requirable = {3, 4, 5}
SPECIFICATION Spec
INVARIANTS Followable PlanCloses PlanIsLeast ChainIsDirect
\* A request ends when it is answered or the graph is refused.
CHECK_DEADLOCK FALSE
