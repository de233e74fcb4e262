SPECIFICATION Spec
CONSTANTS
    Skills = {1, 2}
    Jobs = {j1}
    Goals = {g1, g2}
    Requests = {r1, r2}
    Requirements <- RequirementBound
    Similarities = {20, 80}
    Gone = Gone
SYMMETRY Symmetry
INVARIANTS OneActiveGoal AchievedWasReached
PROPERTY HistoryIsKept
