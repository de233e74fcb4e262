SPECIFICATION Spec
CONSTANTS
    Titles <- TitleBound
    Descriptions <- DescriptionBound
    LineBreak = "+"
    Vocabulary <- VocabularyBound
    WordChars <- WordCharBound
    Lower <- LowerBound
    Texts <- TextBound
    Requests = {r1, r2}
    Workers = {w1}
    MaxCommits = 4
    MaxFaults = 1
    Gone = Gone
SYMMETRY Symmetry
INVARIANTS PatternsClaimMentions SkillsFollowDescription VectorFollowsDescription
\* The posting may be deleted, and the bounds reached.
CHECK_DEADLOCK FALSE
