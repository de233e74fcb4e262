\* Three accounts of eight kinds, five postings with and without a vector.
SPECIFICATION RankSpec
CONSTANTS
    People = {1, 2, 3}
    Profiles <- ProfileBound
    Postings <- PostingBound
    Limits = {2, 5}
INVARIANTS TwoSidesAgree FittingAreListed LearningPays
\* A request ends when it is answered.
CHECK_DEADLOCK FALSE
