SPECIFICATION Spec
CONSTANTS
    Skills = {s1, s2}
    Requests = {r1, r2}
    Parses = {p1}
    NoRow = NoRow
    Proficiencies = {0, 3}
SYMMETRY Symmetry
PROPERTIES
    RulingsSurviveParsing
    StandingIsAskedFor
    RatingsAreKept
