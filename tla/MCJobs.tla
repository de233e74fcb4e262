------------------------------- MODULE MCJobs -------------------------------
EXTENDS Jobs, SequencesExt

Symmetry == Permutations(Requests)

\* A name inside a longer name, a name that ends in punctuation and one that needs its case,
\* which is a prefix of it but for the case.
VocabularyBound ==
    {[skill |-> "React", terms |-> {<<"r">>}, requires_exact_case |-> FALSE],
     [skill |-> "React Native", terms |-> {<<"r", " ", "n">>, <<"n", "r">>}, requires_exact_case |-> FALSE],
     [skill |-> "C", terms |-> {<<"C">>}, requires_exact_case |-> TRUE],
     [skill |-> "C++", terms |-> {<<"c", "+">>}, requires_exact_case |-> FALSE]}

WordCharBound == {"r", "n", "c", "C"}
Symbols == WordCharBound \cup {" ", "+"}
LowerBound == [s \in Symbols |-> IF s = "C" THEN "c" ELSE s]

\* Every text of at most five symbols.
TextBound == SeqOf(Symbols, 5)

TitleBound == {<<"n">>, <<"r">>}

\* A description that names three skills and one that names none.  The second title names a
\* skill that is part of the first description's, and is all that the other can derive.
DescriptionBound == {<<"r", " ", "n", "+", "C">>, <<"n">>}
=============================================================================
