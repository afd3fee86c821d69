------------------------------ MODULE MCReaders -------------------------------
EXTENDS Readers

\* The keys are interchangeable, and so are the calls: nothing orders them.
Symmetry == Permutations(Keys) \cup Permutations(Readers)
=============================================================================
