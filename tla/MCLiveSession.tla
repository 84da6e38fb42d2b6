--------------------------- MODULE MCLiveSession ---------------------------
EXTENDS LiveSession, TLC

\* Requests are interchangeable, and so are the processes that serve them.
Symmetry == Permutations(Commands) \cup Permutations(Submitters)
              \cup Permutations(Joiners) \cup Permutations(AnswerIds)
=============================================================================
