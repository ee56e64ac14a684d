----------------------------- MODULE MCCommunity -----------------------------
\* Instance of Community for TLC.
EXTENDS Community, TLC

Symmetry == Permutations(Sites \ {Primary}) \cup Permutations(Requests)
              \cup Permutations(Tokens)
==============================================================================
