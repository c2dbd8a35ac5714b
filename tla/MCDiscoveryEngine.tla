------------------------- MODULE MCDiscoveryEngine -------------------------
EXTENDS DiscoveryEngine, TLC
\* Experiences are told apart by their state only, and so are calls.
CampaignSymmetry == Permutations(Experiences) \cup Permutations(Calls)
=============================================================================
