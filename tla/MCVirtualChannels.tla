------------------------- MODULE MCVirtualChannels -------------------------
EXTENDS VirtualChannels, TLC

MCBudgets == {<<2, 0>>, <<1, 2>>}
Symmetry == Permutations(Rigs) \cup Permutations(Sessions)
            \cup Permutations(Workers) \cup Permutations(Freqs)
=============================================================================
