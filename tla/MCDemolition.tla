---------------------------- MODULE MCDemolition ----------------------------
EXTENDS DemolitionStages, TLC

RegularSymmetry == Permutations(Player \ {Host})

=============================================================================
