SPECIFICATION Spec
CONSTANTS
    MaxEnergy = 6
    Log1p <- MCLog1p
INVARIANTS
    FrugalNeverWorse
    FrugalScoresMore
