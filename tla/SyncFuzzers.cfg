SPECIFICATION FairSpec
CONSTANTS
    Nodes = {1, 2, 3}
    Mains = {1}
    NoNode = 0
    Cases = {"a", "b", "c"}
    Fleets <- MCFleets
INVARIANT CursorsSound
PROPERTIES
    Converges
    MainRules
    ElectionWorks
