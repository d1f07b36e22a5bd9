\* No event joins a container that another one uses; all else may run at once.
SPECIFICATION FairSpec
CONSTANTS
    node1 = node1
    node2 = node2
    node3 = node3
    stopC = stopC
    pairAB = pairAB
    onlyC = onlyC
    heal = heal
    shape = shape
    cutAB = cutAB
    cutC = cutC
    last = last
    Containers = {node1, node2, node3}
    Events = {stopC, pairAB, onlyC, heal, shape, cutAB, cutC, last}
    Unreliable = {node2}
    DependOn <- OrderedDependOn
    Commands <- OrderedCommands
    CommandFails = {last}
    Do <- OrderedDo
INVARIANTS
    DependenciesActFirst
    TableMatchesDocker
    EffectsHitTheirNetwork
    NoArtifactsLeft
PROPERTIES
    RunEnds
    ImplementsEventOrder
CHECK_DEADLOCK FALSE
