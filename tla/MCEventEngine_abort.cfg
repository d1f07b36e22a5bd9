\* A command fails.
SPECIFICATION FairSpec
CONSTANTS
    node1 = node1
    node2 = node2
    node3 = node3
    stopC = stopC
    pairAB = pairAB
    onlyC = onlyC
    heal = heal
    shape = shape
    cutAB = cutAB
    cutC = cutC
    last = last
    Containers = {node1, node2, node3}
    Events = {stopC, heal}
    Unreliable = {}
    DependOn <- ChainDependOn
    Commands <- ChainCommands
    CommandFails = {stopC}
    Do <- ChainDo
PROPERTY RunEnds
CHECK_DEADLOCK FALSE
