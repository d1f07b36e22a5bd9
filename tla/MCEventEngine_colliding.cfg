\* Nothing keeps the events apart that join and cut a network.
SPECIFICATION FairSpec
CONSTANTS
    node1 = node1
    node2 = node2
    node3 = node3
    stopC = stopC
    pairAB = pairAB
    onlyC = onlyC
    heal = heal
    shape = shape
    cutAB = cutAB
    cutC = cutC
    last = last
    Containers = {node1, node2, node3}
    Events = {onlyC, cutAB, cutC, last}
    Unreliable = {}
    DependOn <- CollidingDependOn
    Commands <- NoCommands
    CommandFails = {}
    Do <- CollidingDo
PROPERTY RunEnds
CHECK_DEADLOCK FALSE
