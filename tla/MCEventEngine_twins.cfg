\* Two threads join the same containers.
SPECIFICATION Spec
CONSTANTS
    node1 = node1
    node2 = node2
    node3 = node3
    stopC = stopC
    pairAB = pairAB
    onlyC = onlyC
    heal = heal
    shape = shape
    cutAB = cutAB
    cutC = cutC
    last = last
    Containers = {node1, node2, node3}
    Events = {pairAB, last}
    Unreliable = {}
    DependOn <- Nothing
    Commands <- NoCommands
    CommandFails = {}
    Do <- TwinDo
INVARIANT NoArtifactsLeft
CHECK_DEADLOCK FALSE
