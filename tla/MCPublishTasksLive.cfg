\* Two nodes, whose results make a task partial, and progress; no symmetry.
SPECIFICATION LiveSpec
CONSTANTS
    n1 = n1
    n2 = n2
    w1 = w1
    Nodes <- TwoNodes
    Workers <- OneWorker
    Publisher = Publisher
    NoNode = NoNode
    NoReport = NoReport
    SlowRendering = FALSE
    MaxTasks = 2
    MaxVersion = 1
INVARIANT SucceededMeansConfirmed
PROPERTY TasksSettle
