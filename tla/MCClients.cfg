\* The node and a machine (machines share the node only), every program run
\* twice, three faults.
SPECIFICATION Spec
CONSTANTS
    Machines = {m1}
    MaxAttempts = 2
    MaxFaults = 3
INVARIANTS
    TypeOK
    StartedMachineWasGranted
    OneRunPerMachine
PROPERTY
    EveryRunEnds
\* Programs end, and are run a bounded number of times.
CHECK_DEADLOCK FALSE
