\* Two appservice workers and one restart of the process.
CONSTANTS
    a = a  b = b
    Workers <- MCWorkers2
    MaxID = 6
    MaxRestarts = 1
SPECIFICATION Spec
\* The model stops only where last_id reaches the bound MaxID.
CHECK_DEADLOCK FALSE
INVARIANT TypeOK
INVARIANT DuplicatesBounded
