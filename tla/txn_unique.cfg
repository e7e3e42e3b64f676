\* Two appservice workers and one restart of the process: both ways an ID
\* is handed out twice (interleaved calls, a restart) are reachable.
CONSTANTS
    a = a  b = b
    Workers <- MCWorkers2
    MaxID = 4
    MaxRestarts = 1
SPECIFICATION Spec
INVARIANT TxnIDsUnique
