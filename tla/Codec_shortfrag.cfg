\* ReceiveCall on every stream that carries one well-formed call header
\* behind a record mark claiming any length from 0 upwards.
CONSTANT W = 3
SPECIFICATION SpecStreams
\* Each state is one fixed input; there is no step to take.
CHECK_DEADLOCK FALSE
INVARIANT ReceiveCallNoPanic
