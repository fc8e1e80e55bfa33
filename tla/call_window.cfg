SPECIFICATION Spec
CONSTANT LastMinute = 3
INVARIANT WindowRespected
