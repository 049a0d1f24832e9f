------------------------------ MODULE MCSpawners ------------------------------
EXTENDS MultipleSpawner

CONSTANT Self     \* MPI_COMM_SELF

SomeNumbers == -1..2
SomeUniverses == {1, Unknown}
SizeOfComm(c) == IF c = Self THEN 1 ELSE 2
=============================================================================
