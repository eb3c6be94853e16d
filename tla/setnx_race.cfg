\* SetNx: two commands of one key on their worker, another writer making up
\* to two changes to the row, one failing SQL statement, response deadlines.
\* The worker may idle for good on an empty queue.  No symmetry: the run
\* checks a liveness property.
CONSTANTS
  s1 = s1  s2 = s2  v1 = v1  v2 = v2
  Cmds <- MCCmds
  Vals <- MCVals
  MaxFaults = 1
  MaxOther = 2
  Nil = Nil
SPECIFICATION Spec
CHECK_DEADLOCK FALSE
INVARIANTS TypeOK OkMeansCreated ErrorWritesNothing ExistShowsCommittedRow
PROPERTY SetNxAnswered
