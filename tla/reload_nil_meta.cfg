\* SqlGetBatch, same bounds as get_batch: a Get accepted by get() must find
\* its table and fields again when makeSqlTask and do() run.
CONSTANTS
  c1 = c1  c2 = c2  k1 = k1  k2 = k2
  Cmds <- MCCmds
  Keys <- MCKeys
  Fields <- MCFields
  TableOf <- MCTableOf
  Defs <- MCDefs
  IntText = {"0", "1"}
  Versions = {1, 2}
  NoVersion = NoVersion
  Nil = Nil
SPECIFICATION Spec
SYMMETRY MCSymmetry
CHECK_DEADLOCK FALSE
INVARIANT MetaLookupsSucceed
