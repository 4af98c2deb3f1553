SPECIFICATION Spec
CONSTANTS
  Commands = {p1, p2}
  runs = runs
  timings = timings
  evals = evals
  key = key
  score = score
  style = style
  context = context
  stamp = stamp
  Tables = {runs, timings, evals}
  Columns = {key, score, style, context, stamp}
  Program <- MCProgram
  Created <- MCCreated
  Migrated <- MCMigrated
  Written <- MCWritten
  Versions <- MCOldVersions
  MaxOpens = 2
  MaxLocks = 2
INVARIANT OldDatabasesTakeResults
