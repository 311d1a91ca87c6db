SPECIFICATION JobsSpec
CONSTANTS
  Names = {n1}
  Callers = {c1}
  Goals = {g1, g2}
  Crons = {2}
  BadCron = 0
  Cycle = 2
  MaxTasks = 1
  Threads = {r1}
  Ttl = 1
PROPERTIES
  FiresCurrent
  EnabledFires
  LiveThreadKept
