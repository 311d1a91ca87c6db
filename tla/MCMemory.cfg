SPECIFICATION MemSpec
CONSTANTS
  Runs = {r1, r2}
  Keys = {k1}
  Values = {v1, v2}
  Episodes = {e1}
  Importances = {128, 144}
  Floor = 32
  MaxAge = 1
  Halvings = 3
INVARIANTS
  MemTypeOK
  EmbeddingCurrent
PROPERTIES
  FactWriteEnds
  NotForgottenEarly
  EpisodeSettles
