\* Whether a build of what was built writes nothing.
SPECIFICATION AliasSpec
CONSTANTS
  Sources <- MCSources
  Origin <- MCSource
  Queries <- MCQueries
  Match <- MCMatch
  PathRank <- MCPathRank
  NoFile = noFile
  Nobody = nobody
  EdgeCap = 1
  BodyCap = 2
  MaxGen = 2  MaxEdits = 3  MaxBuilds = 3
  repoA = repoA  repoB = repoB  fx = fx  fd = fd  fz = fz  red = red  blue = blue
  noFile = noFile  nobody = nobody
PROPERTIES
  RebuildsWriteNothing
CHECK_DEADLOCK FALSE
