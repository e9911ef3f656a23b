SPECIFICATION Spec
CONSTANTS
  Compilers = {c1, c2}
  Dirs = {"a", "b"}
  Bases <- Names
  Sources <- NamesakeSources
  TEMP_DIR = "/tmp/seron/"
INVARIANTS
  TypeOK
  OwnProduct
  NothingStale
  DisturbedByNamesake
PROPERTY
  Termination
