SPECIFICATION Spec
CONSTANTS
  Actors = {p1, p2}
  None = None
  Keys = {"two", "one"}
  Txs = {"txTwo", "txOne"}
  Inline = {"txTwo"}
  Bundles = {"txTwo"}
  Manifests = {"txOne"}
  MaxFaults = 1
  MaxCrashes = 1
  Size <- MCSize
  Chunks <- MCChunks
  KeyOf <- MCKeyOf
  Data <- MCData
  Submitted <- MCSubmitted
  Word = 32
INVARIANTS
  TypeOK
  RegionsDisjoint
  ChunksInPlace
  ReadsWholePayload
  FetchStoresPayload
  LocksReleased
PROPERTY
  ImplementsArchive
SYMMETRY Symmetry
