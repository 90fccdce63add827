CONSTANTS
  Alignment = 2
  MaxChunkSize = 6
  MaxChunks = 2
  Endless = 40
  NLeafs = 2
  MaxGraphs = 2
  LeafsOf <- MCLeafs
  NodesAfter <- MCNodes
  NNodes = 3
  Later <- MCLater
SPECIFICATION Spec
INVARIANTS FreeIsTheRest SourcesIntact WithinBuffer
