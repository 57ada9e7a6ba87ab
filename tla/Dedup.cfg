CONSTANTS
  A = A
  B = B
  C = C
  lz4 = lz4
  zstd = zstd
  None = None
  Files = {f, g}
  Idx = {1}
  Addr = {p, q, r}
  Contents <- MCContents
  Key <- MCKey
  Archives = {C}
  Algos = {lz4, zstd}
  Magic = {zstd}
  Fallback <- MCFallback
  Sharing = {TRUE, FALSE}
  MaxBusy = 1
SPECIFICATION Spec
SYMMETRY MCSymmetry
INVARIANTS
  TypeOK
  RefsCover
  WriteLands
  RelabelsDuplicates
