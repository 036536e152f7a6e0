SPECIFICATION FairSpec
CONSTANTS
  Window = {"w1", "w2"}
  Size = {"wide", "tall"}
  Dir = {"d1", "d2"}
  Surf = {"s1", "s2"}
  Buf = {"shm1", "shm2", "dma1"}
  Owner <- MCOwner
  Kind <- MCKind
  Ring = 3
  Batch = 2
  Topics = {"window", "input", "surface"}
INVARIANTS WindowSafe InputSafe BuffersHeld
PROPERTIES SetSurfaceReturns
