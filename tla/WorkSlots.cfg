SPECIFICATION Spec
CONSTANTS
  single = single
  other = other
  batch = batch
  wide = wide
  A = A
  B = B
  Units <- MCUnits
  Batches <- MCBatches
  Sources <- MCSources
  Reads <- MCReads
  Size <- MCSize
  Capacity = 3
  MaxLimit = 2
INVARIANT SlotsConserved
PROPERTIES LimitsRespected NoStarvation
