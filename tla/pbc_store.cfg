SPECIFICATION Spec
CONSTANTS
  ka = ka
  kb = kb
  kc = kc
  kd = kd
  ke = ke
  ky = ky
  NULL = NULL
  Name = {ka, kb, kc, kd, ke, ky}
  Hash <- MCHash
  Singular = {ky}
  Value = {1, 2, 3, 4, 5}
  PageSize = 256
  InnerField = 2
  MapSize = 32
  SlotSize = 32
  ArraySize = 72
  ValueSize = 26
  VarSize = 16
  Counts = {0, 3}
  MaxPacked = 5
INVARIANTS ChainsSound VisitsEach BlocksApart
PROPERTY KeepsContents
