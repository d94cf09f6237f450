CONSTANTS
  c1 = c1
  c2 = c2
  c3 = c3
  c4 = c4
  t1 = t1
  Cards = {c1, c2, c3, c4, t1}
  Setups <- MCSetups
  MaxLost = 1
  Uid <- MCUid
  T1T = {t1}
  UidBytes = 2
  ByteBits = 2
  EndSlots = 2
  VUid <- MCVUid
  SlotBits = 1
  MaxColl = 3
  TbSlots = 2
  DepCards = {c2}
SPECIFICATION Spec
INVARIANTS DevicesAreTrue NobodyMissed
PROPERTIES SearchEnds
