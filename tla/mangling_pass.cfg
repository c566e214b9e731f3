CONSTANTS
  Names <- MCNames
  DataTypes <- MCDataTypes
  DimSizes <- MCDimSizes
  MaxRank = 2
  DCheckOn = TRUE
  None = None
  DT_FLOAT = DT_FLOAT
  DT_INT32 = DT_INT32
SPECIFICATION Spec
INVARIANTS TypeOK RoundTrip
CHECK_DEADLOCK FALSE
