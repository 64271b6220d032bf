CONSTANTS
  t1 = t1 t2 = t2 t3 = t3 t4 = t4 x1 = x1 s1 = s1 u1 = u1 v1 = v1
  Tx = {t1, t2, t3, t4, x1, s1, u1, v1}
  NoTx = NoTx
  Inputs <- MCInputs
  Fee <- MCFee
  BaseCoin <- MCBaseCoin
  Coinbase = {s1}
  Coinstake = {}
  Maturity = 2
  ReorgMaturity = 2
  AncestorLimit = 3
  DescendantLimit = 3
  MaxPool = 4
  MaxDisconnected = 3
  MaxHeight = 2
  MaxBlockTxs = 2
  MaxDelta = 1
  FeeFloor = 9
SPECIFICATION Spec
INVARIANT TotalFeeExact
