SPECIFICATION PtbSpec
CONSTANTS
  coin1 = coin1  coin2 = coin2  shared = shared
  Coin = {coin1, coin2}
  CoinOrder <- MCOrder
  Asset = {}
  SharedObj = {shared}
  Flavours = {"iota", "sui"}
  Nil = Nil
  MaxInputs = 2
  MaxTold = 1
  MaxTx = 2
  MaxOther = 1
INVARIANTS
  PtbTypeOK GasIsNoArgument InputsAgree FreshIsAccepted
CHECK_DEADLOCK FALSE
