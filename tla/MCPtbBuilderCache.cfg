SPECIFICATION PtbSpec
CONSTANTS
  coin1 = coin1  coin2 = coin2  shared = shared
  Coin = {coin1, coin2}
  CoinOrder <- MCOrder
  Asset = {}
  SharedObj = {shared}
  Flavours = {"iota", "sui"}
  Nil = Nil
  MaxInputs = 2
  MaxTold = 1
  MaxTx = 2
  MaxOther = 0
PROPERTY CarriedIsCurrent
CHECK_DEADLOCK FALSE
