\* Products created, changed and deleted while stock is made of them.
SPECIFICATION FairSpec
CONSTANTS
  milk = milk
  tofu = tofu
  x = x
  y = y
  b1 = b1
  b2 = b2
  b3 = b3
  b4 = b4
  b5 = b5
  c1 = c1
  c2 = c2
  c3 = c3
  Null = Null
  Nobody = Nobody
  Products <- MCProducts
  Skus <- MCSkus
  Names <- MCNames
  Rows <- MCRows
  Batches <- MCBatches
  Lots <- MCLots
  Calls = {c1, c2, c3}
  Menu <- ShelfMenu
INVARIANTS InductiveInv
PROPERTIES EveryCallAnswered ImplementsProductTable DeletionIsFinal ClosedForGood
CHECK_DEADLOCK FALSE
