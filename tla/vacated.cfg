\* A lot received between the count and the deletion.
SPECIFICATION Spec
CONSTANTS
  milk = milk
  tofu = tofu
  x = x
  y = y
  b1 = b1
  b2 = b2
  b3 = b3
  b4 = b4
  b5 = b5
  c1 = c1
  c2 = c2
  c3 = c3
  Null = Null
  Nobody = Nobody
  Products <- MCProducts
  Skus <- MCSkus
  Names <- MCNames
  Rows <- MCRows
  Batches <- MCBatches
  Lots <- MCLots
  Calls = {c1, c2}
  Menu <- VacatedMenu
PROPERTIES DeletedOnlyWhenEmpty
CHECK_DEADLOCK FALSE
