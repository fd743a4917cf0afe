\* Receive, quarantine, adjust and consume on the batches of one product.
SPECIFICATION Spec
CONSTANTS
  w1 = w1
  w2 = w2
  w3 = w3
  p1 = p1
  f1 = f1
  f2 = f2
  f3 = f3
  f4 = f4
  f5 = f5
  o1 = o1
  o2 = o2
  o3 = o3
  o4 = o4
  o5 = o5
  Null = Null
  Nobody = Nobody
  MaxQty = 4
  Orders = {}
  Calls = {c1, c2, c3}
  Products <- MCProducts
  ProductType <- MCProductType
  Batches <- TrafficBatches
  BatchProduct <- TrafficProduct
  Menu <- TrafficMenu
  Seed <- TrafficSeed
SYMMETRY MCCalls
INVARIANTS StockCovered LedgerBalance ConsumesNeverDeadlock
PROPERTIES SoldOnlyWhileActive ConsumeIsExact FEFORespected
  ImplementsInventory
CHECK_DEADLOCK FALSE
