\* Production orders among sales, corrections and quarantines of their inputs and outputs.
SPECIFICATION Spec
CONSTANTS
  w1 = w1
  w2 = w2
  w3 = w3
  p1 = p1
  f1 = f1
  f2 = f2
  f3 = f3
  f4 = f4
  f5 = f5
  o1 = o1
  o2 = o2
  o3 = o3
  o4 = o4
  o5 = o5
  Null = Null
  Nobody = Nobody
  MaxQty = 4
  Orders = {o1, o2, o3}
  Calls = {c1, c2, c3}
  Products <- MCProducts
  ProductType <- MCProductType
  Batches <- AssemblyBatches
  BatchProduct <- AssemblyProduct
  Menu <- AssemblyMenu
  Seed <- AssemblySeed
SYMMETRY MCCalls
INVARIANTS InductiveInv OutputMirrorsOrder InputsUsedOnce OutputExpiresWithInputs
  ExpiryInv MovementsInv
PROPERTIES LifecyclesRespected ImplementsInventory
CHECK_DEADLOCK FALSE
