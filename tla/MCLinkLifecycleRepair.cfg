SPECIFICATION Spec
CONSTANTS
  p1 = p1
  p2 = p2
  left = left
  right = right
  old = old
  new = new
  Empty = Empty
  Foreign = Foreign
  NoOne = NoOne
  Procs <- MCTwoProcs
  Slots <- MCOneSlot
  Checkouts <- MCOneCheckout
  Variants <- MCVariants
  CheckoutOf <- MCOneCheckoutOf
  MaxId = 1
PROPERTIES
  RepairReplacesReceiptedLink
