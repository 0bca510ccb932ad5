SPECIFICATION ValidationSpec
CONSTANTS
  apple = apple
  cola = cola
  Label = Label
  Product = {apple, cola, Label}
  MaxQuantity = 2
  Orders <- MCOrders
  Detections <- MCDetections
CHECK_DEADLOCK FALSE
INVARIANTS
  IgnoredIsRelabel
  ValidatedIsRight
  ServedIsValidated
