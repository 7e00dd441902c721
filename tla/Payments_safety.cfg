SPECIFICATION Spec
CONSTANTS
  Shipments = {s1, s2}
  PaymentIds = {p1, p2, p3}
  Requests = {r1, r2, r3}
  None = None
SYMMETRY Symmetry
INVARIANTS
  OnePaymentPerShipment
  StatusesMatch
PROPERTIES
  ImplementsContract
