CONSTANTS
  Value = {v1, v2, v3}
  Torn = Torn
  Crossing <- MCCrossing
  Words = {3, 16}
SPECIFICATION CardSpec
INVARIANTS NeverTorn BegunOnce OneDriver
PROPERTIES NeverOlder Follows Begun TxServed
