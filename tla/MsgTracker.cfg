\* Three array slots, so that entries are removed from the middle and the
\* array fills up, and a clock that runs past the age limit.
SPECIFICATION Spec
CONSTANTS
  Handle = {1, 2, 3}
  Session = {1, 2}
  Txn = {1}
  Capacity = 3
  MaxAge = 1
  MaxTime = 3
INVARIANTS TypeOK TimeOrdered
PROPERTY DropsExactlyExpired
