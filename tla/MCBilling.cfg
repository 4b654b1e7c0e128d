SPECIFICATION Spec
CONSTANTS
 Prices = {2}
 Amounts = {1, 3}
 LastDate = 2
 MaxRows = 3
 Slots = {s1, s2}
 None = None
INVARIANTS PaymentsCover CompletedMeansSettled NothingTwice EachDayOnce
CHECK_DEADLOCK FALSE
SYMMETRY Requests
