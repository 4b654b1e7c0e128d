SPECIFICATION StatementSpec
CONSTANTS
 Totals = {0, 1, 2}
 Slots = {s1, s2}
 MaxPosts = 2
 None = None
INVARIANTS BillIsAgreed InTheBooksOnce
CHECK_DEADLOCK FALSE
SYMMETRY Colleagues
