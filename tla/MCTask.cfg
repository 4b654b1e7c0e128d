SPECIFICATION Spec
CONSTANTS
 People = {a, b}
 Secondary = {a, b}
 Nobody = Nobody
 Docs = {d1,f1}
 FormDocs = {f1}
 Requests = {r1}
 Levels = {"second"}
 TaskEdits = {"completed"}
 DocEdits = {"uploaded"}
 SigSteps = {"signed","completed"}
 Slots = {s1}
 Txs = {t1}
INVARIANTS TwoPeople ApprovedThisRound
PROPERTY EvidenceKept
CHECK_DEADLOCK FALSE
SYMMETRY Colleagues
CONSTRAINT Fresh
