SPECIFICATION Spec
CONSTANTS
    Reqs = {r1, r2, r3, r4}
    Calls <- MCCalls
    Emails <- MCEmails
    Names <- MCNames
    Keys <- MCKeys
    Tokens = {t1, t2}
    Null = Null
    e1 = e1
    n1 = n1
    n2 = n2
    k1 = k1
SYMMETRY Symmetry
INVARIANTS
    OneCertificatePerEmail
    ConfirmTellsStored
    SpentMeansCertified
    UnblockedGoOn
PROPERTIES
    ImplementsRegistry
CHECK_DEADLOCK FALSE
