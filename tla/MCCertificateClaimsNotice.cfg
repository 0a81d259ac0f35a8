SPECIFICATION Spec
CONSTANTS
    Reqs = {r1, r2}
    Calls <- MCUnkeyedCalls
    Emails <- MCEmails
    Names <- MCNames
    Keys <- MCKeys
    Tokens = {t1}
    Null = Null
    e1 = e1
    n1 = n1
    n2 = n2
    k1 = k1
INVARIANTS
    OwnerNoticeNeverLost
CHECK_DEADLOCK FALSE
