SPECIFICATION FairSpec
CONSTANTS
    x = x
    a1 = a1
    Cells = {c1}
    Requests = {r1}
    Withdrawing = {}
    Contents = {x}
    Accounts = {a1}
    Content <- OneContent
    Wanted <- SameAccount
    Resumers = {t1}
    None = None
PROPERTY AcceptedIsLinked
PROPERTY CommandsGoOut
