SPECIFICATION Spec
CONSTANTS
    r1 = r1
    r2 = r2
    c1 = c1
    c2 = c2
    s1 = s1
    v1 = v1
    v2 = v2
    v3 = v3
    lawn = lawn
    shawl = shawl
    ali = ali
    raza = raza
    k1 = k1
    Series = Series
    WalkIn = WalkIn
    Unstated = Unstated
    Customers = {c1, c2}
    Suppliers = {s1}
    Variants = {v1, v2, v3}
    ProductOf <- MCProductOf
    Words = {lawn, shawl, ali, raza}
    Invoices <- MCInvoices
    Prices = {0, 1, 2}
    QuantityScale = 2
    Keys = {k1}
    Conversations <- MCConversations
    PartyNames <- MCPartyNames
    ProductNames <- MCProductNames
    LineSets <- MCLineSets
    Requests = {r1, r2}
    MaxMatches = 1
    MaxRecords = 6
    MaxNumber = 10
    MaxChanges = 1
    FirstShops <- MCFirstShops
INVARIANT RecordsStandOnLiveRows
INVARIANT AnswersAreTrue
PROPERTY OncePerToolAndKey
PROPERTY NeverGuesses
SYMMETRY Everybody
CHECK_DEADLOCK FALSE
