SPECIFICATION Spec
CONSTANTS
    s1 = s1
    s2 = s2
    e1 = e1
    r1 = r1
    r2 = r2
    rent = rent
    power = power
    Automatic = Automatic
    Same = Same
    Unpaid = Unpaid
    Sales = {s1, s2}
    Expenses = {e1}
    Categories = {rent, power}
    Amounts = {1}
    Lines <- MCLines
    Discounts = {0, 3}
    Numbers = {2}
    Tenders = {"bank"}
    Requests = {r1, r2}
    Readers = {1}
    FirstShops <- MCFirstShops
    MaxArrivals = 2
    MaxDay = 2
INVARIANT TrialBalanceBalances
INVARIANT QuietReportsAgree
PROPERTY BooksMatchDocuments
PROPERTY ConflictsAreExplained
SYMMETRY Everybody
CHECK_DEADLOCK FALSE
