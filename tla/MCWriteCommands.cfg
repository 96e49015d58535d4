SPECIFICATION Spec
CONSTANTS
    s1 = s1
    s2 = s2
    invoice = invoice
    first = first
    second = second
    Nothing = Nothing
    Sessions = {s1, s2}
    Amounts = {0, 20000, 60000, 98590, 100000001}
    MaxOperation = 100000000
    EstimatedFee = 1410
    Fees = {1110, 3000}
    Funds = 100000
    Reserved = 10000
    Invoices = {invoice}
    Open <- TwoChannels
    Targets <- NamesOfChannels
INVARIANTS
    TypeOK
PROPERTIES
    PromiseSpec
SYMMETRY Symmetry
CHECK_DEADLOCK FALSE
