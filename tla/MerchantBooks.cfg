\* One store; invoices, polls, failing saves and restarts.
SPECIFICATION Spec
CONSTANTS
    A = A
    B = B
    h1 = h1
    h2 = h2
    None = None
    Masked = Masked
    NInvoices = 2
    Stores = {A, B}
    Requests <- StaysWithA
    Handlers = {h1}
    MaxInvoices = 1
    SavesFail = TRUE
    Restarts = TRUE
INVARIANTS BooksAreStored
PROPERTIES PaymentTracked BookSpec
