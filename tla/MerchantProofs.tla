---------------------------- MODULE MerchantProofs ----------------------------
(* Proofs about Merchant. *)
EXTENDS Merchant, SequenceTheorems, TLAPS

\* The log keeps its type and its bound when it is trimmed, and what is in it was.
LEMMA TrimmedKeeps ==
    ASSUME NEW s \in Seq(Invoices), Len(s) <= MaxInvoices, NEW i \in Invoices
    PROVE  LET t == Trimmed(Append(s, i))
           IN /\ t \in Seq(Invoices) /\ Len(t) <= MaxInvoices
              /\ \A k \in DOMAIN t : t[k] = i \/ \E j \in DOMAIN s : s[j] = t[k]
<1> DEFINE a == Append(s, i)
           n == Len(s) + 1
<1>1. a \in Seq(Invoices) /\ Len(a) = n /\ n \in Nat \ {0}
  OBVIOUS
<1>2. \A k \in 1 .. n : a[k] = i \/ \E j \in DOMAIN s : s[j] = a[k]
  OBVIOUS
<1>3. MaxInvoices \in Nat \ {0} /\ n <= MaxInvoices + 1
  BY MerchantAssumption
<1> HIDE DEF a, n
<1>4. CASE n <= MaxInvoices
  BY <1>1, <1>2, <1>3, <1>4 DEF Trimmed, a
<1>5. CASE n > MaxInvoices
  <2>1. n = MaxInvoices + 1
    BY <1>1, <1>3, <1>5
  <2> DEFINE t == SubSeq(a, 2, n)
  <2>2. Trimmed(a) = t
    BY <1>1, <1>3, <2>1 DEF Trimmed
  <2>3. /\ t \in Seq(Invoices) /\ Len(t) = MaxInvoices
        /\ \A k \in 1 .. MaxInvoices : t[k] = a[k + 1]
    BY <1>1, <1>3, <2>1, SubSeqProperties
  <2> HIDE DEF t
  <2>4. \A k \in 1 .. MaxInvoices : k + 1 \in 1 .. n
    BY <1>3, <2>1
  <2>5. DOMAIN t = 1 .. MaxInvoices
    BY <2>3
  <2>6. \A k \in DOMAIN t : t[k] = i \/ \E j \in DOMAIN s : s[j] = t[k]
    BY <1>2, <2>3, <2>4, <2>5
  <2> QED BY <1>3, <2>2, <2>3, <2>6 DEF a
<1> QED BY <1>1, <1>3, <1>4, <1>5

-----------------------------------------------------------------------------
\* The bound on the log also holds of the file that a restart loads, a handler that
\* is to append has an invoice, and one that is not issued belongs to no store.
TypeInv ==
    /\ TypeOK
    /\ Len(file.log) <= MaxInvoices
    /\ \A h \in Handlers : th[h].pc = "append" => th[h].got \in Invoices
    /\ \A i \in Invoices : btcpay[i].state = "none" => btcpay[i].store = None

LEMMA ProviderType ==
    ASSUME NEW s \in SettingsType
    PROVE  ProviderFor(s) \in Providers \union {None}
BY DEF ProviderFor, SettingsType, Providers

LEMMA TypeInit == Init => TypeInv
<1> SUFFICES ASSUME Init PROVE TypeInv
  OBVIOUS
<1>1. settings \in SettingsType /\ provider \in Providers \union {None}
  BY ProviderType DEF Init, SettingsType
<1>2. log \in Seq(Invoices) /\ Len(log) = 0 /\ 0 <= MaxInvoices
  BY MerchantAssumption DEF Init
<1>3. inv \in [Invoices -> InvoiceType] /\ read = inv
  BY DEF Init, Unread, Blank, InvoiceType, Statuses
<1>4. file \in FileType /\ file.log = log
  BY <1>1, <1>2, <1>3 DEF Init, Memory, FileType
<1> QED BY <1>1, <1>2, <1>3, <1>4 DEF Init, TypeInv, TypeOK, NoPoll, Idle, BTCPayStates

LEMMA TypeStep == TypeInv /\ [Next]_vars => TypeInv'
<1> SUFFICES ASSUME TypeInv, [Next]_vars PROVE TypeInv'
  OBVIOUS
<1> USE DEF TypeInv, TypeOK
<1>u. Unread \in [Invoices -> InvoiceType] /\ Blank \in InvoiceType
  BY DEF Unread, Blank, InvoiceType, Statuses
<1>m. Memory \in FileType /\ Memory.log = log
  BY DEF Memory, FileType
<1>1. CASE \E i \in Invoices : CustomerActs(i)
  <2> PICK i \in Invoices : CustomerActs(i)
    BY <1>1
  <2>1. PICK s \in Proceeds[btcpay[i].state] :
            btcpay' = [btcpay EXCEPT ![i] = [@ EXCEPT !.state = s]]
    BY DEF CustomerActs
  <2>2. s \in BTCPayStates \ {"none"}
    BY <2>1 DEF Proceeds, BTCPayStates
  <2>3. btcpay' \in [Invoices -> [state : BTCPayStates, store : Stores \union {None}]]
    BY <2>1, <2>2
  <2>4. \A j \in Invoices : btcpay'[j].state = "none" => btcpay'[j].store = None
    BY <2>1, <2>2
  <2> QED BY <2>3, <2>4 DEF CustomerActs
<1>2. CASE \E h \in Handlers, s \in Requests : SetSettings(h, s)
  <2> PICK h \in Handlers, s \in Requests : SetSettings(h, s)
    BY <1>2
  <2>1. s \in RequestType
    BY MerchantAssumption
  <2>2. Kept(s) \in SettingsType
    BY <2>1 DEF Kept, RequestType, SettingsType
  <2>3. settings' \in SettingsType /\ provider' \in Providers \union {None}
    BY <2>2, ProviderType DEF SetSettings
  <2> QED BY <2>3 DEF SetSettings, BeginSave, Idle
<1>3. CASE \E h \in Handlers : Create(h) \/ NotIssued(h)
  <2> PICK h \in Handlers : Create(h) \/ NotIssued(h)
    BY <1>3
  <2>1. CASE Create(h)
    BY <2>1 DEF Create
  <2>2. CASE NotIssued(h)
    BY <2>2 DEF NotIssued, Idle
  <2> QED BY <2>1, <2>2
<1>4. CASE \E h \in Handlers, i \in Invoices : Issued(h, i)
  <2> PICK h \in Handlers, i \in Invoices : Issued(h, i)
    BY <1>4
  <2>1. th[h].prov \in Providers
    BY DEF Issued
  <2>2. btcpay' \in [Invoices -> [state : BTCPayStates, store : Stores \union {None}]]
    BY <2>1 DEF Issued, Providers, BTCPayStates
  <2> QED BY <2>2 DEF Issued
<1>5. CASE \E h \in Handlers : Booked(h)
  <2> PICK h \in Handlers : Booked(h)
    BY <1>5
  <2>1. th[h].got \in Invoices
    BY DEF Booked
  <2>2. log' \in Seq(Invoices) /\ Len(log') <= MaxInvoices
    BY <2>1, TrimmedKeeps DEF Booked
  <2>3. inv' \in [Invoices -> InvoiceType]
    BY <1>u, <2>1 DEF Booked
  <2> QED BY <2>2, <2>3 DEF Booked, BeginSave, Idle
<1>6. CASE \E h \in Handlers : EndSave(h)
  <2> PICK h \in Handlers : EndSave(h)
    BY <1>6
  <2>1. file' \in FileType /\ Len(file'.log) <= MaxInvoices /\ saved' \in BOOLEAN
    <3>1. CASE \E f \in Readings : Replaced([Memory EXCEPT !.inv = f])
      BY <1>m, <3>1 DEF Replaced, Readings, Memory, FileType
    <3>2. CASE Fails
      BY <3>2 DEF Fails
    <3> QED BY <3>1, <3>2 DEF EndSave
  <2> QED BY <1>u, <2>1 DEF EndSave, Idle
<1>7. CASE Poll \/ PollEnds
  <2>1. CASE Poll
    <3> DEFINE open == {i \in Invoices : InLog(i) /\ Open(i)}
    <3>1. open \in SUBSET Invoices
      OBVIOUS
    <3> HIDE DEF open
    <3>2. poll' = [on |-> TRUE, prov |-> provider, changed |-> FALSE, todo |-> open]
      BY <2>1 DEF Poll, open
    <3> QED BY <2>1, <3>1, <3>2 DEF Poll
  <2>2. CASE PollEnds
    BY <2>2 DEF PollEnds, NoPoll
  <2> QED BY <1>7, <2>1, <2>2
<1>8. CASE \E i \in Invoices : RefreshSame(i) \/ RefreshFails(i)
  <2> PICK i \in Invoices : poll' = [poll EXCEPT !.todo = @ \ {i}]
    BY <1>8 DEF RefreshSame, RefreshFails
  <2>1. poll' \in [on : BOOLEAN, prov : Providers \union {None},
                  todo : SUBSET Invoices, changed : BOOLEAN]
    OBVIOUS
  <2> QED BY <1>8, <2>1 DEF RefreshSame, RefreshFails
<1>9. CASE \E i \in Invoices : RefreshChanges(i)
  <2> PICK i \in Invoices : RefreshChanges(i)
    BY <1>9
  <2> DEFINE st == mapStatus[btcpay[i].state]
  <2>1. btcpay[i].state \in BTCPayStates \ {"none"}
    BY MerchantAssumption DEF RefreshChanges, Serves, Providers
  <2>2. st \in Statuses
    BY <2>1 DEF mapStatus, BTCPayStates, Statuses
  <2>3. poll' \in [on : BOOLEAN, prov : Providers \union {None},
                  todo : SUBSET Invoices, changed : BOOLEAN]
    BY DEF RefreshChanges
  <2>4. inv' \in [Invoices -> InvoiceType] /\ told' \in [Invoices -> SUBSET Statuses]
    BY <2>2 DEF RefreshChanges, Refreshed, InvoiceType
  <2> QED BY <2>3, <2>4 DEF RefreshChanges
<1>10. CASE PollSaves
  BY <1>m, <1>10 DEF PollSaves, Replaced, Fails, NoPoll
<1>11. CASE Restart
  <2>1. file.settings \in SettingsType /\ file.log \in Seq(Invoices)
        /\ file.inv \in [Invoices -> InvoiceType]
    BY DEF FileType
  <2>2. provider' \in Providers \union {None}
    BY <1>11, <2>1, ProviderType DEF Restart, Load
  <2> QED BY <1>u, <1>11, <2>1, <2>2 DEF Restart, Load, NoPoll, Idle
<1>12. CASE UNCHANGED vars
  BY <1>12 DEF vars
<1> QED BY <1>1, <1>2, <1>3, <1>4, <1>5, <1>6, <1>7, <1>8, <1>9, <1>10, <1>11,
           <1>12 DEF Next, Polling

\* Whatever BTCPay, the users and restarts do, every variable keeps its type: a
\* placeholder is never taken for a key, and the log keeps its bound.
THEOREM TypeCorrect == Spec => []TypeOK
<1>1. TypeInv => TypeOK
  BY DEF TypeInv
<1> QED BY TypeInit, TypeStep, <1>1, PTL DEF Spec

-----------------------------------------------------------------------------
\* What a save has read is what the manager holds, unless the poll has since
\* written an invoice; but then the poll saves after it.
BooksInv ==
    /\ BooksAreStored
    /\ lock # None /\ ~poll.changed => read = inv
    /\ ~poll.on => ~poll.changed /\ poll.todo = {}

LEMMA SaveUndisturbed ==
    ASSUME TypeOK, read = inv, NEW f \in Readings
    PROVE  [Memory EXCEPT !.inv = f] = Memory
<1>1. \A i \in Invoices : f[i].status = inv[i].status /\ f[i].stamped = inv[i].stamped
  BY DEF Readings, ReadStatus
<1>2. f \in [Invoices -> InvoiceType] /\ inv \in [Invoices -> InvoiceType]
  BY DEF Readings, TypeOK
<1>3. \A i \in Invoices : f[i] = inv[i]
  BY <1>1, <1>2 DEF InvoiceType
<1>4. f = inv
  BY <1>2, <1>3
<1> QED BY <1>4 DEF Memory

LEMMA BooksInit == Init => BooksInv
BY DEF Init, BooksInv, BooksAreStored, NoPoll

LEMMA BooksStep == TypeOK /\ BooksInv /\ [Next]_vars => BooksInv'
<1> SUFFICES ASSUME TypeOK, BooksInv, [Next]_vars PROVE BooksInv'
  OBVIOUS
<1> USE DEF BooksInv, BooksAreStored, Memory
<1>p. poll \in [on : BOOLEAN, prov : Providers \union {None},
                todo : SUBSET Invoices, changed : BOOLEAN]
  BY DEF TypeOK
<1>1. CASE \E h \in Handlers, s \in Requests : SetSettings(h, s)
  BY <1>1, MerchantAssumption DEF SetSettings, BeginSave
<1>2. CASE \E h \in Handlers : Booked(h)
  BY <1>2, MerchantAssumption DEF Booked, BeginSave
<1>3. CASE \E h \in Handlers : EndSave(h)
  <2> PICK h \in Handlers : EndSave(h)
    BY <1>3
  <2>1. lock # None /\ lock' = None /\ UNCHANGED <<settings, log, inv, poll>>
    BY MerchantAssumption DEF EndSave
  <2>2. CASE poll.changed
    BY <2>1, <2>2
  <2>3. CASE ~poll.changed
    <3>1. CASE \E f \in Readings : Replaced([Memory EXCEPT !.inv = f])
      <4>1. file' = Memory
        BY <2>1, <2>3, <3>1, SaveUndisturbed DEF Replaced
      <4> QED BY <2>1, <4>1
    <3>2. CASE Fails
      BY <2>1, <3>2 DEF Fails
    <3> QED BY <3>1, <3>2 DEF EndSave
  <2> QED BY <2>2, <2>3
<1>4. CASE Poll \/ PollEnds
  BY <1>4 DEF Poll, PollEnds, NoPoll
<1>5. CASE \E i \in Invoices : RefreshSame(i) \/ RefreshFails(i)
  <2>1. /\ poll.on /\ poll'.on /\ poll'.changed = poll.changed
        /\ UNCHANGED <<settings, log, inv, lock, read, file, saved>>
    BY <1>5, <1>p DEF RefreshSame, RefreshFails
  <2> QED BY <2>1
<1>6. CASE \E i \in Invoices : RefreshChanges(i)
  <2> PICK i \in Invoices : RefreshChanges(i)
    BY <1>6
  <2>1. poll.on
    <3>1. poll.todo # {}
      BY DEF RefreshChanges
    <3> QED BY <3>1
  <2> QED BY <1>p, <2>1 DEF RefreshChanges
<1>7. CASE PollSaves
  BY <1>7 DEF PollSaves, Replaced, Fails, NoPoll
<1>8. CASE Restart
  <2>1. file = [settings |-> file.settings, log |-> file.log, inv |-> file.inv]
    BY DEF TypeOK, FileType
  <2> QED BY <1>8, <2>1 DEF Restart, Load, NoPoll
<1>9. CASE \E i \in Invoices : CustomerActs(i)
  BY <1>9 DEF CustomerActs
<1>10. CASE \E h \in Handlers :
            Create(h) \/ NotIssued(h) \/ \E i \in Invoices : Issued(h, i)
  BY <1>10 DEF Create, NotIssued, Issued
<1>11. CASE UNCHANGED vars
  BY <1>11 DEF vars
<1> QED BY <1>1, <1>2, <1>3, <1>4, <1>5, <1>6, <1>7, <1>8, <1>9, <1>10, <1>11
        DEF Next, Polling

\* Whatever a handler's save reads while the poll writes the invoices, merchant.json
\* is right again when both are done, unless the disk failed.
THEOREM BooksStored == Spec => []BooksAreStored
<1>1. TypeInv => TypeOK
  BY DEF TypeInv
<1>2. BooksInv => BooksAreStored
  BY DEF BooksInv
<1> QED BY TypeInit, TypeStep, BooksInit, BooksStep, <1>1, <1>2, PTL DEF Spec

-----------------------------------------------------------------------------
\* What the poll is to refresh is open, and what is open was told no outcome; an
\* invoice that is not in the log yet was told nothing, and one handler has it.
OutcomeInv ==
    /\ OneOutcome
    /\ \A i \in poll.todo : Open(i)
    /\ \A i \in Invoices : Open(i) => told[i] \intersect Final = {}
    /\ \A i \in Invoices :
        btcpay[i].state = "none" => told[i] = {} /\ ~InLog(i)
    /\ \A h \in Handlers : th[h].pc = "append" =>
        /\ btcpay[th[h].got].state # "none"
        /\ told[th[h].got] = {} /\ ~InLog(th[h].got) /\ th[h].got \notin poll.todo
        /\ \A g \in Handlers \ {h} : th[g].pc = "append" => th[g].got # th[h].got
    /\ \A i \in Invoices : btcpay[i].state = "none" =>
        i \notin poll.todo /\ \A k \in DOMAIN file.log : file.log[k] # i

LEMMA OutcomeInit == Init => OutcomeInv
BY DEF Init, OutcomeInv, OneOutcome, NoPoll, Open, InLog, Idle, Memory

LEMMA OutcomeStep == TypeInv /\ OutcomeInv /\ [Next]_vars => OutcomeInv'
<1> SUFFICES ASSUME TypeInv, OutcomeInv, [Next]_vars PROVE OutcomeInv'
  OBVIOUS
<1> USE DEF OutcomeInv, OneOutcome, Open
<1>t. /\ poll \in [on : BOOLEAN, prov : Providers \union {None},
                   todo : SUBSET Invoices, changed : BOOLEAN]
      /\ inv \in [Invoices -> InvoiceType] /\ told \in [Invoices -> SUBSET Statuses]
      /\ th \in [Handlers -> [pc : {"idle", "create", "append", "save"},
                              prov : Providers \union {None},
                              got : Invoices \union {None}]]
      /\ btcpay \in [Invoices -> [state : BTCPayStates, store : Stores \union {None}]]
      /\ log \in Seq(Invoices) /\ Len(log) <= MaxInvoices
      /\ \A h \in Handlers : th[h].pc = "append" => th[h].got \in Invoices
  BY DEF TypeInv, TypeOK
<1>1. CASE \E i \in Invoices : CustomerActs(i)
  <2> PICK i \in Invoices : CustomerActs(i)
    BY <1>1
  <2>1. PICK s \in Proceeds[btcpay[i].state] :
            btcpay' = [btcpay EXCEPT ![i] = [@ EXCEPT !.state = s]]
    BY DEF CustomerActs
  <2>2. s # "none" /\ btcpay[i].state # "none"
    <3>1. s \in Proceeds[btcpay[i].state] /\ btcpay[i].state \in BTCPayStates
      BY <1>t, <2>1
    <3>2. QED BY <3>1 DEF Proceeds, BTCPayStates
  <2>3. \A j \in Invoices : btcpay'[j].state = "none" <=> btcpay[j].state = "none"
    BY <1>t, <2>1, <2>2
  <2> QED BY <1>t, <2>3 DEF CustomerActs, InLog
<1>2. CASE \E h \in Handlers : Create(h) \/ NotIssued(h)
  <2> PICK h \in Handlers : Create(h) \/ NotIssued(h)
    BY <1>2
  <2>1. \A g \in Handlers : th'[g].pc = "append" => th'[g] = th[g]
    BY <1>t DEF Create, NotIssued, Idle
  <2>2. UNCHANGED <<log, inv, poll, file, btcpay, told>>
    BY DEF Create, NotIssued
  <2> QED BY <1>t, <2>1, <2>2 DEF InLog
<1>3. CASE \E h \in Handlers, i \in Invoices : Issued(h, i)
  <2> PICK h \in Handlers, i \in Invoices : Issued(h, i)
    BY <1>3
  <2>1. btcpay[i].state = "none" /\ btcpay'[i].state = "new"
        /\ \A j \in Invoices \ {i} : btcpay'[j] = btcpay[j]
    <3>1. i >= i
      BY MerchantAssumption DEF Invoices
    <3>2. btcpay[i].state = "none"
      BY <3>1 DEF Issued
    <3> QED BY <1>t, <3>2 DEF Issued
  <2>2. th'[h].pc = "append" /\ th'[h].got = i
        /\ \A g \in Handlers \ {h} : th'[g] = th[g]
    BY <1>t DEF Issued
  <2>3. UNCHANGED <<log, inv, poll, file, told>>
    BY DEF Issued
  <2>4. told[i] = {} /\ ~InLog(i) /\ i \notin poll.todo
        /\ \A g \in Handlers : th[g].pc = "append" => th[g].got # i
    BY <2>1
  <2>5. ASSUME NEW g \in Handlers, th'[g].pc = "append"
        PROVE  /\ btcpay'[th'[g].got].state # "none"
               /\ told'[th'[g].got] = {} /\ ~InLog(th[g].got)'
               /\ th'[g].got \notin poll'.todo
    <3>1. CASE g = h
      BY <2>1, <2>2, <2>3, <2>4, <3>1 DEF InLog
    <3>2. CASE g # h
      <4>1. th'[g] = th[g] /\ th[g].pc = "append" /\ th[g].got \in Invoices \ {i}
        BY <1>t, <2>2, <2>4, <2>5, <3>2
      <4> QED BY <2>1, <2>3, <4>1 DEF InLog
    <3> QED BY <3>1, <3>2
  <2>6. ASSUME NEW g \in Handlers, NEW k \in Handlers \ {g},
               th'[g].pc = "append", th'[k].pc = "append"
        PROVE  th'[k].got # th'[g].got
    <3>1. CASE g = h
      BY <2>2, <2>4, <2>6, <3>1
    <3>2. CASE k = h
      BY <2>2, <2>4, <2>6, <3>2
    <3>3. CASE g # h /\ k # h
      BY <2>2, <2>6, <3>3
    <3> QED BY <3>1, <3>2, <3>3
  <2>7. \A j \in Invoices : btcpay'[j].state = "none" => btcpay[j].state = "none"
    BY <2>1
  <2>8. /\ OneOutcome'
        /\ \A j \in poll'.todo : Open(j)'
        /\ \A j \in Invoices : Open(j)' => told'[j] \intersect Final = {}
    BY <2>3
  <2>9. \A j \in Invoices : btcpay'[j].state = "none" =>
            /\ told'[j] = {} /\ ~InLog(j)'
            /\ j \notin poll'.todo /\ \A k \in DOMAIN file'.log : file'.log[k] # j
    BY <2>3, <2>7 DEF InLog
  <2> QED BY <2>5, <2>6, <2>8, <2>9
<1>4. CASE \E h \in Handlers : Booked(h)
  <2> PICK h \in Handlers : Booked(h)
    BY <1>4
  <2> DEFINE new == th[h].got
  <2>1. new \in Invoices /\ told[new] = {} /\ new \notin poll.todo
        /\ btcpay[new].state # "none"
    BY <1>t DEF Booked
  <2>2. \A i \in Invoices : InLog(i)' => InLog(i) \/ i = new
    BY <1>t, <2>1, TrimmedKeeps DEF Booked, InLog
  <2>3. inv'[new].status = "pending" /\ \A i \in Invoices \ {new} : inv'[i] = inv[i]
    BY <1>t, <2>1 DEF Booked, Blank
  <2>4. \A g \in Handlers : th'[g].pc = "append" => g # h /\ th'[g] = th[g]
    BY <1>t DEF Booked, Idle
  <2>5. UNCHANGED <<poll, file, btcpay, told>>
    BY DEF Booked
  <2>6. \A i \in poll.todo : i # new /\ inv'[i] = inv[i]
    BY <1>t, <2>1, <2>3
  <2>7. \A i \in Invoices : Open(i)' => told'[i] \intersect Final = {}
    BY <2>1, <2>3, <2>5
  <2> HIDE DEF new
  <2>8. \A g \in Handlers : th'[g].pc = "append" => th'[g].got # new
    BY <2>4 DEF new, Booked
  <2> QED BY <1>t, <2>1, <2>2, <2>4, <2>5, <2>6, <2>7, <2>8
<1>5. CASE \E h \in Handlers : EndSave(h)
  <2> PICK h \in Handlers : EndSave(h)
    BY <1>5
  <2>1. \A g \in Handlers : th'[g].pc = "append" => th'[g] = th[g]
    BY <1>t DEF EndSave, Idle
  <2>2. file'.log = log \/ file' = file
    BY DEF EndSave, Replaced, Fails, Memory
  <2>3. UNCHANGED <<log, inv, poll, btcpay, told>>
    BY DEF EndSave
  <2> QED BY <1>t, <2>1, <2>2, <2>3 DEF InLog
<1>6. CASE \E h \in Handlers, s \in Requests : SetSettings(h, s)
  <2> PICK h \in Handlers, s \in Requests : SetSettings(h, s)
    BY <1>6
  <2>1. \A g \in Handlers : th'[g].pc = "append" => th'[g] = th[g]
    BY <1>t DEF SetSettings, Idle
  <2>2. UNCHANGED <<log, inv, poll, file, btcpay, told>>
    BY DEF SetSettings
  <2> QED BY <1>t, <2>1, <2>2 DEF InLog
<1>7. CASE Poll
  <2>1. \A i \in poll'.todo : i \in Invoices /\ InLog(i) /\ Open(i)
    BY <1>7 DEF Poll
  <2>2. UNCHANGED <<log, inv, th, file, btcpay, told>>
    BY <1>7 DEF Poll
  <2> QED BY <1>t, <2>1, <2>2 DEF InLog
<1>8. CASE PollEnds \/ PollSaves
  <2>1. poll'.todo = {} /\ UNCHANGED <<log, inv, th, btcpay, told>>
    BY <1>8 DEF PollEnds, PollSaves, NoPoll
  <2>2. file'.log = log \/ file' = file
    BY <1>8 DEF PollEnds, PollSaves, Replaced, Fails, Memory
  <2> QED BY <1>t, <2>1, <2>2 DEF InLog
<1>9. CASE \E i \in Invoices : RefreshSame(i) \/ RefreshFails(i)
  <2>1. poll'.todo \subseteq poll.todo
        /\ UNCHANGED <<log, inv, th, file, btcpay, told>>
    BY <1>t, <1>9 DEF RefreshSame, RefreshFails
  <2> QED BY <1>t, <2>1 DEF InLog
<1>10. CASE \E i \in Invoices : RefreshChanges(i)
  <2> PICK i \in Invoices : RefreshChanges(i)
    BY <1>10
  <2> DEFINE st == mapStatus[btcpay[i].state]
  <2>1. i \in poll.todo /\ told[i] \intersect Final = {}
    BY DEF RefreshChanges
  <2>2. poll'.todo = poll.todo \ {i} /\ UNCHANGED <<log, th, file, btcpay>>
    BY <1>t DEF RefreshChanges
  <2>3. told'[i] = told[i] \union {st} /\ inv'[i].status = st
        /\ \A j \in Invoices \ {i} : told'[j] = told[j] /\ inv'[j] = inv[j]
    BY <1>t DEF RefreshChanges, Refreshed
  <2> HIDE DEF st
  <2>4. \A s, t \in told'[i] \intersect Final : s = t
    BY <2>1, <2>3
  <2>5. inv'[i].status \in {"pending", "paid"} => told'[i] \intersect Final = {}
    BY <2>1, <2>3 DEF Final
  <2>6. btcpay[i].state # "none"
        /\ \A h \in Handlers : th[h].pc = "append" => th[h].got # i
    BY <2>1
  <2>7. OneOutcome'
    BY <2>3, <2>4
  <2>8. \A j \in Invoices : Open(j)' => told'[j] \intersect Final = {}
    BY <2>3, <2>5
  <2>9. \A j \in poll'.todo : Open(j)'
    BY <1>t, <2>2, <2>3
  <2>10. \A h \in Handlers : th[h].pc = "append" => told'[th[h].got] = {}
    BY <1>t, <2>3, <2>6
  <2> QED BY <1>t, <2>2, <2>3, <2>6, <2>7, <2>8, <2>9, <2>10 DEF InLog
<1>11. CASE Restart
  <2>1. /\ poll'.todo = {} /\ told' = [i \in Invoices |-> {}]
        /\ \A h \in Handlers : th'[h].pc = "idle"
        /\ log' = file.log /\ UNCHANGED <<file, btcpay>>
    BY <1>11 DEF Restart, Load, NoPoll, Idle
  <2> QED BY <2>1 DEF InLog
<1>12. CASE UNCHANGED vars
  BY <1>12 DEF vars, InLog
<1> QED BY <1>1, <1>2, <1>3, <1>4, <1>5, <1>6, <1>7, <1>8, <1>9, <1>10, <1>11,
           <1>12 DEF Next, Polling

\* Whatever BTCPay makes of an invoice afterwards, the merchant is told one outcome
\* of it while the daemon runs.
THEOREM OutcomeOnce == Spec => []OneOutcome
<1>1. OutcomeInv => OneOutcome
  BY DEF OutcomeInv
<1> QED BY TypeInit, TypeStep, OutcomeInit, OutcomeStep, <1>1, PTL DEF Spec

-----------------------------------------------------------------------------
\* BTCPay has seen the payment of an invoice.
PaidFor(i) == btcpay[i].state \in {"processing", "settled", "invalid"}

\* merchant.json is behind the manager, and what a save has read is between the two;
\* an invoice that is not in the log yet is pending, and one that is paid here is
\* paid at BTCPay, which never takes that back.
BookInv ==
    /\ \A i \in Invoices : Book!Behind(file.inv[i].status, inv[i].status)
    /\ lock # None => \A i \in Invoices :
        /\ Book!Precedes(read[i].status, inv[i].status)
        /\ file.inv[i].status = "torn"
            \/ Book!Precedes(file.inv[i].status, read[i].status)
    /\ \A i \in Invoices : btcpay[i].state = "none" => inv[i].status = "pending"
    /\ \A h \in Handlers : th[h].pc = "append" => inv[th[h].got].status = "pending"
    /\ \A i \in Invoices : "paid" \in {inv[i].status, read[i].status, file.inv[i].status}
        => PaidFor(i)

Marks == Statuses \union {"torn"}

LEMMA MarksAreBooks == DOMAIN Book!After = Marks
BY DEF Book!After, Marks, Statuses

\* Statuses only go forward.
LEMMA PrecedesIsAnOrder ==
    ASSUME NEW a \in Marks, NEW b \in Marks, NEW c \in Marks,
           Book!Precedes(a, b), Book!Precedes(b, c)
    PROVE  Book!Precedes(a, c)
BY DEF Book!Precedes, Book!After, Marks, Statuses

LEMMA BehindStays ==
    ASSUME NEW a \in Marks, NEW b \in Marks, NEW c \in Marks,
           Book!Behind(a, b), Book!Precedes(b, c)
    PROVE  Book!Behind(a, c)
BY PrecedesIsAnOrder DEF Book!Behind, Book!Precedes, Book!After, Marks, Statuses

LEMMA InvoiceMarks ==
    ASSUME TypeInv, NEW i \in Invoices
    PROVE  /\ inv[i].status \in Marks /\ read[i].status \in Marks
           /\ file.inv[i].status \in Marks
<1>1. inv[i] \in InvoiceType /\ read[i] \in InvoiceType /\ file.inv[i] \in InvoiceType
  BY DEF TypeInv, TypeOK, FileType
<1> QED BY <1>1 DEF InvoiceType, Marks

\* A refresh brings a status that may follow the one before.
LEMMA RefreshGoesForward ==
    ASSUME TypeInv, OutcomeInv, BookInv, NEW i \in Invoices, RefreshChanges(i)
    PROVE  /\ inv'[i].status \in Book!After[inv[i].status]
           /\ inv'[i].status = "paid" => PaidFor(i)
           /\ told'[i] = told[i] \union {inv'[i].status}
           /\ \A j \in Invoices \ {i} : inv'[j] = inv[j] /\ told'[j] = told[j]
<1> DEFINE st == mapStatus[btcpay[i].state]
<1>1. btcpay[i].state \in BTCPayStates \ {"none"}
  BY MerchantAssumption DEF RefreshChanges, Serves, Providers, TypeInv, TypeOK
<1>2. inv[i].status \in {"pending", "paid"}
  BY DEF RefreshChanges, OutcomeInv, Open
<1>3. inv \in [Invoices -> InvoiceType] /\ told \in [Invoices -> SUBSET Statuses]
  BY DEF TypeInv, TypeOK
<1>4. /\ st # inv[i].status /\ inv'[i].status = st /\ told'[i] = told[i] \union {st}
      /\ \A j \in Invoices \ {i} : inv'[j] = inv[j] /\ told'[j] = told[j]
  BY <1>3 DEF RefreshChanges, Refreshed
<1>5. inv[i].status = "paid" => PaidFor(i)
  BY DEF BookInv
<1>6. st = "paid" => PaidFor(i)
  BY <1>1 DEF mapStatus, BTCPayStates, PaidFor
<1>7. st \in Book!After[inv[i].status]
  <2>1. CASE inv[i].status = "pending"
    BY <1>1, <1>4, <2>1 DEF mapStatus, BTCPayStates, Book!After
  <2>2. CASE inv[i].status = "paid"
    <3>1. btcpay[i].state \in {"processing", "settled", "invalid"}
      BY <1>5, <2>2 DEF PaidFor
    <3> QED BY <1>4, <2>2, <3>1 DEF mapStatus, Book!After
  <2> QED BY <1>2, <2>1, <2>2
<1> QED BY <1>4, <1>6, <1>7

\* What a handler's save leaves of an invoice is behind the manager, and not behind
\* what merchant.json held.
LEMMA SaveFollows ==
    ASSUME TypeInv, BookInv, lock # None, NEW f \in Readings, NEW i \in Invoices
    PROVE  /\ f[i].status \in Marks
           /\ Book!Behind(f[i].status, inv[i].status)
           /\ \/ "torn" \in {file.inv[i].status, f[i].status}
              \/ Book!Precedes(file.inv[i].status, f[i].status)
           /\ f[i].status = "paid" => PaidFor(i)
<1> DEFINE a == read[i].status
           b == inv[i].status
           c == file.inv[i].status
<1>1. a \in Marks /\ b \in Marks /\ c \in Marks
  BY InvoiceMarks
<1>2. Book!Precedes(a, b) /\ (c = "torn" \/ Book!Precedes(c, a))
  BY DEF BookInv
<1>3. f[i].status \in ReadStatus(a, b)
  BY DEF Readings
<1>4. "paid" \in {a, b} => PaidFor(i)
  BY DEF BookInv
<1> HIDE DEF a, b, c
<1>5. CASE f[i].status = a
  BY <1>1, <1>2, <1>4, <1>5 DEF a, b, c, Book!Behind
<1>6. CASE f[i].status = b
  <2>1. c = "torn" \/ Book!Precedes(c, b)
    BY <1>1, <1>2, PrecedesIsAnOrder
  <2>2. Book!Behind(b, b)
    BY DEF Book!Behind, Book!Precedes
  <2> QED BY <1>1, <1>4, <1>6, <2>1, <2>2 DEF b, c
<1>7. CASE f[i].status = "torn" /\ a # b
  <2>1. b # "pending"
    BY <1>1, <1>2, <1>7 DEF Book!Precedes, Book!After, Marks, Statuses
  <2> QED BY <1>7, <2>1 DEF b, Book!Behind, Marks
<1>8. f[i].status \in {a, b} \/ (f[i].status = "torn" /\ a # b)
  BY <1>3 DEF ReadStatus
<1> QED BY <1>5, <1>6, <1>7, <1>8

LEMMA BookInit == Init => BookInv
<1> SUFFICES ASSUME Init PROVE BookInv
  OBVIOUS
<1>1. \A i \in Invoices : /\ inv[i].status = "pending" /\ read[i].status = "pending"
                          /\ file.inv[i].status = "pending"
  BY DEF Init, Memory, Unread, Blank
<1>2. lock = None /\ \A h \in Handlers : th[h].pc # "append"
  BY DEF Init, Idle
<1> QED BY <1>1, <1>2 DEF BookInv, Book!Behind, Book!Precedes

\* What a step keeps of BookInv that leaves the invoices and the file alone.
LEMMA BookFrame ==
    ASSUME BookInv, UNCHANGED <<inv, read, lock, file, btcpay>>,
           \A h \in Handlers : th'[h].pc = "append" => th'[h] = th[h]
    PROVE  BookInv'
<1>1. \A h \in Handlers : th'[h].pc = "append" => inv'[th'[h].got].status = "pending"
  BY DEF BookInv
<1> QED BY <1>1 DEF BookInv, PaidFor

LEMMA BookStep == TypeInv /\ OutcomeInv /\ BookInv /\ [Next]_vars => BookInv'
<1> SUFFICES ASSUME TypeInv, OutcomeInv, BookInv, [Next]_vars PROVE BookInv'
  OBVIOUS
<1>t. /\ inv \in [Invoices -> InvoiceType] /\ read \in [Invoices -> InvoiceType]
      /\ file.inv \in [Invoices -> InvoiceType]
      /\ th \in [Handlers -> [pc : {"idle", "create", "append", "save"},
                              prov : Providers \union {None},
                              got : Invoices \union {None}]]
      /\ btcpay \in [Invoices -> [state : BTCPayStates, store : Stores \union {None}]]
      /\ \A h \in Handlers : th[h].pc = "append" => th[h].got \in Invoices
  BY DEF TypeInv, TypeOK, FileType
<1>m. \A i \in Invoices : /\ inv[i].status \in Marks /\ read[i].status \in Marks
                          /\ file.inv[i].status \in Marks
  BY InvoiceMarks
<1>r. \A a \in Marks : Book!Precedes(a, a) /\ Book!Behind(a, a)
  BY DEF Book!Precedes, Book!Behind
<1>1. CASE \E i \in Invoices : CustomerActs(i)
  <2> PICK i \in Invoices : CustomerActs(i)
    BY <1>1
  <2>1. PICK s \in Proceeds[btcpay[i].state] :
            btcpay' = [btcpay EXCEPT ![i] = [@ EXCEPT !.state = s]]
    BY DEF CustomerActs
  <2>2. /\ btcpay'[i].state = s /\ s # "none"
        /\ \A j \in Invoices \ {i} : btcpay'[j] = btcpay[j]
        /\ PaidFor(i) => s \in {"processing", "settled", "invalid"}
    <3>1. s \in Proceeds[btcpay[i].state] /\ btcpay[i].state \in BTCPayStates
      BY <1>t, <2>1
    <3>2. btcpay'[i].state = s /\ \A j \in Invoices \ {i} : btcpay'[j] = btcpay[j]
      BY <1>t, <2>1
    <3> QED BY <3>1, <3>2 DEF Proceeds, BTCPayStates, PaidFor
  <2>3. \A j \in Invoices : /\ PaidFor(j) => PaidFor(j)'
                            /\ btcpay'[j].state = "none" => btcpay[j].state = "none"
    BY <2>2 DEF PaidFor
  <2> QED BY <2>3 DEF CustomerActs, BookInv
<1>2. CASE \E h \in Handlers : Create(h) \/ NotIssued(h)
  <2> PICK h \in Handlers : Create(h) \/ NotIssued(h)
    BY <1>2
  <2>1. \A g \in Handlers : th'[g].pc = "append" => th'[g] = th[g]
    BY <1>t DEF Create, NotIssued, Idle
  <2> QED BY <2>1, BookFrame DEF Create, NotIssued
<1>3. CASE \E h \in Handlers, i \in Invoices : Issued(h, i)
  <2> PICK h \in Handlers, i \in Invoices : Issued(h, i)
    BY <1>3
  <2>1. btcpay[i].state = "none"
    <3>1. i >= i
      BY MerchantAssumption DEF Invoices
    <3> QED BY <3>1 DEF Issued
  <2>2. btcpay'[i].state = "new" /\ \A j \in Invoices \ {i} : btcpay'[j] = btcpay[j]
    BY <1>t DEF Issued
  <2>3. inv[i].status = "pending" /\ ~PaidFor(i)
    BY <2>1 DEF BookInv, PaidFor
  <2>4. \A j \in Invoices : /\ PaidFor(j) => PaidFor(j)'
                            /\ btcpay'[j].state = "none" => btcpay[j].state = "none"
    BY <2>2, <2>3 DEF PaidFor
  <2>5. th'[h].got = i /\ \A g \in Handlers \ {h} : th'[g] = th[g]
    BY <1>t DEF Issued
  <2>6. \A g \in Handlers : th'[g].pc = "append" => inv[th'[g].got].status = "pending"
    BY <2>3, <2>5 DEF BookInv
  <2> QED BY <2>4, <2>6 DEF Issued, BookInv
<1>4. CASE \E h \in Handlers : Booked(h)
  <2> PICK h \in Handlers : Booked(h)
    BY <1>4
  <2>1. th[h].got \in Invoices /\ inv[th[h].got].status = "pending"
    BY <1>t DEF Booked, BookInv
  <2>2. \A i \in Invoices : inv'[i].status = inv[i].status
    BY <1>t, <2>1 DEF Booked, Blank
  <2>3. \A i \in Invoices : read'[i].status = inv[i].status
    BY <2>2 DEF Booked, BeginSave
  <2>4. \A g \in Handlers : th'[g].pc = "append" => th'[g] = th[g]
    BY <1>t DEF Booked, Idle
  <2>5. UNCHANGED <<file, btcpay>>
    BY DEF Booked
  <2>6. \A i \in Invoices : file.inv[i].status = "torn"
            \/ Book!Precedes(file.inv[i].status, inv[i].status)
    BY DEF BookInv, Book!Behind
  <2>7. \A g \in Handlers : th'[g].pc = "append" => inv'[th'[g].got].status = "pending"
    BY <1>t, <2>2, <2>4 DEF BookInv
  <2> QED BY <1>m, <1>r, <2>2, <2>3, <2>5, <2>6, <2>7 DEF BookInv, PaidFor
<1>5. CASE \E h \in Handlers, s \in Requests : SetSettings(h, s)
  <2> PICK h \in Handlers, s \in Requests : SetSettings(h, s)
    BY <1>5
  <2>1. UNCHANGED <<inv, file, btcpay>> /\ read' = inv
    BY DEF SetSettings, BeginSave
  <2>2. \A g \in Handlers : th'[g].pc = "append" => th'[g] = th[g]
    BY <1>t DEF SetSettings, Idle
  <2>3. \A i \in Invoices : file.inv[i].status = "torn"
            \/ Book!Precedes(file.inv[i].status, inv[i].status)
    BY DEF BookInv, Book!Behind
  <2>4. \A g \in Handlers : th'[g].pc = "append" => inv'[th'[g].got].status = "pending"
    BY <2>1, <2>2 DEF BookInv
  <2> QED BY <1>m, <1>r, <2>1, <2>3, <2>4 DEF BookInv, PaidFor
<1>6. CASE \E h \in Handlers : EndSave(h)
  <2> PICK h \in Handlers : EndSave(h)
    BY <1>6
  <2>1. lock # None /\ lock' = None /\ UNCHANGED <<inv, btcpay>>
    BY MerchantAssumption DEF EndSave
  <2>2. \A g \in Handlers : th'[g].pc = "append" => th'[g] = th[g]
    BY <1>t DEF EndSave, Idle
  <2>3. \A i \in Invoices : read'[i].status = "pending"
    BY DEF EndSave, Unread, Blank
  <2>4. \A i \in Invoices : /\ Book!Behind(file'.inv[i].status, inv[i].status)
                            /\ file'.inv[i].status = "paid" => PaidFor(i)
    <3>1. CASE Fails
      BY <3>1 DEF Fails, BookInv
    <3>2. ASSUME NEW f \in Readings, Replaced([Memory EXCEPT !.inv = f])
          PROVE  \A i \in Invoices :
                    /\ Book!Behind(file'.inv[i].status, inv[i].status)
                    /\ file'.inv[i].status = "paid" => PaidFor(i)
      <4>1. file'.inv = f
        BY <3>2 DEF Replaced, Memory
      <4> QED BY <2>1, <4>1, SaveFollows
    <3> QED BY <3>1, <3>2 DEF EndSave
  <2>5. \A g \in Handlers : th'[g].pc = "append" => inv'[th'[g].got].status = "pending"
    BY <2>1, <2>2 DEF BookInv
  <2> QED BY <2>1, <2>3, <2>4, <2>5 DEF BookInv, PaidFor
<1>7. CASE Poll \/ PollEnds \/ \E i \in Invoices : RefreshSame(i) \/ RefreshFails(i)
  BY <1>7, BookFrame DEF Poll, PollEnds, RefreshSame, RefreshFails
<1>8. CASE \E i \in Invoices : RefreshChanges(i)
  <2> PICK i \in Invoices : RefreshChanges(i)
    BY <1>8
  <2>1. UNCHANGED <<th, lock, read, file, btcpay>>
    BY DEF RefreshChanges
  <2>2. /\ Book!Precedes(inv[i].status, inv'[i].status)
        /\ inv'[i].status = "paid" => PaidFor(i)
        /\ \A j \in Invoices \ {i} : inv'[j] = inv[j]
    BY RefreshGoesForward DEF Book!Precedes
  <2>3. inv'[i].status \in Marks
    <3>1. inv[i].status \in {"pending", "paid"}
      BY DEF RefreshChanges, OutcomeInv, Open
    <3> QED BY <3>1, RefreshGoesForward DEF Book!After, Marks, Statuses
  <2>4. Book!Behind(file.inv[i].status, inv'[i].status)
    <3>1. Book!Behind(file.inv[i].status, inv[i].status)
      BY DEF BookInv
    <3> QED BY <1>m, <2>2, <2>3, <3>1, BehindStays
  <2>5. lock # None => Book!Precedes(read[i].status, inv'[i].status)
    <3>1. lock # None => Book!Precedes(read[i].status, inv[i].status)
      BY DEF BookInv
    <3> QED BY <1>m, <2>2, <2>3, <3>1, PrecedesIsAnOrder
  <2>6. /\ btcpay[i].state # "none"
        /\ \A h \in Handlers : th[h].pc = "append" => th[h].got # i
    BY DEF OutcomeInv, RefreshChanges
  <2>7. \A h \in Handlers : th[h].pc = "append" => inv'[th[h].got].status = "pending"
    BY <1>t, <2>2, <2>6 DEF BookInv
  <2> QED BY <2>1, <2>2, <2>4, <2>5, <2>6, <2>7 DEF BookInv, PaidFor
<1>9. CASE PollSaves
  <2>1. lock = None /\ UNCHANGED <<inv, th, lock, read, btcpay>>
    BY <1>9 DEF PollSaves
  <2>2. file'.inv = inv \/ file' = file
    BY <1>9 DEF PollSaves, Replaced, Fails, Memory
  <2>3. \A i \in Invoices : /\ Book!Behind(file'.inv[i].status, inv[i].status)
                            /\ file'.inv[i].status = "paid" => PaidFor(i)
    BY <1>m, <1>r, <2>2 DEF BookInv
  <2> QED BY <2>1, <2>3 DEF BookInv, PaidFor
<1>10. CASE Restart
  <2>1. /\ inv' = file.inv /\ lock' = None /\ UNCHANGED <<file, btcpay>>
        /\ \A h \in Handlers : th'[h].pc # "append"
        /\ \A i \in Invoices : read'[i].status = "pending"
    BY <1>10 DEF Restart, Load, Idle, Unread, Blank
  <2>2. \A i \in Invoices :
            inv[i].status = "pending" => file.inv[i].status = "pending"
    <3> TAKE i \in Invoices
    <3>1. Book!Behind(file.inv[i].status, inv[i].status)
      BY DEF BookInv
    <3> QED BY <1>m, <3>1 DEF Book!Behind, Book!Precedes, Book!After, Marks, Statuses
  <2> QED BY <1>m, <1>r, <2>1, <2>2 DEF BookInv, PaidFor
<1>11. CASE UNCHANGED vars
  BY <1>11, BookFrame DEF vars
<1> QED BY <1>1, <1>2, <1>3, <1>4, <1>5, <1>6, <1>7, <1>8, <1>9, <1>10, <1>11
        DEF Next, Polling

-----------------------------------------------------------------------------
\* Each step is a step of InvoiceBook, or none.
LEMMA RefreshIsAnnounce ==
    ASSUME TypeInv, OutcomeInv, BookInv, NEW i \in Invoices, RefreshChanges(i)
    PROVE  Book!Announce(i)
<1> DEFINE old == [j \in Invoices |-> inv[j].status]
           new == [j \in Invoices |-> inv'[j].status]
           s == inv'[i].status
<1>1. /\ s \in Book!After[inv[i].status] /\ told'[i] = told[i] \union {s}
      /\ \A j \in Invoices \ {i} : inv'[j] = inv[j] /\ told'[j] = told[j]
  BY RefreshGoesForward
<1>2. new = [old EXCEPT ![i] = s]
  BY <1>1
<1>3. told' = [told EXCEPT ![i] = @ \union {s}]
  <2>1. told \in [Invoices -> SUBSET Statuses] /\ told' \in [Invoices -> SUBSET Statuses]
    BY TypeStep DEF TypeInv, TypeOK, Next, Polling
  <2> QED BY <1>1, <2>1
<1>4. file' = file
  BY DEF RefreshChanges
<1> QED BY <1>1, <1>2, <1>3, <1>4 DEF Book!Announce

LEMMA SaveIsWrite ==
    ASSUME TypeInv, BookInv, UNCHANGED <<inv, told>>,
           \A i \in Invoices :
              /\ file'.inv[i].status \in Marks
              /\ Book!Behind(file'.inv[i].status, inv[i].status)
              /\ \/ "torn" \in {file.inv[i].status, file'.inv[i].status}
                 \/ Book!Precedes(file.inv[i].status, file'.inv[i].status)
    PROVE  Book!Write
BY MarksAreBooks DEF Book!Write

LEMMA BookNext ==
    ASSUME TypeInv, OutcomeInv, BookInv, [Next]_vars
    PROVE  [Book!Next]_Book!bookVars
<1>k. ASSUME UNCHANGED <<inv, file, told>> PROVE UNCHANGED Book!bookVars
  BY <1>k DEF Book!bookVars
<1>m. \A i \in Invoices : inv[i].status \in Marks /\ file.inv[i].status \in Marks
  BY InvoiceMarks
<1>r. \A a \in Marks : Book!Precedes(a, a) /\ Book!Behind(a, a)
  BY DEF Book!Precedes, Book!Behind
<1>1. CASE \E i \in Invoices : RefreshChanges(i)
  BY <1>1, RefreshIsAnnounce DEF Book!Next
<1>2. CASE \E h \in Handlers : EndSave(h)
  <2> PICK h \in Handlers : EndSave(h)
    BY <1>2
  <2>1. lock # None /\ UNCHANGED <<inv, told>>
    BY MerchantAssumption DEF EndSave
  <2>2. CASE Fails
    BY <1>k, <2>1, <2>2 DEF Fails
  <2>3. ASSUME NEW f \in Readings, Replaced([Memory EXCEPT !.inv = f])
        PROVE  Book!Write
    <3>1. file'.inv = f
      BY <2>3 DEF Replaced, Memory
    <3>2. \A i \in Invoices :
              /\ f[i].status \in Marks
              /\ Book!Behind(f[i].status, inv[i].status)
              /\ \/ "torn" \in {file.inv[i].status, f[i].status}
                 \/ Book!Precedes(file.inv[i].status, f[i].status)
      BY <2>1, SaveFollows
    <3> QED BY <2>1, <3>1, <3>2, SaveIsWrite
  <2> QED BY <2>2, <2>3 DEF EndSave, Book!Next
<1>3. CASE PollSaves
  <2>1. UNCHANGED <<inv, told>>
    BY <1>3 DEF PollSaves
  <2>2. CASE Fails
    BY <1>k, <2>1, <2>2 DEF Fails
  <2>3. CASE Replaced(Memory)
    <3>1. file'.inv = inv
      BY <2>3 DEF Replaced, Memory
    <3>2. \A i \in Invoices : Book!Behind(file.inv[i].status, inv[i].status)
      BY DEF BookInv
    <3>3. \A i \in Invoices : file.inv[i].status = "torn"
              \/ Book!Precedes(file.inv[i].status, inv[i].status)
      BY <3>2 DEF Book!Behind
    <3>4. Book!Write
      BY <1>m, <1>r, <2>1, <3>1, <3>3, SaveIsWrite
    <3> QED BY <3>4 DEF Book!Next
  <2> QED BY <1>3, <2>2, <2>3 DEF PollSaves
<1>4. CASE Restart
  BY <1>4 DEF Restart, Load, Book!Next, Book!Restart
<1>5. CASE \E h \in Handlers : Booked(h)
  <2> PICK h \in Handlers : Booked(h)
    BY <1>5
  <2>1. th[h].got \in Invoices /\ inv[th[h].got].status = "pending"
    BY DEF Booked, TypeInv, BookInv
  <2>2. inv \in [Invoices -> InvoiceType]
    BY DEF TypeInv, TypeOK
  <2>3. \A i \in Invoices : inv'[i].status = inv[i].status
    BY <2>1, <2>2 DEF Booked, Blank
  <2> QED BY <2>3 DEF Booked, Book!bookVars
<1>6. CASE \E i \in Invoices : CustomerActs(i) \/ RefreshSame(i) \/ RefreshFails(i)
  BY <1>6, <1>k DEF CustomerActs, RefreshSame, RefreshFails
<1>7. CASE Poll \/ PollEnds \/ UNCHANGED vars
  BY <1>7, <1>k DEF Poll, PollEnds, vars
<1>8. CASE \E h \in Handlers :
            Create(h) \/ NotIssued(h) \/ \E i \in Invoices : Issued(h, i)
  BY <1>8, <1>k DEF Create, NotIssued, Issued
<1>9. CASE \E h \in Handlers, s \in Requests : SetSettings(h, s)
  BY <1>9, <1>k DEF SetSettings
<1> QED BY <1>1, <1>2, <1>3, <1>4, <1>5, <1>6, <1>7, <1>8, <1>9 DEF Next, Polling

LEMMA BookInitial == Init => Book!Init
BY DEF Init, Memory, Unread, Blank, Book!Init

\* The point of sale keeps the promise of InvoiceBook for every number of invoices,
\* handlers and stores: invoices go forward, and no save that overlaps the poll, a
\* failed write or a restart takes merchant.json back or ahead.
THEOREM MerchantImplementsBook == Spec => BookSpec
<1>1. TypeInv /\ OutcomeInv /\ BookInv /\ [Next]_vars => [Book!Next]_Book!bookVars
  BY BookNext
<1> QED BY <1>1, TypeInit, TypeStep, OutcomeInit, OutcomeStep, BookInit, BookStep,
           BookInitial, PTL DEF Spec, BookSpec, Book!Spec

=============================================================================
