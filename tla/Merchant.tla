------------------------------- MODULE Merchant -------------------------------
(***************************************************************************)
(* The point of sale of internal/merchant: invoices that BTCPay issues, the *)
(* poll loop that follows and announces them, the settings that choose the  *)
(* provider, and merchant.json, which holds both.  A step is one critical   *)
(* section of Manager.mu, one answer of BTCPay, or the write of the file,   *)
(* during which the lock is held.                                           *)
(*                                                                          *)
(* Poll writes the invoices without the lock, so a save may read one while  *)
(* it is written: its status and its PaidAt are each read before or after,  *)
(* and a status that changes its length may be read torn, as a Go string is *)
(* two words.  Amounts, rates, payment links and the demo provider are left *)
(* out.  A key is named by the store that it opens.                         *)
(***************************************************************************)
EXTENDS Integers, Sequences, FiniteSets

CONSTANTS NInvoices,     \* bound: the invoices BTCPay ever issues
          Stores,        \* stores at a BTCPay server
          None,          \* no store, no key, no provider, no invoice
          Masked,        \* maskedKey, the placeholder shown for the key
          Requests,      \* settings that the UI may send
          Handlers,      \* HTTP handlers
          MaxInvoices,   \* maxInvoices
          SavesFail,     \* may writing merchant.json fail?
          Restarts       \* may nodeosd restart?

Invoices == 1 .. NInvoices
SettingsType == [mode : {"keep", "eur"}, store : Stores \union {None},
                 key : Stores \union {None}]
\* What a client may PUT: no mode, no key, or the placeholder for the key.
RequestType == [mode : {"", "keep", "eur"}, store : Stores \union {None},
                key : Stores \union {None, Masked}]
Providers == [store : Stores, key : Stores]

ASSUME MerchantAssumption ==
    /\ NInvoices \in Nat /\ MaxInvoices \in Nat \ {0}
    /\ None \notin Stores \union Providers \union Invoices \union Handlers
    /\ Masked \notin Stores \union {None}
    /\ Requests \subseteq RequestType
    /\ {SavesFail, Restarts} \subseteq BOOLEAN

Statuses == {"pending", "paid", "settled", "expired", "failed"}
Final == {"settled", "expired", "failed"}
\* BTCPay's states of an invoice, "none" before it is issued.
BTCPayStates == {"none", "new", "processing", "settled", "expired", "invalid"}
\* An invoice: its status, and whether PaidAt is set.
InvoiceType == [status : Statuses \union {"torn"}, stamped : BOOLEAN]
FileType == [settings : SettingsType, log : Seq(Invoices),
             inv : [Invoices -> InvoiceType]]

VARIABLES
    settings, \* Manager.settings
    provider, \* Manager.provider, None for notConfigured
    log,      \* Manager.invoices, newest last
    inv,      \* the invoices that log and Poll point to
    poll,     \* Poll: whether it runs, its provider, what is left of open, changed
    th,       \* handlers: program counter, provider, the invoice they got
    lock,     \* the handler that saves and holds Manager.mu, None if no one does
    read,     \* the invoices as that save began to read them
    file,     \* merchant.json
    btcpay,   \* BTCPay's state of each invoice, and the store it belongs to
    \* history
    told,     \* the statuses the feed got of each invoice since the start
    saved     \* did the last write of merchant.json succeed?

vars == <<settings, provider, log, inv, poll, th, lock, read, file, btcpay,
          told, saved>>

InLog(i) == \E k \in DOMAIN log : log[k] = i
Open(i) == inv[i].status \in {"pending", "paid"}
Memory == [settings |-> settings, log |-> log, inv |-> inv]

Blank == [status |-> "pending", stamped |-> FALSE]
Idle == [pc |-> "idle", prov |-> None, got |-> None]
Unread == [i \in Invoices |-> Blank]
NoPoll == [on |-> FALSE, prov |-> None, todo |-> {}, changed |-> FALSE]

\* rebuildProvider
ProviderFor(s) == IF s.mode = "keep" /\ s.store # None /\ s.key # None
                  THEN [store |-> s.store, key |-> s.key] ELSE None

\* load and New: the manager a daemon starts with.
Load(f) ==
    /\ settings' = f.settings /\ log' = f.log /\ inv' = f.inv
    /\ provider' = ProviderFor(f.settings)

Init ==
    /\ settings = [mode |-> "keep", store |-> None, key |-> None]
    /\ provider = ProviderFor(settings)
    /\ log = <<>> /\ inv = Unread
    /\ poll = NoPoll /\ th = [h \in Handlers |-> Idle]
    /\ lock = None /\ read = Unread
    /\ file = Memory /\ saved = TRUE
    /\ btcpay = [i \in Invoices |-> [state |-> "none", store |-> None]]
    /\ told = [i \in Invoices |-> {}]

-----------------------------------------------------------------------------
(* BTCPay *)

\* A customer pays or does not; the merchant may mark an invoice as settled by
\* hand that BTCPay has given up.
Proceeds == [none |-> {}, new |-> {"processing", "settled", "expired"},
             processing |-> {"settled", "invalid"}, settled |-> {},
             expired |-> {"settled"}, invalid |-> {"settled"}]

CustomerActs(i) ==
    /\ \E s \in Proceeds[btcpay[i].state] : btcpay' = [btcpay EXCEPT ![i].state = s]
    /\ UNCHANGED <<settings, provider, log, inv, poll, th, lock, read, file, told,
                   saved>>

\* A provider is refused an invoice unless its key opens the store it is in.
Serves(p, i) == p # None /\ p.key = p.store /\ p.store = btcpay[i].store

mapStatus == [new |-> "pending", processing |-> "paid", settled |-> "settled",
              expired |-> "expired", invalid |-> "failed"]

-----------------------------------------------------------------------------
(* merchant.json *)

\* What a save may read of a status that was a when it began and is b now.
SameLength == {"pending", "settled", "expired"}
ReadStatus(a, b) ==
    {a, b} \union (IF a = b \/ {a, b} \subseteq SameLength THEN {} ELSE {"torn"})
Readings ==
    {f \in [Invoices -> InvoiceType] :
        \A i \in Invoices :
            /\ f[i].status \in ReadStatus(read[i].status, inv[i].status)
            /\ f[i].stamped \in {read[i].stamped, inv[i].stamped}}

\* The file is replaced by a rename, or stays as it was.
Replaced(f) == file' = f /\ saved' = TRUE
Fails == SavesFail /\ saved' = FALSE /\ UNCHANGED file

\* saveLocked of a handler, which has locked and changed the manager before.
BeginSave(h) == lock' = h /\ read' = inv'

\* Mutant: a save also settles what the poll has still to save.
EndSaveClears(h) ==
    /\ lock = h
    /\ \/ \E f \in Readings : Replaced([Memory EXCEPT !.inv = f])
       \/ Fails
    /\ lock' = None /\ read' = Unread
    /\ th' = [th EXCEPT ![h] = Idle]
    /\ poll' = [poll EXCEPT !.changed = FALSE]
    /\ UNCHANGED <<settings, provider, log, inv, btcpay, told>>

EndSave(h) ==
    /\ lock = h
    /\ \/ \E f \in Readings : Replaced([Memory EXCEPT !.inv = f])
       \/ Fails
    /\ lock' = None /\ read' = Unread
    /\ th' = [th EXCEPT ![h] = Idle]
    /\ UNCHANGED <<settings, provider, log, inv, poll, btcpay, told>>

-----------------------------------------------------------------------------
(* SetSettings *)

\* Mutant: the placeholder clears the key.
KeptUnlessMasked(s) ==
    [mode |-> IF s.mode = "" THEN "keep" ELSE s.mode, store |-> s.store,
     key |-> CASE s.key = None -> settings.key [] s.key = Masked -> None
               [] OTHER -> s.key]

\* withDefaults, and the key that is kept when none or the placeholder comes back;
\* a mode or URL that is not one is refused before.
Kept(s) ==
    [mode |-> IF s.mode = "" THEN "keep" ELSE s.mode, store |-> s.store,
     key |-> IF s.key \in {None, Masked} THEN settings.key ELSE s.key]

SetSettings(h, s) ==
    /\ th[h].pc = "idle" /\ lock = None
    /\ settings' = Kept(s)
    /\ provider' = ProviderFor(settings')
    /\ th' = [th EXCEPT ![h] = [Idle EXCEPT !.pc = "save"]]
    /\ UNCHANGED <<log, inv>>
    /\ BeginSave(h)
    /\ UNCHANGED <<poll, file, btcpay, told, saved>>

-----------------------------------------------------------------------------
(* Create *)

Create(h) ==
    /\ th[h].pc = "idle" /\ lock = None
    /\ th' = [th EXCEPT ![h] = [pc |-> "create", prov |-> provider, got |-> None]]
    /\ UNCHANGED <<settings, provider, log, inv, poll, lock, read, file, btcpay,
                   told, saved>>

\* BTCPay issues the next invoice.
Issued(h, i) ==
    /\ th[h].pc = "create" /\ th[h].prov # None
    /\ th[h].prov.key = th[h].prov.store
    /\ \A j \in Invoices : btcpay[j].state = "none" <=> j >= i
    /\ btcpay' = [btcpay EXCEPT ![i] = [state |-> "new", store |-> th[h].prov.store]]
    /\ th' = [th EXCEPT ![h] = [pc |-> "append", prov |-> None, got |-> i]]
    /\ UNCHANGED <<settings, provider, log, inv, poll, lock, read, file, told, saved>>

\* No provider, a wrong key, BTCPay unreachable, or its answer lost, and with it
\* an invoice that nobody here ever knows of.
NotIssued(h) ==
    /\ th[h].pc = "create"
    /\ th' = [th EXCEPT ![h] = Idle]
    /\ UNCHANGED <<settings, provider, log, inv, poll, lock, read, file, btcpay,
                   told, saved>>

\* saveLocked keeps the newest maxInvoices, whatever their status.
Trimmed(s) == IF Len(s) > MaxInvoices
              THEN SubSeq(s, Len(s) - MaxInvoices + 1, Len(s)) ELSE s

Booked(h) ==
    /\ th[h].pc = "append" /\ lock = None
    /\ log' = Trimmed(Append(log, th[h].got))
    /\ inv' = [inv EXCEPT ![th[h].got] = Blank]
    /\ th' = [th EXCEPT ![h] = [Idle EXCEPT !.pc = "save"]]
    /\ BeginSave(h)
    /\ UNCHANGED <<settings, provider, poll, file, btcpay, told, saved>>

-----------------------------------------------------------------------------
(* Poll *)

\* The open invoices and the provider, as they are now.  The code goes through
\* them in the order of the log, of which nothing here depends.
Poll ==
    /\ ~poll.on /\ lock = None
    /\ poll' = [on |-> TRUE, prov |-> provider, changed |-> FALSE,
                todo |-> {i \in Invoices : InLog(i) /\ Open(i)}]
    /\ UNCHANGED <<settings, provider, log, inv, th, lock, read, file, btcpay,
                   told, saved>>

\* Refresh of an invoice with an answer of BTCPay.
Refreshed(i) ==
    LET st == mapStatus[btcpay[i].state]
    IN [status |-> st, stamped |-> inv[i].stamped \/ st \in {"paid", "settled"}]

\* Refresh brings a change, which is written without the lock and announced.
RefreshChanges(i) ==
    /\ i \in poll.todo /\ Serves(poll.prov, i)
    /\ Refreshed(i).status # inv[i].status
    /\ inv' = [inv EXCEPT ![i] = Refreshed(i)]
    /\ told' = [told EXCEPT ![i] = @ \union {Refreshed(i).status}]
    /\ poll' = [poll EXCEPT !.todo = @ \ {i}, !.changed = TRUE]
    /\ UNCHANGED <<settings, provider, log, th, lock, read, file, btcpay, saved>>

\* It brings none; without a provider it never does.
RefreshSame(i) ==
    /\ i \in poll.todo
    /\ \/ poll.prov = None
       \/ Serves(poll.prov, i) /\ Refreshed(i).status = inv[i].status
    /\ poll' = [poll EXCEPT !.todo = @ \ {i}]
    /\ UNCHANGED <<settings, provider, log, inv, th, lock, read, file, btcpay, told,
                   saved>>

\* BTCPay is unreachable, or refuses: the key or the store is another by now.
RefreshFails(i) ==
    /\ i \in poll.todo /\ poll.prov # None
    /\ poll' = [poll EXCEPT !.todo = @ \ {i}]
    /\ UNCHANGED <<settings, provider, log, inv, th, lock, read, file, btcpay, told,
                   saved>>

\* Mutant: the poll writes without the lock, while a handler writes.
PollSavesUnlocked ==
    /\ poll.on /\ poll.todo = {} /\ poll.changed
    /\ Replaced(Memory) \/ Fails
    /\ poll' = NoPoll
    /\ UNCHANGED <<settings, provider, log, inv, th, lock, read, btcpay, told>>

\* Nobody writes the invoices now, so this save reads what is there.
PollSaves ==
    /\ poll.on /\ poll.todo = {} /\ poll.changed /\ lock = None
    /\ Replaced(Memory) \/ Fails
    /\ poll' = NoPoll
    /\ UNCHANGED <<settings, provider, log, inv, th, lock, read, btcpay, told>>

PollEnds ==
    /\ poll.on /\ poll.todo = {} /\ ~poll.changed
    /\ poll' = NoPoll
    /\ UNCHANGED <<settings, provider, log, inv, th, lock, read, file, btcpay,
                   told, saved>>

-----------------------------------------------------------------------------
\* systemd starts nodeosd again, at any time.
Restart ==
    /\ Restarts
    /\ Load(file)
    /\ poll' = NoPoll /\ th' = [h \in Handlers |-> Idle]
    /\ lock' = None /\ read' = Unread
    /\ told' = [i \in Invoices |-> {}] /\ saved' = TRUE
    /\ UNCHANGED <<file, btcpay>>

Polling ==
    \/ Poll \/ PollSaves \/ PollEnds
    \/ \E i \in Invoices : RefreshChanges(i) \/ RefreshSame(i) \/ RefreshFails(i)

Next ==
    \/ Polling \/ Restart
    \/ \E i \in Invoices : CustomerActs(i)
    \/ \E h \in Handlers :
        \/ Create(h) \/ NotIssued(h) \/ Booked(h) \/ EndSave(h)
        \/ \E i \in Invoices : Issued(h, i)
        \/ \E s \in Requests : SetSettings(h, s)

\* The ticker ticks, a refresh ends within 8 s, a write of the file ends, the lock
\* is given to who waits for it, and BTCPay answers now and then.
Fairness ==
    /\ WF_vars(Polling) /\ SF_vars(Poll) /\ SF_vars(PollSaves)
    /\ \A i \in Invoices : SF_vars(RefreshChanges(i))
    /\ \A h \in Handlers : WF_vars(EndSave(h))

Spec == Init /\ [][Next]_vars /\ Fairness

-----------------------------------------------------------------------------
(* Properties *)

\* Every variable keeps its type; a placeholder is never taken for a key.
TypeOK ==
    /\ settings \in SettingsType /\ provider \in Providers \union {None}
    /\ log \in Seq(Invoices) /\ Len(log) <= MaxInvoices
    /\ inv \in [Invoices -> InvoiceType] /\ read \in [Invoices -> InvoiceType]
    /\ poll \in [on : BOOLEAN, prov : Providers \union {None},
                 todo : SUBSET Invoices, changed : BOOLEAN]
    /\ th \in [Handlers -> [pc : {"idle", "create", "append", "save"},
                            prov : Providers \union {None},
                            got : Invoices \union {None}]]
    /\ lock \in Handlers \union {None}
    /\ file \in FileType
    /\ btcpay \in [Invoices -> [state : BTCPayStates, store : Stores \union {None}]]
    /\ told \in [Invoices -> SUBSET Statuses] /\ saved \in BOOLEAN

\* When no one saves and no poll has a change left to save, merchant.json is what
\* the manager holds, unless the last write failed: a handler's save that read an
\* invoice while it changed is always made good (merchant.go:315-336).
BooksAreStored ==
    lock = None /\ ~poll.changed /\ saved => file = Memory

\* No invoice is announced with two different outcomes, for instance as expired and
\* then as settled, unless the daemon restarts (merchant.go:303-331).
OneOutcome == \A i \in Invoices : \A s, t \in told[i] \intersect Final : s = t

\* A payment is tracked to its end: an invoice that BTCPay has settled or given up
\* does not stay open, unless it is pushed out of the log (merchant.go:1-2: "the
\* payment is tracked and booked"; merchant.go:303: "Poll refreshes every open
\* invoice").
PaymentTracked ==
    \A i \in Invoices :
        InLog(i) /\ btcpay[i].state \in {"settled", "expired", "invalid"} ~>
            ~InLog(i) \/ ~Open(i)

\* The invoices as InvoiceBook sees them.
Book == INSTANCE InvoiceBook WITH
    booked <- [i \in Invoices |-> inv[i].status],
    stored <- [i \in Invoices |-> file.inv[i].status]

\* The point of sale keeps the promise of InvoiceBook: whatever saves, polls and
\* restarts overlap, invoices go forward, merchant.json is never ahead of what was
\* announced and no write takes it back (merchant.go:133-147, 304-337).  OneOutcome
\* follows, as nothing comes after an outcome.
BookSpec == Book!Spec
=============================================================================
