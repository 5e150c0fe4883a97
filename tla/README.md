# RideMatch in TLA+

A specification of the RideMatch API (Go, `internal/`): the money ledger, trips
with their fares in escrow, withdrawals sent to a bank, the appeals of a driver's
next of kin, login codes and sessions, the driver's profile with its
subscription and ratings, the evidence of a shift, the PIN and bank accounts of
a wallet, and the WebSocket hub. TLC checks small instances; TLAPS proves what
matters most for every instance. `PROJECT.json` lists the components, the runs,
the mutants that show each property can fail, the source lines of every
definition, the findings, the hazards and the theorems.

## The system

RideMatch is one Go process (or several, over one MySQL and one Redis). A Gin
router calls services, a service calls repositories, and a repository method is
one SQL statement or one transaction. Nothing is locked between two repository
calls: a request handler is a sequence of atomic database steps, and any other
handler may run between two of them. Seven background jobs (`runEvery` in
`cmd/api/main.go`) run beside the handlers, and Flutterwave calls back through
webhooks. `ridematch-backend/` is an older copy of the service, without money.

| Component | State | Operations | What is hard | What makes it correct | Modules |
|---|---|---|---|---|---|
| Money ledger (`ledger_repository.go`) | wallets, entries, idempotency keys, top-ups, holds, withdrawals | credit a top-up, hold / release / refund a fare, create / move / finish a withdrawal, freeze | re-opened holds, late and double calls, limits | every balance and row is explained by entries, nothing is settled twice | `Ledger`, `Funds`, `LedgerFunds` |
| Trips, offers, escrow (`trip_service.go`, `escrow_service.go`) | trips, offers, the holds above | create, offer, accept, reject, pick up, complete, cancel, expire, confirm, dispute, resolve, release when due | each call is up to seven transactions over three tables | a trip under way is funded, its driver is paid after it, the fare comes back if it is called off, nobody is on two trips | `TripEscrow`, `Trips` |
| Withdrawal dispatch (`wallet_service.go`, `wallet_admin_service.go`) | withdrawals, the transfer at the gateway | request, review, send, webhook, poll, resolve by hand | a lost answer of the gateway, crashes, concurrent reviewers | never sent twice, the books agree with the bank, everything settles | `Payouts` |
| Next of kin and appeals (`kin_service.go`) | appeals, documents, the freeze | file, upload, cancel, decide, pay out | the freeze is shared with admins and other appeals; the job races the driver | frozen while open, two admins, disbursed means paid out, approved comes to an end | `Appeals` |
| Sessions and step-up codes (`auth_service.go`, `stepup_service.go`) | codes, refresh tokens, users | send / verify a code, refresh, log out, change the profile, suspend, delete | check and save in two calls, whole rows saved | a code or a token is good for one session, attempts are counted, who is out stays out | `Sessions` |
| Driver profile and presence, shift evidence (`driver_service.go`, `tracking_service.go`) | profile, shifts, points, hash chain, the set of drivers online | go on and off, ping, ingest, close stale shifts, purge, verify | late, repeated and overlapping batches; jobs | the trail of a shift has every acknowledged point and verifies | `Shifts` |
| Subscriptions, verification, ratings (`payment_service.go`, `admin_service.go`, `trip_service.go`) | payments, the same profile row, ratings | check out, webhook, grant days, decide, rate | many writers of one whole row, repeated webhooks | no unpaid day, what is paid is granted, a rating counts once | `Drivers` |
| Wallet security and payout accounts (`wallet_service.go`) | PIN, attempts, lock, cooldown; bank accounts | set and check the PIN, add, review, remove, pay to an account | five columns saved as they were read, limits checked early | few guesses, the cooldown's cap, the limit of accounts | `WalletDesk` |
| Money arithmetic (`money.go`) | none | fees, gross-up, match of names | rounding | exact minimum | `Money` |
| Notifications and WebSocket hub (`notification_service.go`, `ws/`) | connections per user, channels | connect, register, unregister, push, mark read | a push races a reconnect, two goroutines end each other | the newest connection is served, an old one ends | `Hub` |
| Top-up requests | virtual accounts | quote, create, verify, expire | webhook and polling | credited once, and what was asked for | in `Ledger` and `WalletDesk`, partly |
| Rate limiter, settings, catalog, dashboards, HTTP, clients of outside services | a Redis counter, configuration | reads, upserts, input and output | no decision above depends on them | | not modelled |

The services meet in the database: `TripEscrow`, `Payouts` and `Appeals` each
EXTEND `Ledger` and change its rows only by its actions, as the services change
them only by calling `LedgerRepository`. `Drivers` EXTENDS `Shifts`: presence,
payments, ratings and the admins all write the driver's profile row.

## The modules

The service modules share one form. A slot serves one request, webhook or job at
a time; its record (`req[r]`, `job[j]`, `task[t]`, `call[c]`) holds the program
point and what the handler has read so far, and one step is one database call or
one call of the gateway. `Serves` says which handlers a slot can run, so that an
instance says which handlers can overlap. `Abandon` is a handler that stops
between two calls: its client disconnects, which cancels the context of the calls
still to come, or the process stops. A row that the code saves whole is saved
whole, as it was read.

**`Ledger`** has one action per method of `LedgerRepository` that changes money
or a row that guards it. Each method locks the rows it reads, so one action is
one transaction. `entries[s]` is the sum of the entries of one account and one
reference (a wallet, the escrow of a trip, the pending payout of a withdrawal, or
an account outside); `keys` are the idempotency keys, and `Post` is `post()`: it
refuses a key it has seen and an overdraft. Times are abstracted to what guards
look at: a withdrawal is `new` (inside the 45 s duplicate window), a `day` old,
or `old`; a hold's release time is unset, ahead or due.

**`Funds`** says what the ledger promises without entries, keys, versions or
statuses: an amount is spendable by one user or reserved for one purpose, and a
reservation returns to its owner or is paid, once. **`LedgerFunds`** maps a hold
and a withdrawal to reservations and states that the ledger implements `Funds`.

**`TripEscrow`** has the handlers of trips and fares. `due` is what the release
job scanned before it pays hold after hold. `Expire` is `loadAndExpireIfDue`,
which several calls begin with. Left out: geo index and pushes (best effort,
nobody decides on them), the pickup PIN's attempts.

**`Trips`** is the protocol of trips and offers as `ridematch-backend/` has it,
without fares. `TripEscrow` implements it: `Unpaid` maps a request to the one the
older service would be running (a request that is about to hold the fare is one
about to claim the offer; one that only undoes, refunds or releases is idle), and
`PaymentsOnlyAdd` is the abstract specification under that mapping. The code
promises the same: without `SetEscrow` trips work as they did.

**`Payouts`** has a dispatch, the webhook, the poller and an admin's decision;
`bank[w]` is the transfer the gateway has under the withdrawal's unique
reference. The gateway may take a transfer, refuse it, report that the float is
too low, or take it and lose the answer. The dispatcher's timeout is 45 seconds,
the poller looks at rows left alone for two minutes and gives up after twenty:
`NoDispatch` says that no dispatch of the withdrawal is running then. An admin
marks a stuck withdrawal paid or failed after looking it up at the gateway. The
switch that disables all payouts is on throughout.

**`Appeals`** models filing (with the freeze), documents, the driver's
cancellation, the decisions of two admins, `maybeUnfreeze`, and the job that pays
out. The withdrawal of appeal `x` is `x` itself, since its reference is derived
from the appeal's id. `adminSaid` is a history variable: the last word of an
admin on a wallet's freeze. Amounts are whole naira, so the rounding of the
payout is the identity here. What becomes of the payout is abstracted to sent,
paid or returned; `Payouts` has the rest. A withdrawal of the driver is there
because it competes for the balance. Left out: next-of-kin records, alerts, the
access token's expiry.

**`Sessions`** has one-time codes (for login and, under other purposes, as
step-up), refresh tokens, and every writer of the user's row. A code is right or
wrong; ages are inside the resend cooldown, later, expired. A saved row includes
`deleted_at`, so that saving a stale copy after a soft delete would bring the row
back. `answers` and `barred` are history.

**`Shifts`** has going online and offline, pings, batches of points, the
stale-shift job, the purge and the admin's verification, which reads the shift
and then its points batch by batch. A hash is the sequence of what was hashed, so
two trails have the same hash only if they are the same (`chain.go` uses SHA-256).
`acked` is what the app was told to discard; `EditPoint` is somebody who changes a
stored row behind the service's back, which is what the chain is there to show.

**`Drivers`** adds registration, verification, the subscription's checkout and
webhook, an admin's grant, the days passing, and ratings of both sides, all
saving whole rows. `bank[p]` is whether the driver paid the full price, less, or
nothing. `book` counts what was granted, used and given by an admin.

**`WalletDesk`** has the five security columns of a wallet and its bank accounts:
`checkPIN`, `SetPIN`, the cooldown, adding, removing, reviewing and paying to an
account. `Knows` are the callers that hold the PIN. A name matches if the parts of
the registered name are found in the holder's; the operator is in **`Money`**,
with fees and the gross-up of a top-up. `QuoteTopup`, which tells the driver what to
transfer, is there too; `quote` is what it answered, checked against `LeastCovering`
and the fee that is deducted later. It touches nothing else and comes first.

**`Hub`** has the hub's map, both goroutines of every connection, the channel
between them, and notifications that are stored, pushed to the connection found
in the map, then pushed to the phone. `SendPanics` is a send on a channel that a
reconnect closed after the look-up.

`MCLedger`, `MCTrips`, `MCPayouts`, `MCAppeals`, `MCSessions`, `MCShifts`,
`MCDrivers`, `MCWalletDesk` and `MCHub` instantiate these for TLC.

## The runs

| Run | What it checks | Instance |
|---|---|---|
| `ledger` | `TypeOK`, `Backed`, `KeysFresh`, `SettledOnce`, `IntegrityOK`, `SettledStays`, `FundsOK` | two users, one fare opened twice (`MaxVersion`), one top-up with its fee, one withdrawal, freezes; every order of ledger calls |
| `trip_fare` | `MatchedIsFunded`, `PaidAfterCompletion`, `TripMoves`, `PaymentsOnlyAdd` | one passenger, two drivers with an offer each, three slots, requests that stop anywhere; acceptances in one slot; the drivers and the offers are interchangeable (symmetry) |
| `trip_people` | `OneActiveTrip`, `FareComesBack`, `DriverGetsPaid` | two passengers, one driver, two trips; creations, acceptances and confirmations in one slot, the rest in another; fair, no request stops |
| `payout_send` | `BooksMatchBank`, `NeverResent`, `WithdrawalSettles` | one withdrawal, two slots that dispatch, two webhooks, the poller, one admin; any handler may stop; fair |
| `payout_books` | `PayoutTypeOK`, `WithinDailyLimit` | a wallet of 5, two withdrawals of 2 or 3, limit 4, the larger reviewed; one slot that dispatches, two admins; any handler may stop |
| `appeals` | `OpenAppealFreezes`, `TwoAdmins`, `DisbursedHasPayout`, `ApprovedEnds` | one appeal; requests one at a time, two runs of the job that overlap with them and with each other, one of which may stop anywhere; a competing withdrawal; admins who freeze and unfreeze; fair |
| `sessions` | `OneSessionEach`, `AnswersBounded`, `BarredGetNothing`, `AccountsKeep` | two accounts, one phone number, two codes, three tokens, two wrong answers; codes and tokens in a slot that may stop, profile changes, suspensions and deletions in another (symmetry of accounts and tokens) |
| `shifts` | `TrailSound`, `DiscardedIsStored`, `VerdictRight`, `StaleShiftsEnd` | one driver, two shifts, two points; presence and the check in one slot, batches in one that may stop anywhere, the jobs in one; a stored point may be edited; fair |
| `drivers` | `AccessIsPaid`, `RatedOnce`, `PaymentTakesEffect` | one driver, one rider, one payment worth two days, one trip; the webhook in one slot, registration, decisions, grants, checkout and ratings in another, going online in a third; a decision, a rating of the driver and a checkout may stop half-way; fair |
| `wallet_desk` | `GuessesBounded`, `CooldownCaps`, `AccountsBounded`, `GrossUpExact` | two bank accounts of which one is allowed, three attempts; owner and admin in one slot, someone without the PIN in another; a quote for every top-up up to 60 kobo at seven rates |
| `hub` | `LastConnectionServed`, `LeftConnectionEnds` | one user, two connections, two notifications, two senders, a buffer of one message; fair |
| `trip_doubletap` | `MatchedIsFunded`, violated | one passenger, one driver, acceptances in both slots |

Bounds. `MaxVersion` bounds how often the hold of a trip is opened: the code
counts versions only to make keys fresh, and two openings show a reopened hold that
is settled with the keys of its predecessor there. `MaxAttempts`
bounds how often a withdrawal is claimed for dispatch; `MaxDispatch`, the code's
`maxDispatchAttempts` (10), is 2 so that it is reached, as `MaxTries` (5) is 2 and
`PINMaxAttempts` (5) is 3 and `maxPayoutAccounts` (3) is 1. Trips, offers, top-ups, withdrawals, appeals, codes,
tokens, shifts and connections are rows that are never used again, so a small set
of ids is used up. One withdrawal is enough to send one: two meet only in the
guards of `CreateWithdrawal`, which `payout_books` covers. Two points are enough
for a shift: the chain relates neighbours, and the second can be late, repeated or
edited while the first is there; a shift replaced by another is why there are two.
`CycleDays` is 2 so that one day can be used and one left when a stale row is
saved. Amounts are small multiples of one fare, chosen so that a balance can be too
small. `Stops` (slots), `TaskStops` (steps of the tasks of `Drivers`) and `Abandons`
switch half-way stops on.
`CHECK_DEADLOCK FALSE` stands in the configurations of the service modules because
everyone may stop asking and the ids are used up; the `Ledger` runs check deadlock.

Fairness. Nobody has to make a request. In `TripFairSpec` a handler that runs
goes on, the release job runs (every 30 s) and a confirmation window ends.
In `PayoutFairSpec` the gateway decides every transfer, and the job runs (every
20 s). A handler may still stop at any call, so calls that a job repeats are
strongly fair: tried again and again, the same call gets through one day, that
is, the gateway is not down for ever and the process does not always stop at the
same point. Only the slot with the poller has these conditions. `AppealFairSpec`
is the same for the slot that runs nothing but the job that pays appeals every
minute. In `ShiftSpec` the stale-shift job starts again and again and goes through
what it scanned. In `DriverSpec` Flutterwave repeats a webhook until it is
answered, and the gateway answers a verification one day. In `HubSpec` a reader
whose socket failed, and a writer with something to do, go on: the socket, its
deadline, the channel or the ticker wakes them.

### Where the code does not do what it says

`trip_doubletap` expects a violation; the quotation and the scenario are in
`PROJECT.json` under `findings`. The README of the service says that of two
concurrent taps on "accept offer" exactly one wins and the trip is never left in an
ambiguous state. The model finds two overlapping acceptances of one offer of which
the loser, in `undoHold`, refunds the fare of the trip the winner has matched: the
first to hold the fare is not the first to claim the offer.

### What the instances leave out

The passing runs hold for the overlaps and the stops that the table allows them,
and some need that restriction. To see what it hides, change one line of a
configuration or of an MC module (the invariants and properties named below that
are in no configuration are defined in the modules):

| Change | Fails | Because |
|---|---|---|
| `trip_people` with `"accept"` (or `"create"`) in both slots | `OneActiveTrip` | the driver's (the passenger's) active trip is looked up several calls before the match (the insert) |
| `trip_people` with `Abandons = TRUE` | `FareComesBack`, `DriverGetsPaid` | a cancellation that stops before the refund, or a completion that stops before the confirmation window starts, is repeated by nobody |
| `trip_doubletap` with `DisputeServes` | `DisputeParksPayment` | a confirmation or the release job that read the hold before a dispute pays after it |
| `payout_books` (two admins) with `BooksMatchBank` | `BooksMatchBank` | one admin rejects what another approved meanwhile: paid and returned |
| `appeals` with `RaceServes` | `CancelledIsNotPaid` | the driver cancels after the job has scanned the appeal |
| `appeals` with `SoloServes` | `AdminFreezeStays` | an appeal takes over an admin's freeze, and lifts it |
| `appeals` with `"decide"` in both slots | `TwoAdmins` | who recommended the appeal is read before the compare-and-swap on its status |
| `appeals` with two appeals and requests in both slots, or with `SubmitAppeal` stopping | `OpenAppealFreezes` | lifting the freeze of a cancelled appeal is three calls; an appeal is saved before the wallet is frozen |
| `sessions` with `"verify"` or `"refresh"` in both slots | `OneSessionEach`, `AnswersBounded` | a code or a token is checked in one call and used up in another |
| `sessions` with `"profile"` and `"status"` or `"delete"` in different slots | `AccountsKeep` | the profile saves the whole row as it was before the suspension or the deletion |
| `drivers` with `"webhook"` in both task slots | `AccessIsPaid` | both find the payment open and both grant its days |
| `drivers` with `"load for grant"` in `TaskStops` | `PaymentTakesEffect` | the payment is saved as successful before the days are granted; the repeated webhook finds it done |
| `wallet_desk` with owner requests in two slots | `CooldownCaps`, `AccountsBounded` | a right PIN writes the cooldown back as it was read; the limit of accounts is checked calls before the insert, and a review that overlaps a removal brings an account back |

Some of it shows without a property: two overlapping `GoOnline`s leave two active
shifts until the stale job ends one; the stale job leaves a driver online without a
shift; a rating folded in while its user registers as a driver undoes the role;
profile rows lose updates in every overlap of two writers; a push to a connection
that a reconnect has just closed panics (`SendPanics`), so that the phone gets no
push either, although `notification_service.go:79` says that delivery never fails
the call; `NamesMatch` counts a part of the registered name that occurs twice twice.
A database that fails in the middle of saving a cooldown is not modelled: the new
bank account then has none.

## The proofs

Eight modules are checked by TLAPS, for all values of the constants. They rest on
the modules' assumptions only: types of the constants, that no row's placeholder
is a real user, bank or slot, and, where rows are summed, that a table has finitely
many (`TablesAssumption`).

Some results are false when certain requests overlap (the table above shows each
of them fail). Their theorems name the restriction as a hypothesis on `Serves`, in
the form "of the slots that serve *these* requests there is at most one"; every other
request may overlap with them, in any number of slots. The runs satisfy the
hypotheses of the theorems that state their properties.

| Hypothesis | Requests that do not overlap | Needed because |
|---|---|---|
| `OneAccepter`, `OneCreator` | acceptances; creations of trips | the look for another active trip comes calls before the match or the insert; one acceptance undoes the hold another relies on (`trip_doubletap`) |
| `OneReviewer` | decisions of admins on withdrawals | a rejection is two calls, and an approval fits between |
| `OneVerifier`, `OneRefresher` | verifications of codes; refreshes | check and use are two calls |
| `OneWriter` | profile changes, suspensions and deletions of users | rows are saved whole, as they were read |
| `OneWebhook` (and one driver) | webhooks of a payment | both find the payment open; the history variable counts days, not drivers |
| `OneDecider`; `OneRequest` | decisions on appeals; filing, cancelling and deciding, and filing does not stop half-way | who recommended is read before the swap; lifting a freeze is three calls |
| `OneOwner`; `OneKeeper` | requests of the driver; adding an account and deciding on one | a right PIN writes all columns back; the accounts are counted before one is listed |

**The ledger** (`LedgerProofs`). The inductive invariant is
`Inv == TypeOK /\ Backed /\ KeysFresh`. None of the three is inductive alone: that a
wallet stays non-negative needs the overdraft check of `post()`, and that the escrow
entries of a trip return to zero when its hold is settled needs the settling call to
post, which it does only if its key is fresh; a key is fresh because versions grow,
which is what `KeysFresh` says. There is one lemma per ledger method, over lemmas
about `Post` and `Move`. `Owned` adds that a row that exists names real users. The
step lemmas are stated for one call of any method (`CallOf`), with any amounts
(`LedgerCall`) or with those that services ask for (`KnownCall`), so that they can be
used for every service that keeps to those methods. `SettledStays` and the refinement
`FundsOK` follow method by method.

`Integrity()` and the daily limit add up rows. The sum of the model is a fold, defined
by recursion over the set; what it computes is a statement for every finite set, and the
library's induction theorems cannot be instantiated. `SubsetInduction` takes their place: it
speaks of a *set* of subsets instead of a predicate and rests on the strict subset
order of a finite set being well founded (`WFMin`). From it: the total exists and is
unique, and what it becomes when an element is added, removed or renamed, when two
functions are added or compared, and when the set is split (`TotalUnique` to
`TotalWithin`). A posting then changes the total of all entries by the sum of its own
two or three amounts, which is zero (`Balanced`), and `Backed`, row by row, gives the
equations of `Integrity()` (`IntegrityFromBooks`). For the limit, a call that keeps or
drops a row keeps or lowers what was used (`UsedFalls`); creating one adds its amount,
which the guard has just compared under the wallet's lock (`UsedGrows`).

`Books` gathers all of it and is kept by every `LedgerCall` (`BooksStep`), so that each
component needs to show only that its steps are such calls, from an invariant of its own
that says what its requests have read. Trips, payouts and appeals then have
`IntegrityOK`, `SettledOnce` and `SettledStays` while their requests overlap, payouts and
appeals the daily limit; trips and payouts also implement `Funds` themselves.

**Trips** (`TripProofs`). `TripInv` adds to that what requests have read: rows exist
and stay, so a request that has picked a trip, an offer and a driver works on rows that
fit each other, and a request about to hold a fare holds an amount that was offered
(`RowsOK`). Every step is a `KnownCall` or leaves the ledger alone, hence
`TripsKeepBooks`, `TripsKeepIntegrity` and `TripsImplementFunds`. `PaidAfterCompletion` needs more: a handler looks at the trip
and, calls later, at the hold. `PaidInv` says that a request about to mark or release
a fare, and every trip the job has scanned, is completed, and stays so since trips only
follow `Moves`; and that a hold with a release time belongs to a completed trip. The
refinement proof takes one handler step at a time, under `Unpaid`.

`MatchedIsFunded` relates three calls of an acceptance to everyone else who touches
the trip or its fare. `FundInv` says: while an acceptance is deciding, its trip has
not been matched (nobody else matches one, under `OneAccepter`); between its hold and
its match, the fare is held for this driver at this price as long as the trip can still
be matched; and a request about to refund refunds a cancelled trip. `EveryTripGoes` and
`EverySlotGoes` state once what any step does to a trip and to a slot, so that the
proof has one case per kind of step rather than one per action. `OneActiveTrip` adds
`ApartInv`: what an acceptance has found of the driver, and a creation of the
passenger, still holds when it writes, since only another call of the same kind could
change it (`OneCreator`).

**Payouts** (`PayoutProofs`). What a handler has read is soon out of date, and two
handlers write the status they have read back into the row (`StoreTransferID`,
`AdminPutBack`). With any number of admins a read status may be wrong, but a row that
was read as final is final, so that their compare-and-swap fails rather than reopens it
(`ReadInv`). That is enough for the ledger's part: every step is a `KnownCall`, no
withdrawal is settled twice, and the handlers implement `Funds`. It is not enough to agree
with the bank. There what a handler relies on since it read a row must still hold when
it acts. `BankInv` says it by program point: a dispatch that may still send
(`Sending`) has a withdrawal that is processing and no transfer at the bank; a handler
that counts on nobody sending (`Waiting`: the poller that gives up, whoever was told
that the transfer failed) has one that was claimed, and its withdrawal has no sender;
two never send the same (`Alone`). A rejection must find the withdrawal still under
review when its two calls are made, hence `OneReviewer`.

**Appeals** (`AppealProofs`). Every step is a `LedgerCall` or leaves the ledger alone,
so the ledger's invariant is kept beside `AppealInv`: a job marks an appeal only after
it has seen the payout, which is made from the driver's own wallet and never undone
(`PaidRows`, without any restriction on overlaps); nobody is about to approve what he
recommended (`AdminRows`); whoever lifts a freeze does so where no appeal is open.

**Sessions** (`SessionProofs`). `SessionInv` types codes, tokens and requests.
`GuessInv`: a code's row says how often it was answered, and a request that checks an
answer still knows that number. `GrantInv`: what a token was issued for is used up, and
so is what one is about to be issued for. `WriterInv`: the copy of a user's row that a
request holds differs from the row only in what the request is for; `ContactInv`:
nobody has the contact that a request is about to register.

**Shifts and drivers** (`DriverProofs`). `TrailInv` says of every request where in the
hash chain it stands: a stored shift that nobody edited has every point the app recorded up
to the shift's counter, an edited one has a point that breaks the chain; the answer a
phone is about to get counts stored points only; a running verification agrees with a
prefix of the chain unless the trail was moved or edited meanwhile, and does not get
past a point that was edited before it began. It needs no restriction: `AppendPoints` locks the shift's row.
For the profile, which everyone saves whole, the invariants (`RateInv`, `AccessInv`)
say that the row *and every copy of it that may be saved again* is never ahead: it
counts no rating that is not stored and has no day that was not granted. A stale copy
loses updates, as the model shows, but invents none. `PayInv` adds that days are
granted once per payment.

**Wallet desk** (`WalletDeskProofs`). A wrong PIN is counted after it was tried. While
the wallet is open, wrong answers are at most the counted attempts; while it is locked,
what was tried and what requests past the lock's check may still try (`Pending`) is
within the bound. `CoolInv`: the columns, the copy a withdrawal goes by and the copy
that a right PIN writes back know of every cooldown that was promised. A stranger's
wrong PINs write no such copy, so only the driver's own requests must not overlap.
`RoomInv`: a request that is about to list an account has counted it in, and what
runs beside it only removes. `QuotesExact` is arithmetic: rounding the fee up leaves at
least `net` of `g` exactly if `g * bps + net * Whole <= g * Whole` (`NetCovers`), so the
first estimate is already the least cover (`EstimateCovers`), both walks of `GrossUp`
stop there, and one kobo more than `net` would need a whole basis more.

**Hub** (`HubProofs`). The newest connection of a user is in the map as long as it
reads, because the end of an older one removes only itself.

| Module | Theorem | Statement |
|---|---|---|
| `LedgerProofs` | `LedgerTypeOK`, `LedgerBacked`, `LedgerKeysFresh` | the parts of `Inv` |
| | `LedgerSettledOnce` | `SettledOnce`, from an invariant that adds which keys a settled row has used |
| | `LedgerSettledStays` | the action property `SettledStays` |
| | `LedgerImplementsFunds` | the refinement `FundsOK` |
| | `LedgerIntegrity`, `LedgerWithinLimit` | `IntegrityOK`, `WithinDailyLimit` |
| `TripProofs` | `TripInvariant`, `TripsKeepBooks`, `TripTypes` | `TripInv`, `Backed` with `KeysFresh`, and `TripTypeOK` under overlapping requests |
| | `TripsMove`, `PaidForCompleted` | `TripMoves`, `PaidAfterCompletion` |
| | `PaymentsAddNothing` | the refinement `PaymentsOnlyAdd` |
| | `MatchesAreFunded`, `TripsApart` | `MatchedIsFunded`, `OneActiveTrip` |
| | `TripsKeepIntegrity`, `TripsSettleForGood`, `TripsImplementFunds` | `IntegrityOK` with `SettledOnce`, `SettledStays`, `FundsOK` under overlapping requests |
| `PayoutProofs` | `PayoutTypes`, `PayoutsKeepIntegrity` | `PayoutTypeOK`; `IntegrityOK`, `SettledOnce`, `WithinDailyLimit`, with any number of admins |
| | `PayoutsSettleForGood`, `PayoutsImplementFunds` | `SettledStays`, `FundsOK`, with any number of admins |
| | `PayoutInvariant`, `BooksAgree`, `SentOnce` | `BankInv`, `BooksMatchBank`, `NeverResent`, under `OneReviewer` |
| `AppealProofs` | `AppealBooks`, `AppealTypes` | `AppealInv` with the ledger's `Books`, and `AppealTypeOK` |
| | `AppealsKeepIntegrity`, `AppealsSettleForGood` | `IntegrityOK`, `SettledOnce`, `WithinDailyLimit`; `SettledStays` |
| | `DisbursedIsPaid`, `TwoSign`, `OpenIsFrozen` | `DisbursedHasPayout`, `TwoAdmins`, `OpenAppealFreezes` |
| `SessionProofs` | `SessionTypes`, `GuessesCounted`, `SessionsOnce` | `SessionTypeOK`, `AnswersBounded`, `OneSessionEach` |
| | `BarredStayOut`, `AccountsKept` | the action properties `BarredGetNothing`, `AccountsKeep` |
| `DriverProofs` | `TrailInvariant`, `TrailsSound`, `DiscardedStored`, `ChecksAreRight` | `TrailInv`, `TrailSound`, `DiscardedIsStored`, `VerdictRight` |
| | `RatingsCounted`, `AccessIsEarned` | `RatedOnce`, `AccessIsPaid` |
| `WalletDeskProofs` | `DeskInvariant`, `DeskTypes`, `FewGuesses` | `DeskInv`, `DeskTypeOK`, `GuessesBounded` |
| | `CooldownHolds`, `AccountsStayFew`, `QuotesExact` | `CooldownCaps`, `AccountsBounded`, `GrossUpExact` |
| `HubProofs` | `HubServesLast`, `HubTypes` | `LastConnectionServed`, `HubTypeOK` |

Every safety property the runs check is stated by a theorem. Only model-checked is
liveness, which is outside the prover's reach: `FareComesBack`, `DriverGetsPaid`,
`WithdrawalSettles`, `ApprovedEnds`, `StaleShiftsEnd`, `PaymentTakesEffect`,
`LeftConnectionEnds`.

## Not modelled

- Settings, plans and the vehicle catalog: independent upserts without a protocol.
- The rate limiter: one counter in Redis that nothing else reads.
- Distances and the index of open trips: a cache; every decision reads the row again.
- Admin dashboards, lists, exports, audit: reads, and appends nobody reads back.
- Handlers, router, DTOs, configuration, migrations, and the clients of Flutterwave,
  Termii, e-mail and storage: decoding, wiring, input and output. What the services
  see of the gateway is external in `Payouts` and `Drivers`.
- Of the top-ups, the virtual account and the limit of open requests; of appeals,
  the next-of-kin records and documents; of trips, the pickup PIN's attempts.
- `ridematch-backend/`, 12,900 lines of an older copy, apart from its trips and
  offers. Its other services are earlier versions of those under `internal/`.
  With the items above it is most of what no definition maps to.

What would come next: the top-up requests with their limit as a module beside
`WalletDesk`; the steps of the liveness arguments as action properties that can be
proved; and the pickup PIN's attempts.
