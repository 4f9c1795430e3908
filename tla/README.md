# Verification of wallet-system-server

TLA+ modules, TLC runs and TLAPS proofs kept beside the wallet server (NestJS on MongoDB). Paths
below are relative to the repository root.

## 1. Inventory

| Component | State | Operations | Talks to |
|---|---|---|---|
| Payment sessions and transfers (`src/payments`) | `paymentsessions`: parties, amount, OTP hash, status, `expiresAt` | `requestPayment`, `sendPayment`, `confirmPayment` | customers, wallets, transactions, users and e-mail, all awaited calls in the handler |
| Wallets (`src/customers`, `WalletsService`) | `wallets`: one balance per customer | `rechargeByUserId` (`$inc`), `updateBalance` (`$set`, used by `confirmPayment`), `createWalletForCustomer`, `getBalanceByUserId` | shares the balances with `confirmPayment` |
| Transactions ledger (`TransactionsService`) | `transactions`: insert-only rows | `createTransaction`, history by wallet | written by `confirmPayment` only |
| Registration (`CustomersService.register`, `MerchantSeederService`) | `users`, `customers`, `wallets` | three inserts in a row; seeding at start-up | users, wallets, JWT |
| Users and accounts (`UsersService`, `AuthService`) | `users` | create, update, delete, login, forgot/restore password | JWT |
| Authentication (`JwtSecurityService`, guards) | none (JWT; the user row is re-read per request) | sign, verify, validate | users |
| Generic repository and pagination | none | CRUD, `findPaginate`, `rawQueryPaginate`, `OptionsRepositoryDomain` | MongoDB |
| Timeout interceptor, error mapping, e-mail, health check | none | per request | |

The server is one Node.js process (`docker-compose.prod.yml`, `restart: unless-stopped`). Handlers
run concurrently and interleave at every `await`; they share nothing but MongoDB. **No handler uses
a transaction, a lock or a conditional update.** Repositories return `[result, error]`, and a
service that looks at the error answers 500; some do not look.

What is hard, and what makes each component correct:

* *Transfers.* Read session, read two balances, write two balances, write two rows, write the
  status: seven calls that other handlers, a failure, a 408 or a crash can fall between. Correct:
  no overdraft; money only lost where two handlers collide; rows, status and answers that tell the
  truth; a closed or overdue session never pays again.
* *Wallets.* `$inc` and `$set` on one field. Correct: each applied operation counts exactly once.
* *Registration.* Check-then-insert over three collections. Correct: an acknowledged customer has
  user and wallet, a refused one left nothing; no two customers share document, phone or user.
* *Accounts.* Check-then-write of e-mails. Correct: an e-mail is shared only where two requests overlap.
* *Access.* The user is read when a request arrives and may be blocked or deleted while it runs; a login
  compares with a hash read earlier; a recovery token works any number of times; clients choose the ids they register
  with, deleted ones included. Correct: nobody who was out before is served; logins are decided by a password the user
  really had; an id has one user at a time; a deletion lasts until the id is registered again.
* *Pagination.* Two reads for one page, many pages for one listing, sort after skip. Correct: nothing is
  missed or shown twice that was there all along.

`PROJECT.json` lists every hazard with its line and the properties aimed at it.

## 2. Modules

| Module | Content | Composed with |
|---|---|---|
| `Payments` | sessions, transfers, recharges under concurrency and faults | takes the outcome of `Registration` as `Wallets` |
| `Bank` | what the money path promises, without handlers, calls or snapshots | |
| `PaymentsRefinement` | the mapping of `Payments` onto `Bank` | `INSTANCE Bank WITH` |
| `Registration` | `customers.register`, `auth.register`, `users.create`, `users.updateById`, `users.deleteById`, the seeder; crashes and restarts; unique indexes | |
| `Access` | registration of ids, JWT validation, login, forgot and restore password, the guarded handlers, blocking, deletion and registration anew under running requests | takes customers and wallets of `Registration` as a choice |
| `Pagination` | the two paged listings, walked page by page while rows come and go | the history's rows are those `Payments` appends |
| `PaymentsClaims`, `RegistrationClaims`, `AccessClaims` | statements of docs, comments and tests that the code does not keep | |
| `MCPayments`, `MCRegistration`, `MCAccess`, `MCPagination` | instances for TLC | |
| `PaymentsProofs`, `PaymentsRefinementProofs`, `PaymentsLedgerProofs`, `PaymentsBalanceProofs`, `RegistrationProofs`, `AccessProofs`, `PaginationProofs` | TLAPS proofs | each extends its component's module |
| `Sums` | lemmas about sums over finite sets | used by `PaymentsBalanceProofs` |

The plan of the first version (money path, registration, atomic bank, access, pagination, proofs of the rows
and of closed sessions) is carried out. What is left would be a single composition of `Registration` and
`Payments` with customers that appear while payments run, which adds no interleaving: a wallet is
inserted once and never removed.

## 3. The model of the money path

`Payments.tla`. What is atomic is one MongoDB call on one document, with the synchronous code that
runs when it returns; `pc[h]` names the call the handler `h` makes next.

| Action | Code |
|---|---|
| `RequestPayment`, `SendPayment` (`Open`, `Payable`) | `payments.service.ts` 45-103, 129-200: lookups, checks, terms of the session |
| `InsertSession`, `SendOtpEmail` | 105-121, 201-217, 338-374 |
| `PassExpiry` | the clock passes `expiresAt` (89-90) |
| `ReadSession`, `CheckSession`, `MarkExpired` | 226-247: status in the snapshot, clock, OTP |
| `ReadSource`, `ReadDest` | 250-264, with the funds check |
| `WriteSource`, `WriteDest` | 267-281, `$set` of balances computed from the snapshots |
| `LogDebit`, `LogCredit`, `MarkConfirmed` | 284-319 |
| `Recharge`, `IncrementBalance` | `wallets.service.ts` 53-82 |
| `DbError`, `ReplyLost` | a call fails without effect; a write takes effect and its reply is lost |
| `Timeout` | `timeout.interceptor.ts`: 408 after 5 s, the handler runs on |
| `Crash` | every running handler stops; later requests meet the restarted server |

State: `balance`, `status` and `ledger` are the collections; `terms[s]` is the immutable content of
a session (the row exists once `status[s] # "none"`); `target`, `read` and `receipt` are locals of handlers; `answer` is what clients were told. `moved`, `owed` and `mixed` are history variables that no guard
reads: how far a confirmation moved its money, what the applied operations add up to, and which
wallets were written while another confirmation held a snapshot of them.

Abstractions. Customers and wallets do not change while payments run (nothing deletes them), so that
lookups of them are merged with the first step, and a wallet is named by its user. Users outside
`Wallets` stand for users without a customer or a wallet. The OTP is right or wrong. `SendPayment`
takes document and phone separately (both unique), as the code's query does. A request is handled
once; a retry is another request. Rejected requests keep no arguments. Amounts are integers (the code
uses doubles), including 0 as an input the DTO's `IsPositive` refuses. `expiresAt` may pass at any moment
after the insert. A confirmation may name any session; the code's only protection is the id's
randomness, which is not modelled.

### The bank behind it

`Bank.tla` says what the handlers promise together: accounts, sessions and orders. An order to pay a
pending session debits the payer in one step and credits the payee in another, may be given up at any time, and only a paid
order confirms its session. The bank vouches for the accounts in `DOMAIN books`; one that is posted to while another order
is at work on it may leave the books.

`PaymentsRefinement.tla` maps: `books` is `balance` of the wallets that are not `mixed`; `session` is `status`;
`late` is `overdue`; `deal` is `terms`, hidden until the row is stored; an order is a confirmation and its
stage is read off `moved` and `pc`. The money moves at the balance writes; reads, rows, e-mails and answers are
stutters; a crash, a refusal or a failed call is `GiveUp`. `ImplementsBank` is checked in `pay_faults` with all
faults, and proved. It is where the check-then-set on snapshots is measured against what a bank would do: the only
licence the abstract bank needs is `Contended`.

## 4. The model of registration and accounts

`Registration.tla` models who is in the database. Again one MongoDB call is atomic; `pc[h]` names the
next call of request `h` and `seeder` that of the seeder, which is `"up"` when the server listens.

| Action | Code |
|---|---|
| `RegisterEmail`, `CheckDocument`, `CheckPhone` | `customers.service.ts` 29-36: three lookups whose errors are dropped |
| `InsertUser`, `InsertCustomer`, `InsertWallet` | 38-65: three inserts; the second meets the unique indexes |
| `SignupId`, `SignupEmail`, `InsertUser` | `auth.service.ts` 36-56 and `users.service.ts` 45-61, the same calls |
| `UpdateFind`, `UpdateEmail`, `UpdateWrite`, `UpdateReread` | `users.service.ts` 71-84 with `updateById` of the generic repository, which drops the error of its second read: the client is told 404 although the change is written |
| `DeleteFind`, `DeleteFindAgain`, `DeleteUser` | `users.service.ts` 86-92 with `deleteById` of the generic repository |
| `SeedFind`, `SeedUser`, `SeedCustomer`, `SeedWallet` | `merchant-seeder.service.ts` 61-109 |
| `SeedError`, `DbError`, `ReplyLost`, `SeedFails` | a call fails without effect; a write takes effect and its reply is lost |
| `Crash` | every handler and the seeder stop, and the process starts again with the seeder's first call |

State: `users` (the e-mail of each user), `customers` and `wallets` are the collections; `form` is what a
request asks for and `answer` what its client was told; `boot` counts starts. `unchecked` and
`erased` are history that no guard reads: the e-mails written while some request still trusted
that they were free, after a lookup that failed or without a lookup, and the users deleted.

Abstractions. A user is its e-mail: names, roles and passwords play no part in these operations. Lookups and
writes normalise e-mails alike (the schema's setters apply to queries too), so an e-mail is a value. Ids
drawn by the server are fresh and named by what drew them (the request, the boot); clients of
signups choose their ids, as the DTO lets them, and may choose that of a deleted user. The unique indexes are
built (Mongoose builds them when it connects). `Production` is `NODE_ENV`. Tokens and roles are not checked
here; a 408 is not repeated here (it changes only what the client is told; `Payments` has it).
`updateByMe` and `restorePassword` write no e-mail and are in `Access`.

## 5. The model of access

`Access.tla` models who gets in. A handler is the chain of its awaited calls again; `kind[h]` is the endpoint,
`subject[h]` the user the token or the login names, `object[h]` the user the request is about.

| Action | Code |
|---|---|
| `Register` (`create` comes through the guard), `FindId`, `CheckEmail`, `Insert`, `Duplicate` | `auth.service.ts` 36-56, `users.service.ts` 45-61: the id is looked up, then the address, then the row is inserted; a duplicate key is a database error |
| `FindByEmail`, `Compare` | `auth.service.ts` 58-75: the row is read, then bcrypt compares in slices |
| `FindForReset` | 101-118 |
| `VerifyRecovery`, `UpdateOne`, `Reread` | 120-138: the token, then `updateById` of the generic repository |
| `VerifyToken`, `ValidatePayload` | the guard and `jwt-security.service.ts`: signature and expiry, then the user is read again |
| `FindMe`; `UpdateOne`, `Reread` (`patch`) | 77-99: `findByMe`, `updateByMe` |
| `FindUser`, `CheckEmail`, `UpdateOne`, `Reread` (`put`) | `users.service.ts` 63-84 |
| `FindUser`, `RefindUser`, `DeleteOne` | 86-92 and `deleteById` |
| `FindCustomer`, `FindOwner`, `FindWallet` | `GET /customers/me`, `GET /customers/wallet/balance` |
| `DbError`, `ErrorAnswer`, `ReplyLost` | which failed call becomes which answer |
| `Block` | external: somebody with access to the database |

`Hash` is the setter of the schema: a column holds the plain text and how often it was hashed; the seeder hashes
once more than everybody else. The histories, which no guard reads: `had`, `entitled` and `gone` say which passwords the
user of a running login had, whether the user of a guarded request was active at some moment of it, whether that of a profile was
missing (`Witness` keeps them at the steps that change users); `applied` says that the update of a request found a row, or
its insert or deletion was carried out; `reborn` that the object of an update or deletion was registered anew since the
request arrived, or since it deleted the row; `erased` that the row a registration inserted was deleted again.

An id that is registered again is, for the code, the same user: old tokens let in whoever holds them, and an update or a recovery under
way lands on the new row. The model has all of this. What remains true is that a deletion is not undone by anything but a
registration (`StaysDeleted`), that 200 to an update means a row was changed or registered anew meanwhile
(`UpdateIsTruthful`), and that nobody is given an id somebody has (`RegisteredOnce`), although the lookup is two awaits before the insert.

Abstractions. A user is its id, the address of a login included (uniqueness of addresses is `Registration`'s
question), so `CheckEmail` may go either way. Signups of `/auth/register` and `/users` choose ids of `Ids`; customers are registered under
fresh ids, which collide with nothing and are left out here. Whether a user has a customer and a wallet is a choice, as registrations may be
inserting them. `tokens` holds what was signed so far, both kinds for those registered at the start, as if signed before; any token may be
refused, which covers its expiry. The recovery URL is only logged by the code, so that the
client gets the token from outside. Nothing outlives the process here, so that a handler that stops for ever is a crash.

## 6. The model of paged listings

`Pagination.tla` models a client that asks for page after page of `GET /payments/history` or `GET /users` until the
totals say that there is no more.

| Action | Code |
|---|---|
| `Ask` (`Options`) | the DTO and `generic.repository.domain.ts` 52-80: defaults, built twice on the way |
| `FindCustomer`, `FindWallet` | `transactions.service.ts`: the wallet of the history is looked up first |
| `Count`, `Find` (`Skip`, `Cut`, `Page`, `TotalPages`) | `generic.repository.mongoose.ts` 169-256: `countDocuments`, then `find` or the aggregate, which sorts what it has cut |
| `AskAgain` | the client: the next page, or the one that failed |
| `Insert`, `Enter`, `Leave` | rows appended; users that start or stop matching the search, or are deleted |
| `DbError` | 500; the `TypeError` of `data.map` on a failed aggregate included |

`Page` of the users is sorted by descending id (`ByIdDown`: the i-th row is the one with i rows of the page at or above it).
The ghosts `left` and `joined` record, for the walk under way, that a row left, and that one slipped in before the end or came back.

The order of a query without `$sort` is MongoDB's natural order, taken as the order of insertion (an
update in place keeps a document's place; the history is served from the index on `walletId`, whose entries of equal key are
in the order of their record ids). The order the code asks for, `createdAt: -1`, never reaches the query:
`findPaginate` drops it, so that the history is shown oldest first. That is what makes its pages stable: `NothingMissed`
and `NothingTwice` would fail with the sort in place, as a new row would shift every page (mutant `Page_sorted` shows
it for the users).

## 7. Runs

`MCPayments.tla` instantiates the modules: users alice, bob (with wallets) and carol (without); alice
starts with 2, bob with 1. Confirmations, recharges and sessions are symmetric in the safety runs; the
liveness runs use no symmetry. Deadlock is checked in every passing run: `Idle` (`Finished` in `Pagination`) is the only stutter, when all requests are done.

| Run | Instance | Shows |
|---|---|---|
| `pay_faults` | 1 session, 2 confirmations, 1 recharge, amounts 0..2, database errors and crashes | types, `NonNegative`, `Accounted`, `LedgerFaithful`, `ConfirmedIsPaid`, `AnswerIsTruthful`, `SettledForever`, `LapsedForever`; `ImplementsBank`, the refinement of `Bank` |
| `pay_ledger` | 2 sessions, 2 confirmations, 1 recharge, no faults | `LedgerExplains`: rows and recharges add up to the balances; two sessions cannot overdraw one wallet |
| `pay_live` | 1 session, 2 confirmations, timeouts, fair handlers, a mail server that may hang | `AllOrNothing`: a 408 never splits a transfer; `DebitIsCredited`, `OverdueSettles`, `EventuallyAnswered` |

`MCRegistration.tla` instantiates `Registration` with two values for e-mails, documents and phones, one of
them the merchant's, so that clients and seeder collide.

| Run | Instance | Shows |
|---|---|---|
| `reg_faults` | 2 registrations, 2 boots with the seeder, database errors, crashes | types, `References`, `IdentityUnique`, `EmailUniqueWhenChecked`, `RegistrationIsTruthful`, `SeededOnce`; `ComesUp` with a fair seeder |
| `reg_users` | 1 registration, 1 signup, 2 updates, 1 deletion, database errors, no seeder | `References`, `EmailUniqueWhenChecked` among all writers of e-mails |

`MCAccess.tla` instantiates `Access` with two ids and two passwords, `MCPagination.tla` instantiates `Pagination`.

| Run | Instance | Shows |
|---|---|---|
| `access` | a registered and a free id, 2 passwords, 3 requests of any endpoint, database errors, blocking | types, `LoginTruthful`, `ServedIfEntitled`, `UpdateIsTruthful`, `ProfileComplete`, `StaysDeleted`, `RegisteredOnce` |
| `pages` | rows 1..4, limits absent, -1, 0 and 3, first pages absent, -1, 0 and 1, default 2, database errors | `PagesInRange` (types), `HistoryInOrder`, `NothingMissed`, `NothingTwice`, `PageAsPromised` |

Bounds. A collision needs two handlers on one wallet: two confirmations of one session, of two sessions
(same or opposite direction), or a confirmation and a recharge; each is in a run. A third
confirmation only repeats a collision of two. `MaxBoots` lets the seeder be cut short and run again; in
`reg_users` one document and phone suffice, because e-mails are the question there. Alice can pay 1 twice but not 2 twice, bob 1 once, so
that the funds check is met on both sides. In `access` the properties speak of one request and of what others do to its
user: one request can change, recover or delete it, and a third one registers the id again, which is what an update needs to be answered
200 without a row (TLC reaches this in 14 steps); blocking is free. The free id is the one two signups race for, and that of the requests of somebody
else. In `pages` four rows with pages of two and three give full, partial and empty
pages, and a deleted row may come back.

Fairness. `FairSpec` has weak fairness for every started handler (the event loop resumes every
settled promise and MongoDB answers every call; database errors and crashes are off) and for the timer, but none for the mail server. Nothing
is assumed about clients or the clock.
`Registration!FairSpec` has weak fairness for the seeder's calls alone, with success or with an error: each is awaited
in `onModuleInit`, and the driver settles every call. Crashes are bounded by `MaxBoots`, as "eventually up" supposes.

Runs expected to fail, one claim each (findings in `PROJECT.json`):

| Run | Claim | How it fails |
|---|---|---|
| `claim_once` | a session is confirmed once (e2e test) | both confirmations read it pending |
| `claim_acknowledged` | 200 means CONFIRMED (README sequence) | a second confirmation, late for the clock check, writes EXPIRED over it |
| `claim_nothing_lost` | recharges accumulate (e2e test) | `$set` from a snapshot overwrites a `$inc` |
| `claim_unique` | an e-mail is a unique key (README diagram) | two registrations look it up before either inserts; no index |
| `claim_merchant` | the logged password of the seeded merchant logs it in | the seeder hashes it and the schema's setter hashes the hash |

Noted without a run, as they are seen in the models or the code without a search:

* a crash between the two balance writes strands the money, against the comment at `payments.service.ts:223`
  (in `Bank`, the stage `"stranded"`); one between the inserts of a registration leaves a customer without the wallet of
  `README.md:87`, and the seeder does not repair it;
* a document or phone taken by a registration under way is answered 500 by the index instead of the 400 of
  `customer.e2e-spec.ts:113`, and the user inserted before stays;
* an update that found no row, because the user was deleted, is answered 200 if its id is registered again before the
  second read (`generic.repository.mongoose.ts:101-107`), and an update or recovery that was under way changes the new row;
* the status of a session is written last and the result is dropped (`payments.service.ts:308`): if that write fails the client is told 200 and the
  session stays pending, open to another confirmation; a session nobody attempts stays pending for ever, as `expireSessions` has no caller;
* the seeder looks for the customer only: a crash between its user and its customer leaves a user behind and the next start adds another;
* a customer keeps the id of its deleted user, so that whoever registers that id has the customer and the wallet;
* `restorePassword` answers "Updated successfully" although the user was deleted meanwhile (`auth.service.ts:131-137`);
  `forgotPassword` answers "Password reset email sent" and only logs the URL (112-116);
* `updateById` drops the error of its second read, so that a client may be told 404 of a change that is written
  (`generic.repository.mongoose.ts:107`);
* the history asks for `createdAt: -1` (`transactions.repository.mongoose.ts:38`) and is served oldest first;
* the receipt of a recharge shows a `previousBalance` read before the `$inc`, so that with another recharge in between
  `newBalance` is not the sum `wallet.e2e-spec.ts:113` expects;
* recharges leave no row, although `payments.controller.ts:56` lists them in the history; the OTP e-mail is awaited, so that
  a slow mail server turns a stored session's request into a 408, against the comment at `payments.service.ts:372`; deleting a user
  leaves its customer and wallet (`users.service.ts:88`).

Every property of a passing run has a mutant in its component's module (an operator named after the original
with a suffix, marked *Mutant*), a plausible bug under which TLC finds the property violated: for
instance `SourceAfter_inc` replaces the `$set` by a bare `$inc` (what `decrementBalance` would do) and breaks
`NonNegative`: the code is safe from overdrafts only because it overwrites.

## 8. Proofs

`PaymentsProofs.tla`, for every value of the constants allowed by the assumptions of `Payments`
(wallets belong to users, the three kinds of requests are disjoint, amounts are integers and opening
balances natural numbers).

* `TypeCorrect`: `Spec => []TypeOK` and `NeverOverdrawn`: `Spec => []NonNegative`. Neither is
  inductive: the row type needs the parties of a session to be wallets, and a non-negative balance needs
  the snapshot to cover the amount. `IInv` adds that a stored session has valid terms
  (`SessionsValid`), a confirmation at work targets a stored session (`TargetsStored`), a recharge at
  work is valid (`RechargesValid`) and, between the reads and the writes, the source snapshot covers the amount (`SnapshotsCover`).
  `NextIInv` has one step per action.
* `NothingLostUnmixed`: `Spec => []Accounted`. `AInv` adds `SnapshotsFresh`: as long as a wallet is
  not mixed, the snapshots held of it equal its balance. Steps that touch no wallet go through `QuietStep`, the three writes
  through `WriteStep`.

`PaymentsRefinementProofs.tla`: `PaymentsImplementsBank`, `Spec => ImplementsBank`. `InitRefines` maps the
initial state; `NextRefines` maps every step to a step of `Bank` or a stutter, with `PostStep` for a balance write and
`GiveUpStep` for handlers that end. It rests on `IInv`, `AInv` (a write of an unmixed wallet changes it by the amount),
`StageInv` (the program counter tells how far the money is) and `AmountsSent`.

`PaymentsLedgerProofs.tla`:

* `ClosedForGood` (`SettledForever`) and `OverdueForGood` (`LapsedForever`): `WorkStarts`, a confirmation starts to work only on a
  pending session and to pay only on one in time, and `StatusKept`.
* `AnswersTrue` (`AnswerIsTruthful`) and `WholeOrNothing` (`AllOrNothing`): `Trail` of a confirmation says which rows it has written at which step
  (`Booked`), what its client may know (`Told`) and how it may end without faults (`Whole`). A step is one of this confirmation or leaves
  it alone (`OwnStepOrNone`), so that one lemma per kind of step suffices.
* `LedgerTrue` (`LedgerFaithful`) and `ConfirmedPaid` (`ConfirmedIsPaid`): `PaperInv` adds that the session of a row is stored; what a row is made
  of no longer changes once both wallets are written (`PaidStays`).

`PaymentsBalanceProofs.tla`: `BalancesExplained` (`LedgerExplains`), for any number of requests, rows and amounts.

* `LedgerExplains` speaks of the end and of runs without faults. The invariant behind it, `Explained`, holds at every moment and under every fault
  (`OwedExplained`): what is owed to a wallet is its opening balance, the recharges applied to it, the amounts of its rows, and
  the debits and credits that are applied and have no row yet (`Debited`, `Credited`). TLC checked it on the instances of
  `pay_faults` and `pay_ledger`. A balance write moves an amount into `Debited` or `Credited`, `LogDebit` and `LogCredit` move it on to the rows; `Tidy`
  says that each happens once and that only finitely many requests have started, so that no assumption makes
  `Requests` finite.
* At the end and without faults nothing is on its way (`NothingOnItsWay`, from `Whole`), and with `Accounted` a wallet that was not mixed holds
  what it is owed.
* `Sums.tla` has what this needs of sums over finite sets: a total exists, is an integer, does not depend on the order in which
  it is taken, and grows and shrinks by one member (`TotalAdd`, `TotalJoin`, `TotalLeave`). The library's induction theorems have operator
  parameters, so these are proved from a minimal counterexample: `NatSets` from the well-foundedness of `<` on the naturals, and `FiniteSubsets`, by
  cardinality, from it; `SumExists` and `SumsAgree` relate the fold of the community modules (`MapThenSumSet`, a `CHOOSE` of a recursive function) to its
  equation.

`RegistrationProofs.tla`, for every value of the constants allowed by the assumptions of `Registration` (kinds
of requests and sources of ids are disjoint, the merchant's data are data, there is at least one boot).

* `TypeCorrect`, `ReferencesHold` (`References`), `AnswersTrue` (`RegistrationIsTruthful`) share the inductive invariant
  `IInv`: `TypeOK`; `AtStep`, a request is at a step of its kind with the arguments it needs; `Written`, a
  registration has written exactly the rows of the steps behind it; `Seeded`, the same for the seeder of this
  boot; and `References`. The references alone are not inductive: that a customer's user exists is
  known at its insert only from the step before.
* `EmailsUnique` (`EmailUniqueWhenChecked`) adds `Verdicts`: an e-mail a request found free, and that is not
  in `unchecked`, still belongs to nobody but the user being updated. `NoPutStep` and `PutStep` carry it.
* `IdentitiesUnique` (`IdentityUnique`) from the indexes alone, and `SeededOnceHolds` (`SeededOnce`) with `SInv`: past
  its lookup the seeder still finds no merchant customer.

`AccessProofs.tla`, for any ids, passwords and requests: `TypeCorrect`, `LoginsTrue` (`LoginTruthful`), `ServedEntitled`
(`ServedIfEntitled`), `UpdatesTrue` (`UpdateIsTruthful`), `ProfilesComplete` (`ProfileComplete`), `DeletedStays` (`StaysDeleted`) and
`IdsRegisteredOnce` (`RegisteredOnce`) from one inductive invariant that says what a
handler has established at each step (the password a login read is one its user had; past the guard the user was
active at some moment; an update that is read again was applied, or its row was gone or registered anew; a registration that was carried out
and not erased is stored).

`PaginationProofs.tla`, for any rows, limits, pages and faults, and for both listings: `PagesTyped` (`PagesInRange`), `HistoryOrdered`
(`HistoryInOrder`), `PagesComplete` (`NothingMissed`), `PagesOnce` (`NothingTwice`), `PagesFull` (`PageAsPromised`).

* None of them is inductive. `IInv` adds where the rows shown are, compared with the `limit * (page - 1)` rows which the pages before
  have room for: as long as nothing slipped in, all rows shown that are still there are among them (`Shown`), so that the next page repeats none; as
  long as nothing left, there are at least that many rows, and as many as were counted (`Kept`); as long as neither happened,
  they were all shown, and begin with the rows the walk began with (`Covered`). For the history, which loses nothing, the
  rows shown are exactly them, in order (`InOrder`). TLC checked the four on the instance of `pages`.
* `PageRows` says which rows a page holds. It rests on `CutRows` and, for the users, on `SortedRows`: `ByIdDown` of a sequence without
  repetitions has the same rows, each once, the greater id first. That it has them all is a counting argument: `Rank` is an injection of the n
  rows into 1..n, hence onto.
* `LastPage` ties `TotalPages`, a division rounded up, to the rows: there is a next page exactly if the pages up to this
  one do not hold all that were counted.
* `InsertInv`, `EnterInv`, `LeaveInv` for what happens meanwhile (with `Appended`, `Inserted`, `Removed` about sequences), `FindInv` for a page.

All safety invariants and action properties of the runs, and the refinement, are proved. Only model-checked: liveness under fairness
(`DebitIsCredited`, `OverdueSettles`, `EventuallyAnswered`, `ComesUp`), which the prover does not support.

## 9. Not modelled

E-mail transport and templates, hashing of OTPs and passwords (right or wrong, and how often), the health check,
configuration and request-shape validation are I/O or stateless. The TypeORM code is commented out or unused.
Without a caller in the program, and therefore no steps of it: `expireSessions`, `findPendingByCustomerId`, `deductBalance`,
`RoleGuard`, `UsersService.find`, and of the generic repository `find`, `createOneOrUpdateOne`, `findOneAndUpdateOne` and the joins.
Fractional amounts: balances are doubles in the code and integers here, so that rounding is not seen.
