# A verification model of the CoinSender payroll backend

The backend is a NestJS server (TypeScript, `src/src`) on PostgreSQL through
TypeORM, with Redis for a cache and an Ethereum node behind web3. This directory
holds TLA+ modules that model its core, the TLC configurations that check them,
and proofs that the TLA+ proof system checks.

    tlc -config MCPayroll_save.cfg MCPayroll.tla      one of the runs below
    tlc -config MCSessions_accounts.cfg MCSessions.tla
    tlapm PayrollProofs.tla                           one of the proof modules

## 1. The system

Node.js runs one thread: a request runs without interruption to its next
`await` and every other request may run before it continues. Almost every await
is one SQL statement on its own pool connection, so a request is a sequence of
atomic steps on shared tables, without a transaction around them.

| component | state | operations that change it | talks to |
|---|---|---|---|
| transfers | table `transfers`: organization, wallet, amount, `hash` (NULL until paid) | `update`, `delete`, `deleteMultipleTransfers`, `createFromDb`, `create` (from a file), `addHash` | reads employees; called by employees and payments |
| employees | table `employee`, unique (wallet, organization) | `create`, `createFromFile`, `edit`, `removeEmployee`, `addAvatar`, `changeEmployeeActivityStatus` | writes transfers |
| payments | table `payment`, `hash` unique, payer refers to `organization.wallet_id` | `saveTransaction`, `create`, `mint` | the chain; marks transfers |
| organizations | table `organization`, unique name, id and wallet | `createOrganization`, `addWallet` | |
| registration | an organization and its administrator; a connection of the pool | `register` | organizations, administrators, pool |
| sessions, passwords | `administrators`: password, hash of the refresh token, restore token | log in (password, Google, wallet), refresh, log out, send and use a restore key, change password | mail |
| invoices | tables `invoices`, `invoices_items`, numbers in the cache, a connection | `getId`, `create` | clients, organizations, pool, mail |
| clients | table `client`, unique e-mail; an avatar file | add, edit, remove | files; the items of invoices refer to it |
| wallets | tables `wallet`, `general_wallet` | bind, add, update, delete | signing in reads `wallet` |
| avatars | a file in `public/avatars` and the column that names it | upload and edit of administrators, employees, clients | |
| helpers, encryption, wiring | none | | |

What is hard about each, and the property that makes it right:

* **Transfers, employees, payments.** Four requests write `transfers` and none
  holds a lock. `createFromDb` writes back entities that it read three awaits
  earlier, `savetransaction` marks transfers in one statement and inserts the
  payment in the next, the upload inserts transfers before employees and with
  whatever columns the sheet has, `removeEmployee` deletes by wallet in every
  organization. Right means: what `savetransaction` marks as paid was paid by a
  mined transaction, each transaction is in the books once, nothing that is paid gets lost except in known ways, a generator
  does not pay a wallet twice, and a half-done request can be completed later.
* **Registration and the pool.** A transaction is opened on one connection and
  the statements run on others, so nothing is undone; two throws before the
  `try` keep the connection; a request that holds one connection waits for a
  second. Right means: connections are accounted for, requests are answered
  while there are enough, an organization has an administrator unless its
  registration failed.
* **Invoices.** A number is drawn, kept in the cache with a lifetime, and the
  invoice, its items, the mail and the status are separate steps. Right means:
  an invoice that the server marks as sent has its items; numbers are not handed
  out twice while they are in the cache.
* **Sessions and passwords.** Log in, refresh, log out, letters, restores and
  changes read one row and update one column of it some awaits later. Right means:
  nothing that was read finds its way back over a newer update; a session is
  opened by a password or a wallet that was valid while the request ran; after a
  log out a refresh works only when somebody has signed in again. A refresh that
  overlaps a log out may succeed: nothing makes it check twice.
* **Avatars and clients.** The file and the row change in two steps, in different
  orders in different handlers, by what was read before, and nobody hears of an
  `unlink` that throws. Right means: a row
  names a missing file, and a file is left that nothing names, only for reasons
  that can be told.
* **Wallets.** Check-then-insert without an index behind it. Right means: doubles
  come only from requests that overlap (or from an edit that does not check).

`PROJECT.json` lists each hazard at its line with the properties that would
show it going wrong.

## 2. What is modelled

### `Payroll`: the core

A request is an element `p` of `Procs`. `pc[p]` names the await at which it is
suspended, `req[p]` holds the local variables it still needs, and an action is
one awaited call together with the synchronous code that follows it. `Slots[p]`
says which endpoints `p` may call, so that a run can choose its cast.

| endpoint | actions, in order |
|---|---|
| `transfers/edit`, `delete` | `EditTransfer`; `DeleteTransfer` |
| `transfers/delete-multiple` | `DeleteMultipleFind`, `DeleteMultiple` |
| `transfers/create` | `CreateFromDbEmployees`, `CreateFromDbPending` (with `RemoveExistingObjectsByWalletId`), `CreateFromDbLoad`, `CreateFromDbSave` (with `Merge`) |
| `employee/upload` | `UploadTransfers`, then `UploadEmployee` per row |
| `payment/savetransaction` | `SaveTransactionCheck`, `GetTransaction`, `GetTransactionReceipt`, `AddHash`, `InsertPayment` |
| `employee/create` | `CreateEmployeeCheck`, `CreateEmployee` |
| `employee/editprofile` | `EditEmployeeFind`, `EditEmployee` |
| `employee` (DELETE) | `RemoveEmployeeFind`, `RemoveEmployeeTransfers`, `RemoveEmployee` |
| `organization/addwallet` | `AddWallet` |
| (outside) | `Submit`, `Mine`: the chain; `Abort`: a request dies at an await |

How code becomes state:

* A table is a function from ids to rows or `Absent`. Notes, names, positions
  are left out: no guard reads them. Amounts are kept, because an edit and the
  write-back of a stale row differ in them.
* `Repository.save` of TypeORM loads the rows it was given by id (one step),
  then inserts what it did not find and updates the columns that differ in what
  it found, in one transaction (one step). This is what makes a stale entity
  clear a hash, revert an edit or bring a deleted transfer back.
* Database constraints are guards: the unique index of `employee`, the unique
  `payment.hash` and `organization.wallet_id`, and the foreign key from payment
  to organization (`ON UPDATE NO ACTION`, last migration). A refused statement
  throws; what the request has written stays.
* The upload spreads each row of the sheet into the new transfer, so `InsertFile`
  chooses a hash for each: none, or any transaction, mined or not, recorded or not.
  Nothing checks it. `brought` has the transfers whose hash is still the one of
  their sheet; `addHash` takes a transfer out.
* New ids are drawn from those never used (`issued`), since nanoid and SERIAL
  keys do not repeat. A request that inserts employees draws their ids when it
  starts; only their newness matters. `id` and `transfer_id` of a transfer are
  one id here.
* The chain knows of a transaction: unknown, pending, success or reverted.
  `getTransaction` and `getTransactionReceipt` are separate awaits, and the
  first answers null for an unknown, the second for an unmined transaction. A
  mined transaction stays mined: reorganizations are not modelled.
* `Abort` covers an exception of the driver or the node at any await and, as
  several steps, a restart of the process (`restart: always`); it is bounded by
  `MaxAborts`.
* `issued`, `brought`, `stranded` and `aborts` are history variables: no guard of
  a handler reads the last three.

Bounds in the modules: `Tids`, `Eids` and `Pids` bound the rows ever created
(an action that needs a fresh id is disabled without one), `MaxAborts` the
requests that die.

### `PaymentLedger` and `PayrollLedger`: the books

`PaymentLedger` is what the tables promise someone who only sees transfers and
payments: a transfer is absent, open, or names the transaction that paid it; a
transaction is mined, then marked on transfers, then recorded. Its actions are
`Reopen`, `Import`, `Drop`, `MineTx`, `Mark` and `Record`. It does not forbid what the
code allows: a paid transfer may be marked again, dropped or (by the stale write)
reopened, a marked transaction may stay unrecorded, and new transfers may be
imported that name any transaction (`imported` has them, until they are marked).

`PayrollLedger` gives the refinement mapping: the state of a transfer is read
off its row, `imported` is `brought`, a transaction is *marked* when its insert is under way
(`pc[p] = "st_insert"`), done, or given up (`stranded`).

### `ConnectionPool`, `Registration`, `Invoices`, `Server`: who waits for whom

`ConnectionPool` is external code (`pg-pool` under TypeORM), modelled from how
the handlers use it. `holder` says which *ticket* has each client of the pool,
`queue` which tickets wait, first come first served and without a time limit,
as is the default that `config.service.ts` keeps. A request has two tickets:
`Tx(r)` for a queryRunner (taken by `connect()`, kept until `release()`) and
`Stmt(r)` for one repository call (taken before the statement, given back after
it). An action of a handler is enabled by the ticket that its await needs.

| endpoint | actions, in order |
|---|---|
| `authentication/registration` | `Register`, `Begin`, `FindAdmin`, `FindOrganization`, `CreateOrganization`, `HashPassword`, `CreateAdmin`, then `Commit` or `Rollback` |
| `invoices/getinvoicenumber` | `GetId`, `GetNumber`, `FindInvoice`, then `SetNumber`, or `GetNumber` again for the recursive call |
| `invoices/create` | `Create`, `FindCompany`, `CreatePdf`, `Begin`, `SaveInvoice`, `SaveItems`, `UpdateInvoice`, then `Commit` or `Rollback`; `SendMail` later |
| errors | `FailBeforeTry` (the framework answers, nobody releases), `FailInTry` (to the catch) |
| (outside) | `Expire`: an entry of the cache ends; `Crash`: the process is restarted |

How code becomes state:

* Each request is made once: `pc[r]` runs from `"new"` to the answer, which stays
  there, so that properties can relate the answer to what is in the tables. A
  client that repeats a request is another request.
* `register` hands `{organization_id, ...body}` to one insert and
  `{...body, organization_id}` to the other: `Org(r)` and `Admin(r)`. A body that
  brings an `organization_id` therefore gives the organization another id than
  the one its administrator refers to. The id that a request draws (nanoid) is
  fresh, and the request stands for it. The column `by` of `Org` is history.
* The unique indexes of company name, organization id and e-mail, and the foreign
  key from administrator to organization, are guards of the inserts. The checks
  of `FindAdmin` and `FindOrganization` read without any lock.
* `commitTransaction` and `rollbackTransaction` concern a connection on which
  nothing was written: they change no table. `Commit` and `Rollback` of a
  registration release the client (`finally`), those of an invoice do not.
* `draftInvoiceNumber` compares `findOne` with `undefined`, which TypeORM 0.3
  never answers (it answers `null`), so only the cache decides. The result of the
  recursive call is not returned: `nested` leads to the answer `"empty"`.
* The primary key of `invoices` is `id` alone (the decorator that would add the
  number is shadowed by the second one, and the migrations have none), so two
  invoices may have one number; they share the PDF file (`pdfs`).
* The validation lets unknown fields pass and `save(invoice)` stores the body as it
  came: `SaveRow` chooses the status that it brings (the column's default is false).
  `premarked` has the creations that brought a true one.
* `sendInvoiceMessageEmail` starts a mail and returns; `SendMail` is the callback
  and happens at any later time, also after the answer, or never when the process
  ends before.
* `Crash` ends every request that is under way and gives the new process a new
  pool. Tables, files and the Redis cache stay.

`Directory` is what registration promises someone who sees the tables and the
answers, but no awaits: a registration takes a name, then an e-mail, then it is
confirmed (`Claim`, `Appoint`, `Confirm`), and it may end at any time before
(`End`); nothing is given back. `RegistrationDirectory` gives the refinement mapping:
the rows as pairs, and an answer that is settled as soon as the catch begins. What
the mapping shows is that the two inserts may be seen as one protocol, although
nothing locks the tables between them, and that a registration may be answered
with 500 (an error of the commit) and be in the directory all the same.

`Server` composes registrations and invoices in one process over one pool
(`INSTANCE` of both); they share nothing else.

`PoolUse` is what the handlers promise each other: a request has one queryRunner at
most, makes one statement at a time, connects before it makes them, and gives back
nothing but its own clients. It does not promise that the client of the queryRunner
comes back: a request may end `"unreleased"`. `Server` gives the refinement mapping:
`Stage(r)` reads off the await of `r` what it has and wants, and `Phase(r)` adds
whether a request that is over has kept its client (a restart takes it back).

Bounds: `OldNumbers` are cached before the first request; `MaxFaults` calls fail and
the process is restarted `MaxCrashes` times.

### `Calls`, `Wallets`, `Sessions`, `Avatars`: one row, many handlers

`Calls` is what these handlers share: requests that keep no connection between
their awaits. `call[r]` is what the request says, chosen at first among the
`Casts` of the instance; `pc[r]` is its await or its answer: `"ok"`, `"refused"`
(an `HttpException`, thrown or returned), `"failed"`. `before[r]` is history: the
requests that had their answer when `r` began. It is the order that clients see,
and most of the properties are about it: two requests *overlap* when neither came
before the other. `FailAt` is an exception at an await, in `Sessions` and `Wallets`
also the end of the process for one request; in `Avatars`, `Fail` is that at any await
but the `unlink`, and `Die` ends every request that has begun.

| endpoint | actions, in order |
|---|---|
| `authentication/login` | `GetAuthenticatedUser`, `LogIn` (with `SetCurrentRefreshToken`) |
| `authentication/validate-google-tokenId` | `ValidateGoogleTokenId` |
| `authentication/metamask-wallet-sign-in` | `VerifySignature`, `SignInWithWallet` |
| `authentication/refresh` | `GetUserIfRefreshTokenMatches`, `Refresh` |
| `authentication/logout` | `RemoveRefreshToken` |
| `authentication/send-reset-password-letter` | `SaveResetPasswordToken`, `SendLetter` |
| `authentication/restore-password` | `UpdatePassword`, `RemoveRestorePasswordToken`, `MailPassword` |
| `authentication/restore-password-profile` | `GetAuthenticatedUser`, `UpdatePassword`, `MailPassword` |
| wallets: bind, delete | `FindWallet`, `InsertWallet`, `ReadWallet`; `DeleteWallet` |
| general wallets: add | `FindGeneral`, `InsertGeneral`, `ReadGeneral` |
| general wallets: update, delete | `UpdateGeneral`, `ReadGeneral`; `DeleteGeneral` |
| `administrators/avatar` | `Guard`, `StoreFile`, `Update`, `Unlink` |
| `employee/avatar` | `StoreFile`, `Find`, `Update`, `Unlink` |
| edits of administrators, employees, clients | `StoreFile`, `Find`, `Unlink` if the picture changes, `Update`, `ReadBack` |
| creation of employees and clients | `StoreFile`, `Check`, `Insert`, for clients `ReadBack` |
| removal of employees and clients | `Find`, `Unlink` if there is a picture, `Delete` |
| (outside) | `Invoice`: an invoice with items for a client |

How code becomes state, in `Sessions`:

* Each statement of these handlers sets one column of `administrators`
  (`password`, `refreshHash`, `restoreToken`), and the model has one step for each.
  What bcrypt answers later depends on nothing but what was read, so a comparison
  belongs to the step that reads.
* bcrypt reads 72 bytes. The first 72 bytes of a refresh token are its header and
  the ids of administrator and organization (`SeenByBcrypt`), so all refresh tokens
  of an administrator look alike: the stored hash says *whether* one may be used
  and not *which*. A new log in leaves the older tokens usable, and so does a
  change of the password.
* Tokens and restore keys are signed: a request has one when the server has handed
  one to its administrator (`granted`, `letters`). A restore is allowed by the
  signature alone; the stored key is cleared and never compared.
* A wallet signs in with the row that has its address and message; a second bind
  with another message gives it two rows. A request is about the administrator
  `who[r]`, which a wallet's row decides.
* Look-ups of what no handler changes (role, organization) are part of the next
  step.

In `Wallets` a row is named by the request that inserted it; a body that is refused
before the first await does not appear. In `Avatars` the request also stands for
the file that it uploads: the interceptor has given it a new name and stored it
before the handler begins, and nothing takes it away again when the handler refuses.
`old[r]` is the file that the handler read from the row, which it deletes and, when
the body says nothing of the picture, writes back. `deleteFileName` swallows every
exception of `unlink`, so that `Unlink` either deletes the file or leaves it, and the
request goes on in both cases; `spared` has those that left it. The one error that is
noticed at this place is that of `employee/avatar` for a row that was not found
(`UnlinkNothing`). `foreign` says that the row is
one of another organization: some updates ask for the organization, the `unlink`
before them does not. The transfers that `removeEmployee` deletes between its
`Find` and its `Unlink` are a matter of `Payroll`.

Bounds: a request is made once, so `Requests` bounds the rows and files; `MaxFaults`
calls fail or processes end, and in `Avatars` the unlinks of as many requests fail
unnoticed.

## 3. What TLC checks

`MCPayroll` gives the casts (`Slots`), the senders and the symmetry. Times are
with two workers.

| run | specification | checks | states |
|---|---|---|---|
| `generate` | one generator, next to deletes, payments and changes of employees; 3 transfers, 3 employees, 2 wallets | `TypeOK`, `PendingUnique` | 281 thousand, 40 s |
| `save` | two savetransaction requests, an upload with or without hashes, `addWallet`; 2 transactions, 2 payers | `PaidMeansMined`, `RecordsMatchChain`, `PayerRegistered`, `OrphanHashExplained`, `ClosedForGood` | 1.39 million, 1 min |
| `upload` | two requests that upload, generate, create or pay; files of up to 2 rows | `PendingBacked` | 827 thousand, 1 min |
| `ledger` | removal, generator and `addWallet` against upload, payment and edit; 2 organizations, 2 amounts, one abort | `OrphanHashExplained`, `LedgerSpec`, `CompletedFate`, `ValueFate` | 751 thousand, 1 min |
| `retry` | `FairSpec`; 2 payers, 1 transaction, one abort | `RetryRecords` | 12 thousand, 5 s |
| `hashtwice` | violation of `HashAddedOnce` | | |
| `register` | three registrations, 3 clients, 2 e-mails, 2 names, an id brought along; one error, one restart | `TypeOK`, `ClientsAccounted`, `RegisteredOnce`, `OrphanExplained`, `OrphanForGood`, `DirectorySpec` | 314 thousand, 30 s |
| `complete` | violation of `FailureExplained` | | |
| `create` | two invoices, marked by their body or not, and two drafts, 2 clients, 2 numbers; one error, one restart | `TypeOK`, `RowsAccounted`, `MailedIsStored`, `ClientsAccounted`, `DraftedOnce` | 1.87 million, 1.5 min |
| `dry` | `FairSpec`; a registration, an invoice and a draft on 2 clients, a number that is cached at first; one error, one restart | `NeverStuck`, `DryTakesAsMany`, `PoolSpec`, `AnsweredOrExhausted`, `ExhaustedForGood` | 128 thousand, 1 min |
| `accounts` | four requests on one administrator, two wallets or the general wallets; one error | `TypeOK`, `LatestUpdateStands`, `LogInsKnowThePassword`, `LogOutStands`, `WalletSignsIn`, `BoundOnce`, `GeneralOnce` | 607 thousand, 1.5 min |
| `pictures` | three requests on one row; with and without a picture at first; one error or end of the process, one unlink that fails | `TypeOK`, `DanglingExplained`, `LeakExplained` | 1.67 million, 1.5 min |

* `PendingUnique`: the filter of `createFromDb` is enough against everything
  except a second generator or an upload. Those two do create duplicates (the
  upload's own check is commented out in the code), so the property is stated
  for one generator at a time.
* `PaidMeansMined`: a completed transfer names a mined transaction, although
  receipt, mark and stale writes are awaits apart; all but those whose hash a sheet
  brought, which may name anything.
* `OrphanHashExplained`: a completed transfer without a payment is in the middle
  of `savetransaction`, or its insert was given up, or a sheet brought its hash.
  `save` gives inserts up by the constraints (two requests, two payers), `ledger`
  by a request that dies.
* `ClosedForGood`: what is left of 'You have already added transaction' (see the
  violation below): once the payment is recorded and every request that had passed
  the check is over, no step marks another existing transfer with the hash. What a
  sheet brings is a new transfer.
* `PendingBacked`: without edits, removals and dying requests, a pending
  transfer has an employee, or its upload is about to insert it.
* `LedgerSpec`: each step on the tables is one of the ledger's, or none; a sheet
  with hashes is an `Import`, and no other step makes transfers that are paid.
* `DraftedOnce`: a number that was given out before a request began is not given
  to it while it is cached; overlapping requests may share one.
* `CompletedFate`: a paid transfer disappears only through a delete endpoint or
  reopens only through the stale write of `createFromDb`; `removeEmployee` does
  neither, even for transfers that are paid after it has started.
* `ValueFate`: a transfer keeps its organization and wallet, and an edited amount is
  lost only to a `createFromDb` that read the row before the edit and whose `save`
  reloaded it after (TypeORM updates the columns in which the two differ); an edit
  that comes after the reload stands, though the save holds the old row.
* `RetryRecords`: the check for a duplicate looks at payments, not at
  transfers, so a retry completes what a dead request left.
* `RegisteredOnce`: two registrations that pass both checks at the same time are
  told apart by the unique indexes, and only one of them is answered with 201.
* `OrphanExplained`, `OrphanForGood`: a registration that fails after its first
  insert leaves an organization that is never repaired and whose name nobody can
  register. This is how the code is, and the properties say exactly when.
* `DirectorySpec`: each step of the tables and answers is one of `Directory`, or none.
* `RowsAccounted`, `MailedIsStored`: an invoice without its items is one of a
  request on its way, failed or dead; it is unmarked, unless its body brought the
  mark, and its mail was never handed over, whatever fails. After 200 the file of
  the number is there, its own or that of another creation with this number, which
  has overwritten it.
* `ClientsAccounted`: which answers have cost the pool a client: a refused
  registration, every invoice that got as far as its transaction.
* `PoolSpec`: `register` and `create` use the pool as `PoolUse` says, also when they
  and their errors interleave.
* `NeverStuck`: while somebody waits for an answer and the pool has not run dry, a
  request can go on or a client is free for the first in the queue. A wait in a
  circle other than the one through an empty pool would break it, and so would a
  client that is lost without a request to blame for it.
* `DryTakesAsMany`: a pool that has run dry is shared out among that many requests:
  refused or failed registrations, invoices, and those that wait for their second
  client. So one request costs the pool one client at most; the ten clients of the
  default last for nine such requests.
* `AnsweredOrExhausted`: the only way for a request to wait for ever is a pool
  that has run dry: each client is kept by an answered request or is held by one
  that waits for a second client. Both kinds are reached in `dry`: the invoice
  keeps its client after its answer, and the registration and the invoice wait
  for each other. The draft, which opens no transaction, is starved by them. A draft
  that draws cached numbers goes round for ever in the model, where no chance ends
  it; the property allows that and says that the others do not suffer from it.
* `LatestUpdateStands`: each column holds what one of its latest updates has set.
  A handler that saved the whole row it has loaded would break it.
* `LogInsKnowThePassword`, `WalletSignsIn`: the check precedes the session by some
  awaits, so what was valid is a matter of order: a password or wallet opens a
  session unless it was replaced before the request began.
* `LogOutStands`: a refresh that begins after a log out needs another sign-in that
  was not over when the log out began.
* `BoundOnce`, `GeneralOnce`: the code's 'You have already bind this wallet' and
  'This wallet is already exists' hold for requests one after the other; the second
  fails against `updateGeneralWallet`, which does not look.
* `DanglingExplained`: a row names a deleted file while its request is on the way,
  after it failed between `unlink` and the statement (an invoice that keeps its
  client makes that certain), when the row was one of another organization, or
  when an edit that overlapped has written the old name back.
* `LeakExplained`: the same for files that nothing names: refused requests, requests
  that died before their `unlink` or whose `unlink` threw, uploads that had read the
  same row.

Why the bounds are enough: two requests are in flight because every hazard found
in the code is a race of two; two wallets, or one wallet in two organizations,
are needed for a file with a conflict and for the cross-organization delete;
three transfers are two old ones and a new one, with a hash of its sheet or without;
two transactions show that hashes
are not mixed up (`save`). All properties of the passing runs but the two of
liveness (`RetryRecords`, `AnsweredOrExhausted`) are proved without any bound
(section 4).
The pool runs dry with as many requests as it has clients; two or three
behave like the ten of the default. Three registrations allow two that race
for a name and a third that comes when they are over; one error and one
restart hit every await in some behaviour. In `create` the second invoice finds
a client only if the first has failed before its transaction, or after a restart:
both happen. `accounts` has three casts of four requests: a session that is opened,
ended and opened again needs three and a refresh; so do a password that is changed
and changed back, and a wallet that is bound, unbound and used. `pictures` needs
three: one to put a picture, one that has read it, one that replaces it. `dry`
leaves out bodies with an id, which change no step of the pool.

Symmetry is used in the safety runs for ids, wallets and organizations; not for
transactions and payers, which `Sender` relates, and not in the liveness runs.

Deadlock is checked in every run of `MCPayroll`: some request can always start,
because `DeleteTransfer` or `SaveTransactionCheck` is always possible. In the
others each request is made once, and the system may stop when all of them
are answered (`CHECK_DEADLOCK FALSE`); waiting for ever is the matter of
`AnsweredOrExhausted`.

Fairness (`FairSpec` of `Server`): weak fairness of each request's next step and
of `Grant`: the event loop runs what is ready, statements return, and the pool
hands out a free client. Nothing is assumed of errors, restarts, the mail server,
the cache or the arrival of requests.

Fairness (`FairSpec` of `Payroll`): weak fairness of `Continue(p)`: the event
loop runs every request that it has accepted, and the database and the node
answer. `Abort` may still end a request. Strong fairness of `SaveTransactionCheck` for each
transaction is an assumption about the client, not the server: a client whose
transaction is mined calls again until it is told that it was added already. No
fairness is assumed of the other endpoints, nor of `Submit` and `Mine`.

### What the violations show

* `HashAddedOnce`. `payment.controller.ts` refuses a recorded hash with 'You
  have already added transaction'. Two concurrent requests with one hash both
  pass; after the first has inserted the payment, the second marks the transfers
  of its own list with the hash and then fails on the unique index. Its transfers
  stay completed.
* `FailureExplained`. `CreateOrganizationDto` declares `organization_id` as
  required. With it the organization is inserted under the given id and the
  administrator refers to the generated one, so the foreign key refuses the
  administrator: the registration fails without any conflict or error, and
  leaves an organization behind.

Two more that the models show and no run asks about: `saveTransaction` marks the
transfers of a reverted transaction too, and the list of completed transfers does not
look at the payment's status; and `getinvoicenumber` answers with nothing when its
first random number is cached (`"empty"`), since the result of the recursive call is
dropped.

## 4. What is proved

| module | theorem | states |
|---|---|---|
| `PayrollProofs` | `TypeCorrect` | `Spec => []TypeOK` |
| `PayrollProofs` | `CompletedTransfersAreMined` | `Spec => []PaidMeansMined` |
| `PayrollProofs` | `PaymentsMatchTheChain` | `Spec => []RecordsMatchChain` |
| `PayrollProofs` | `PayersStayRegistered` | `Spec => []PayerRegistered` |
| `PayrollProofs` | `OrphansAreExplained` | `Spec => []OrphanHashExplained` |
| `PayrollProofs` | `BooksStayClosed` | `Spec => ClosedForGood` |
| `PayrollProofs` | `CompletedStay` | `Spec => CompletedFate` |
| `PayrollProofs` | `EditsStand` | `Spec => ValueFate` |
| `PayrollProofs` | `PendingOnce` | `Spec => []PendingUnique` |
| `PayrollProofs` | `PendingIsBacked` | `Spec => []PendingBacked` |
| `PayrollRefinement` | `PayrollKeepsTheBooks` | `Spec => LedgerSpec` |
| `RegistrationProofs` | `RegistrationTypes` | `Spec => []TypeOK` |
| `RegistrationProofs` | `ClientsAreAccounted` | `Spec => []ClientsAccounted` |
| `RegistrationProofs` | `RegistrationsAreUnique` | `Spec => []RegisteredOnce` |
| `RegistrationProofs` | `OrphanOrganizations` | `Spec => []OrphanExplained` |
| `RegistrationProofs` | `OrphansStay` | `Spec => OrphanForGood` |
| `RegistrationProofs` | `RegistrationKeepsTheDirectory` | `Spec => DirectorySpec` |
| `InvoicesProofs` | `InvoicesTypes` | `Spec => []TypeOK` |
| `InvoicesProofs` | `RowsAreAccounted` | `Spec => []RowsAccounted` |
| `InvoicesProofs` | `MailsAreStored` | `Spec => []MailedIsStored` |
| `InvoicesProofs` | `ClientsAreAccounted` | `Spec => []ClientsAccounted` |
| `InvoicesProofs` | `NumbersDraftedOnce` | `Spec => []DraftedOnce` |
| `ServerProofs` | `ServerUsesPool` | `Spec => PoolSpec` |
| `ServerProofs` | `ServerNeverStuck` | `Spec => []NeverStuck` |
| `ServerProofs` | `DryPoolIsSharedOut` | `Spec => []DryTakesAsMany` |
| `ServerProofs` | `DryPoolStaysDry` | `Spec => ExhaustedForGood` |
| `ServerProofs` | `ClientsAreAccounted` | `Spec => [](R!ClientsAccounted /\ I!ClientsAccounted)` |
| `SessionsProofs` | `SessionsTyped` | `Spec => []TypeOK` |
| `SessionsProofs` | `UpdatesStand` | `Spec => []LatestUpdateStands` |
| `SessionsProofs` | `PasswordsAreKnown` | `Spec => []LogInsKnowThePassword` |
| `SessionsProofs` | `LogOutsStand` | `Spec => []LogOutStands` |
| `SessionsProofs` | `WalletsSignIn` | `Spec => []WalletSignsIn` |
| `SessionsProofs` | `WalletsBoundOnce` | `Spec => []BoundOnce` |
| `SessionsProofs` | `GeneralWalletsOnce` | `Spec => []GeneralOnce` |
| `AvatarsProofs` | `PicturesTyped` | `Spec => []TypeOK` |
| `AvatarsProofs` | `DanglingHasAReason` | `Spec => []DanglingExplained` |
| `AvatarsProofs` | `LeakHasAReason` | `Spec => []LeakExplained` |

Each holds for every value of the constants that satisfies the assumptions of its
module; TLC evaluates them in every run of that module:

* `Payroll`: `ConstantsAssumption` (the signer of each transaction is a wallet, the
  amount 1 of a generated transfer is an amount, the marks `Absent`, `NoHash`,
  `NoWallet` are no values); the refinement also `LedgerAssumption` (the same for the
  states of a transfer).
* `Registration`, `Invoices`: `PoolAssumption` (a free client is no ticket) and
  `RegistrationAssumption` or `InvoicesAssumption` (registrations, drafts and
  creations are requests, an id from a body is not one that the server draws, the
  bounds are numbers).
* `Server`: `PoolAssumption` and `ServerAssumption` (a request goes to one endpoint,
  and there were finitely many requests: the pigeonhole of `DryTakesAsMany` counts
  them).
* `Sessions`: `WalletsAssumption`, `SessionsAssumption`, `MaxFaultsAssumption` (what a
  request says is an administrator, an address, a message, a password; the marks are
  no values). `Avatars`: `AvatarsAssumption` (the same for owners and files; two
  requests do not create one row; an instance may have any casts).

**`Payroll`.** `TypeOK` is inductive by itself, because it says where a local
variable has a value (`LocalsSet`). The four safety properties of the `save` run are
not: that `AddHash` marks with a mined transaction depends on what the request saw two
awaits before, and that `CreateFromDbSave` brings no hash back depends on what
is in a list read three awaits before. `Safety` adds both, as `SeenMined` and
`ListUnpaid`. The lemmas then say where things come from: a hash arises only from
`addHash` or with a new row of a sheet (`HashArises`), which is then in `brought`
(`SheetRows`), a payment only from an insert that found the payer
registered and the hash unrecorded (`PaymentsArise`), a request leaves the await
before the insert only with the payment recorded or its hash given up
(`InsertEnds`); what is mined stays (`ChainStable`). `BooksStayClosed` adds that a request gets past
the check only while there is no payment (`SavingArises`).

The properties of pending transfers need that ids are new when they are drawn, also
those that wait in the locals of a request: `Ids` says that every row and every item of
a list has an issued id, that two requests which are to insert employees have different
ones, and that no two employees share wallet and organization. `OnePending` adds
what the generator's list is at each await (`Lone`): one item for a wallet, of its
organization, and none whose wallet has another pending transfer. `FilteredList` shows
that `removeExistingObjectsByWalletId` establishes it, `LoneNext` that no other request can
break it, because only an upload or a second generator makes a transfer pending.
`AllBacked` says the same of rows and list items: an employee, or an upload that is
about to insert it. `EditsStand` needs that all copies of a transfer, its row and the
items of any number of generators, are of one organization and wallet and, where nobody
may edit, of one amount (`CopiesAgree`): `CopiesArise` and `ValuesArise` trace each
copy to one of the state before, and the ids in `Ids` exclude a new row under an old id.

**The refinement** shows that every step which is not `AddHash` or `InsertPayment`
leaves the marked and recorded transactions alone (`OthersKeepBooks`,
`MarkedKept`), then finds the ledger action of each step that changes a transfer
(`IsReopen`, `IsDrop`), of an upload (`Import`: `UploadStep`), of `AddHash` (`Mark`, of whose
transfers only those that still exist change) and of `InsertPayment` (`Record`, or a stutter when it is refused).

**`Registration`.** The invariant has two halves. `Books` is about
the tables: each row was inserted by the request that it names, names and e-mails
do not repeat, and a request that is past an insert has its row. That
`CreateAdmin` succeeds only in the organization of its own request needs that no
other row can have the id which the request drew (`OrgFields`). `Place(r)` is about the
pool: where the two tickets of `r` are, by the await of `r`. It is inductive only
together with `PoolInv` of `ConnectionPoolProofs`: no ticket is twice in the
pool or the queue, since otherwise giving a client back would leave the request with
another. The lemmas `Asking`, `Returning`, `ReturningAndAsking`, `Granting` and
`ResetEmpties` say what each pool operation does to `Holds` and `Queued` of every
ticket; they do not depend on the handler.

For the directory each step is read as one of its actions: an insert that is not
refused is a `Claim` (`BookClaims`) or an `Appoint` (`BookAppoints`), for which `Books`
shows that the request has its own organization and no row yet; a step to the catch
or to a refusal is an `End`, a restart ends several (`BookRestart`), and the rest changes
nothing there (`BookKept`).

**`Invoices`** uses the same lemmas for its own `Place(r)`. `Data` has for each
creation what is in the tables at each await (`Written`, with the exceptions of
`premarked`) and that the file of its number, once it was printed, is there and was
printed by a creation of that number (`Filed`; a file is only ever replaced by another
of its number), and for each draft that its
number is cached or expired, and that a number which an earlier draft has is
expired as soon as the look-up in the cache has let it pass (`Drafted`).

**`Server`.** The proof does not repeat those of the two components: it needs of
them only what each step does with the pool. `Uses(r)` is the list of these moves, from
stage to stage; `RegistrationUses`, `DraftUses` and `CreationUses` show that every
step of the handlers is one of them and leaves the other requests alone. The inductive
invariant says for each stage where the tickets of the request are (`Place(r)`),
next to `PoolInv`; its proof (`UsesPlace`, `OthersStay`, `PlaceGrant`) knows no handler
any more. `ServerNeverStuck` then takes a pool without a free client (otherwise the
first in the queue gets one, or nobody waits and everybody can go on) and shows that
its holders either can go on or are `Keepers`. `DryPoolIsSharedOut` maps each client
to its holder's request; `PoolInv` and `Place` make this map injective. `ServerUsesPool`
reads `Uses(r)` as the actions of `PoolUse`, and a restart as its `Restart`.

**`Sessions`.** `Fits` says which operation a request at an await has, `History`
that what came before a request is answered and that a request has written a column
only if its handler does and it is past that await. With both, each property is inductive by itself: the writer of a step
has no answer yet, so it came before nobody and is a latest update; who has read a
column has read that of a latest update at that time, and every later one overlaps. For wallets
`DeletedGone`, `NotYetBound` and `NotYetListed` say what a look-up has seen: a row that
an answered delete removed is gone, and whoever is about to insert has found no row of
a request that came before.

**`Avatars`.** `Names` and `Stored` say whose a file is and when it is on the disk,
`Unborn` that nobody knows a row which is yet to be created, `Gone` that every missing
file was deleted by a request that had read it, `Fits` that who is past the `unlink`
has deleted the file or left it (`spared`). `Unchanged` gives the reason why a
request has deleted the file but not changed the row, `CameBack` why the row has an old
name again: an edit that kept the picture, overlapped, and wrote last. `Kept` follows a
file that nobody deleted: it is on its row, is about to be replaced, was replaced by
a request that had begun before it was there, or by one that died or whose `unlink`
threw. A step has its lemma per conjunct; the end of the process, which moves many
requests at once, has its own (`InvDie`).

Only model-checked: `AnsweredOrExhausted` of `Server` (what can be proved of it
without liveness is `ServerNeverStuck`) and `RetryRecords`. Liveness under fairness is out of the prover's reach, and so are
`ENABLED` and induction over data (the models have no recursive operators). The
violations are TLC's too.

## 5. What is not modelled, and why

* `POST payment` and `mint` of the payments: a transfer on the chain that the server
  signs itself, then one insert of whatever the body says, its hash and status
  included. No handler checks anything that could go wrong in an order, and the column
  `hash` is NOT NULL, so that a body without one loses the record of its transfer.
  `RecordsMatchChain` therefore speaks of the rows that `savetransaction` inserts. A
  hash that a body makes up can make `savetransaction` refuse the real one.
* `POST organization` inserts an organization without an administrator, under any
  name: `OrphanExplained` speaks of those that registrations insert.
* `changeEmployeeActivityStatus` sets a flag that no handler reads.
* Bodies that carry the id of an existing row: `save` of an invoice or of an employee
  then updates that row. Invoices of several organizations, which share nothing but
  the tables.
* Columns of a sheet other than the hash that a handler's statements depend on: ids of
  its own (`organization_id` and `transfer_id` are replaced, `id` is not: the key then
  refuses the insert, or lets a row have the id that another one was deleted with) and,
  for the employees of the sheet, `avatar_url`. A registration body may bring
  `avatar_url` as well. `DanglingExplained` and `LeakExplained` speak of names that the
  server has drawn.
* The cascade from a removed client to its invoices: it reaches only an invoice whose
  `invoice_items` were empty, as items refuse the removal. `MailedIsStored` speaks of
  invoices whose client stays.
* Which restore key is used: any that was signed for the administrator restores, in
  the code and in `Sessions`.
* `BoundOnce` and `GeneralOnce` compare the text of the columns, as the code does: one
  Ethereum address in other letter case is another address to both.
* Archived administrators and tokens that have expired: they are refused before
  anything is read or written. Google's verification of its token, and encryption,
  are library calls without a state.
* A refused mail: `sendMail` has a callback that only logs, so nothing in the server
  depends on its outcome.
* Contents of mails and PDF files, configuration, migrations as such, queries whose
  result no handler acts on, and authorization (every request is one of a logged-in
  administrator with a role).
