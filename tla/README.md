# A verification project for fmis-api

fmis-api is the back end of a food manufacturer's inventory: a Go HTTP service
over PostgreSQL. It receives lots, sells them first-expired-first-out, corrects
them, quarantines them and turns them into finished goods through production
orders. It keeps no state of its own between requests: everything lives in the
database, every request is handled by its own goroutine, and what makes the
service correct is how its SQL statements interleave. This directory models
that, model-checks it with TLC and proves the main results with TLAPS.

## 1. The system

| Component (src/) | State it keeps | Operations | What makes it correct |
|---|---|---|---|
| BatchService, BatchRepository (`internal/services/batches.go`, `internal/repositories/batches.go`) | `inventory_batches`, `stock_transactions` | Receive, ListActiveByProduct, Quarantine | a lot and its INCOMING row appear together; a quarantine is final and beats every sale that has not committed |
| InventoryService (`internal/services/inventory.go`, `repositories/transactions.go`) | quantities, ledger | List, Adjust, Consume | stock is never oversold; the ledger explains it; sales follow the expirations |
| ProductionOrderService (`internal/services/production.go`, `repositories/production.go`) | `production_orders`, `production_order_line_items`, the RESERVED output batches | List, Create, GetByID, Start, Cancel, Complete | inputs are consumed once and completely or not at all; the output is sellable only when the order is COMPLETED; it expires with its first input |
| SelectFEFO (`internal/services/fefo.go`) | none | choose batches for a quantity | covers the request to the last decimal place although it counts in float64, or refuses it |
| Transactions and row locks (`services/stores.go`, `repositories/querier.go`, PostgreSQL) | locks, uncommitted writes | BEGIN, FOR UPDATE, INSERT, UPDATE, COMMIT, ROLLBACK | no call waits for ever; a failed call leaves nothing |
| ProductService (`internal/services/products.go`, `repositories/products.go`) | `products` | Create, List, GetByID, Update, SoftDelete | a SKU belongs to one product; deletion is final; a deleted product gets no new stock |
| AuthService (`internal/services/auth.go`, `repositories/users.go`, `repositories/refresh_tokens.go`) | `users`, `refresh_tokens` | Register, Login, Refresh, Logout, Me | accounts are distinct; rotation is all or nothing; a dead token is never exchanged |
| Routers, middleware (`internal/routers`, `internal/middleware`) | none | decode, authorize, call one service method, encode | a role that is taken away ends; answers are those documented |
| Validators (`internal/schemas`) | none | ranges and formats of requests | services see only quantities their columns can hold |
| Server (`cmd/api/main.go`, `internal/database`) | listener, pool of ten connections | start, serve, graceful shutdown | no request starves for a connection; the process ends with no transaction open |

**How they interact.** A handler decodes a request and calls exactly one service
method. A method that writes several rows runs `pgx.BeginFunc`, so it is one
transaction on one pooled connection, at READ COMMITTED; a method of one
statement (Update of a product, Login's INSERT, Logout) runs it on the pool, and
so do the reads before a transaction. Methods share nothing in memory: they
meet in rows. `GetBatchByIDForUpdate`, `GetActiveBatchesByProductForUpdate` and
`GetProductionOrderByIDForUpdate` lock the rows a method will change; the
foreign key of a line item locks its input batch FOR KEY SHARE; a plain UPDATE
(the output batch of `Complete`, a product, a refresh token) locks its row as
well. A unique index makes a writer wait for another that has written the same
value and not committed.

**Where it is hard.** A query with FOR UPDATE chooses its rows in one snapshot,
waits for their locks, and re-reads each row when it gets it. A guard read in Go
(status, quantity) must still hold when the transaction commits. A completion
locks its inputs in whatever order the line items come. A refusal in the middle
of a loop must undo the statements before it. Deleting a product and refreshing a
session check in one statement and act in another, with nothing held in between.
Quantities are exact in the database and floats in the services. An access token
states a role that may be out of date. A listing is read in pages, each a query of
its own. Calls that wait for rows keep connections that others wait for. Clients
retry. `hazards` in `PROJECT.json` lists each of these at the line where it bites.

## 2. The modules

| Module | What it is |
|---|---|
| `Stock` | the vocabulary: rows, statuses, requests after validation, the order of expirations, the assumptions on a database in use |
| `Inventory` | the **abstract specification**: each request takes effect in one step on the committed tables, or not at all |
| `InventoryTx` | the **detailed specification**: each request is a transaction of several SQL statements, interleaved with the others; also the properties |
| `MCInventoryTx` | instances for TLC |
| `InventoryTxProofs` | type correctness, one lemma per action; the inductive invariant and the invariants it consists of |
| `InventoryTxSteps` | what follows from it: action properties, expirations, movements, absence of deadlocks, the refinement of `Inventory` |
| `ProductTable` | the **abstract specification** of the catalogue: each request takes effect in one step, and a refusal is true when it is given |
| `Catalogue` | the **detailed specification**: products beside the calls that make stock of them, statement by statement, with row locks and the unique index; also the properties |
| `Sessions` | accounts and refresh tokens, statement by statement; also the properties |
| `MCCatalogue`, `MCSessions`, `MCListing` | instances for TLC |
| `Fefo` | the loop of SelectFEFO and the other comparisons of quantities, in floating point |
| `Gate` | the way of a request through routes and middleware, and the role claims of access tokens |
| `Server` | the process from start to exit, and the connections its requests share |
| `Listing` | a client that reads one of the three listings page by page |
| `FefoProofs` | how far rounding can take the loop from exact arithmetic, and that it never shows |
| `CatalogueProofs` | the inductive invariant of `Catalogue`, the refinement of `ProductTable` and what a deletion leaves behind |
| `SessionsProofs` | the inductive invariant of `Sessions` and the theorems that follow from it |
| `GateProofs`, `ServerProofs`, `ListingProofs` | types, inductive invariants and the theorems that follow |

### State and actions of InventoryTx

| Variable | In the code |
|---|---|
| `status`, `quantity`, `initial`, `expiration` | columns of `inventory_batches`; status `NONE` is an identifier not inserted yet |
| `ledger[b][t]` | sum of `quantity_change` over the `stock_transactions` of batch b and type t |
| `orderStatus`, `outputOf`, `lineItems` | `production_orders` and their line items |
| `used[o][i]` | USED_IN_PRODUCTION rows written for line item i of order o |
| `batchLock`, `orderLock`, `keyShare` | row locks PostgreSQL holds for a transaction |
| `phase`, `request`, `queue`, `remaining`, `delta`, `soonest` | locals of the service method, and what its transaction has written but not committed |
| `snapshot` | history only: the batches a sale's query found |

| Action | Statements |
|---|---|
| `Receive` | the whole of `BatchService.Receive`: it takes no lock anybody holds and its rows are visible to nobody before the commit |
| `QuarantineLock`, `QuarantineCommit` | SELECT FOR UPDATE and the status check; UPDATE and COMMIT |
| `AdjustReject`, `AdjustLock`, `AdjustCommit` | the check before the transaction; lock, checks and UPDATE; INSERT of the ledger row and COMMIT |
| `ConsumeQuery`, `ConsumeLock` (per row), `ConsumeSettle`, `ConsumeCommit` | snapshot and ORDER BY; one row of the FOR UPDATE: wait, re-evaluate, choose; SelectFEFO's verdict; updates, ledger rows, COMMIT |
| `CreateCheck`, `CreateLink` (per line item), `CreateCommit` | product and input checks; INSERT of a line item with its foreign-key lock; COMMIT |
| `OrderLock`, `StartCommit`, `CancelCommit` | SELECT FOR UPDATE and status guard; UPDATE and COMMIT |
| `CompleteItem` (per line item), `CompleteActivate`, `CompleteCommit` | the loop over line items; UPDATE of the output; COMMIT |
| `Abort` | any statement fails, the client leaves, the handler panics, the process dies: rollback |
| `DeadlockVictim` | PostgreSQL fails one transaction of a minimal cycle of waits |

A transaction's own writes are invisible to others until its commit, and every
row it writes is locked from then on; so its uncommitted writes are kept in
`delta` (and `soonest`) and published by the commit in one step. Statements on
rows that only the transaction itself can see are merged into the commit.

What is abstracted in `InventoryTx`: identifiers are members of finite pools
(`Batches`, `Orders`), with the product of each batch identifier fixed in advance;
quantities are integers (units of 0.0001 in a `numeric(10,4)` column) and
`MaxQty` is the column's largest value; expirations are naturals or `Null`;
texts, users and timestamps of rows are left out. The product catalogue is
constant there: none of these calls changes a product, and what deleting one
does to calls in flight is the question of `Catalogue`.

### State and actions of Catalogue

| Variable | In the code |
|---|---|
| `product` | committed rows of `products`: `sku`, `name` (for every column that behaves like it) and whether `deleted_at` is set |
| `status`, `productOf` | `inventory_batches`: status and product |
| `writer`, `keyShare` | the call that has written a product row and not committed; calls whose new batch locks its product through the foreign key |
| `phase`, `request`, `target`, `version` | how far the service method has come, its parameters, the row it writes and what it has written |

| Action | Statements |
|---|---|
| `CreateWrite`, `UpdateWrite`, `DeleteWrite` | INSERT and the UPDATEs up to the row: an UPDATE waits for the row's writer and evaluates its WHERE clause again |
| `Claim` | the unique index `products_sku_key`: proceed, wait or fail |
| `DeleteCount` | the count of ACTIVE batches, a statement of its own |
| `ProductCommit` | COMMIT of Create, end of the statement of Update and SoftDelete |
| `LookUp`, `LookUpInput`, `BatchInsert`, `BatchCommit` | `BatchService.Receive` and `ProductionOrderService.Create` where they read a product and insert a batch of it |
| `Complete`, `Quarantine` | what these calls do to the status of one batch |
| `Abort`, `DeadlockVictim` | as in `InventoryTx` |

Whether a batch may be completed or sold is settled in `InventoryTx`; here
`Complete` may be refused for any reason. A change of a SKU and the foreign key
of a new batch exclude one another because `sku` has a unique index; other
updates of a product and a new batch do not.

The refinement of `ProductTable` maps `product` to itself and `answer` to the
answers given so far. A refusal is given in the state that justifies it, so the
abstract guards are evaluated when the call ends. Two answers are left free: a
deletion may always be answered 409, because the abstract table has no batches,
and any request may fail.

### State and actions of Sessions

| Variable | In the code |
|---|---|
| `user`, `token` | committed rows of `users` and `refresh_tokens`; a token stands for its hash, a password for the account that has it |
| `clock` | `time.Now()` |
| `phase`, `request`, `account` | how far the service method has come, its parameters, the account it has read or inserted |
| `revoker` | the row lock of a Refresh that has revoked a token and not committed |
| `parent`, `closed` | history only: what a token was exchanged for, which tokens were logged out |

| Action | Statements |
|---|---|
| `RegisterInsert`, `RegisterCommit` | INSERT INTO users with the wait at its two unique indexes; INSERT of the token and COMMIT |
| `LoginFind`, `LoginStore` | SELECT and the checks in Go; INSERT of the token |
| `RefreshFind`, `RefreshUser`, `RefreshRevoke`, `RefreshCommit` | SELECT of the token and its checks; SELECT of its owner; UPDATE of the token; INSERT of the successor and COMMIT |
| `Logout` | UPDATE of the token |
| `Abort`, `Tick`, `Deactivate` | rollback; the clock; an operator setting `is_active` to false, which no endpoint does. Setting it back to true is an action of `Gate` only |

### State and actions of Fefo

`stock` (`quantity_current` of the batches as the query orders them), `requested`,
`remaining` and `selections` are the parameters and locals of `SelectFEFO`, `next`
is its loop index, `verdict` its result. `due` is what exact arithmetic would still
have to cover; only the properties use it. `Skip`, `Take` and `Settle` are the
`continue`, the rest of the loop body and the code after the loop. Every number is
an integer count of grains fine enough for decimals and floats alike; `Nearest`
rounds half to even, as IEEE 754 does. Precision, exponent and number of decimals
are constants.

### State and actions of Gate

| Variable | In the code |
|---|---|
| `account` | `role` and `is_active` of a row of `users` |
| `life[u, r]` | how long the freshest access token that states role r for user u is valid; older ones are no stronger |
| `call` | what a request has come to: the handler, the claim it rests on, the status, and why it was answered so |

| Action | Code |
|---|---|
| `Stray` | the preflight of CORS; no such route, no such method, no token |
| `EnterPublic`, `Unauthenticated`, `Enter` | the middleware chains of `router.New` |
| `Refuse`, `Serve`, `Fail` | decodeAndValidate or the service finds a reason to refuse, and writeError maps the error; success; an error nobody expects, or a panic |
| `CreateAccount`, `ReadAccount`, `Issue` | Register, Login and Refresh up to the moment the account is known; issueAccessToken |
| `SetAccount`, `Tick`, `Leave` | an operator changing the row, which no endpoint does; the clock; the answer has gone out |

`Routes` lists for each of the twenty-three routes its roles, its success and its
refusals. A refusal is a situation, the error the code makes of it (or none, if the
code passes it over), and the status which the annotations of that handler list for
the situation. The situations in which the two agree are `Agreements`, those in
which they do not are `Disagreements`; section 5 quotes the latter. A handler may
meet any of its situations at any time: when it does, is the matter of the other
modules.

### State and actions of Server

`stage` is what `main` is doing, `up` whether the database can be reached, `call`
how far each request has come, `held` which of them have a connection, `overdue`
whether Shutdown gave up. A request has one section after another, each with a
connection of its own: a query on the pool, or a transaction. `Acquire` may lead
into a section that waits for a row (`LockRow`), and there is one row: all that
matters here is that a request can wait for another while it holds a connection.

| Action | Code |
|---|---|
| `Start` | `database.New` and its ping |
| `Signal`, `Drained`, `GraceOver`, `Exit` | the signal, the two ways Shutdown returns, the deferred `pool.Close`, which waits for every connection |
| `Die` | `os.Exit` of the listener's goroutine, or a kill |
| `Arrive`, `Acquire`, `AcquireFails`, `GiveUp` | a request, also one on a connection accepted just before the signal, which Shutdown still serves, and its wait for a connection; the two-second context of `/health` is one that gives up |
| `SectionEnds`, `Interrupted`, `Answer` | commit or end of a query; a failed statement or a cancelled context; the response |

### State and actions of Listing

`row` is whether a row is in the listing yet, still, or no more; `Stamp` its
`created_at`. A reader asks for pages of `asked` rows and moves on by `asked`;
`Page` is one `List` with its query, `Limit` the treatment of the parameter. Ties
of `created_at` are broken anew on each page, as PostgreSQL may. `Enter` is the
commit that makes a row visible, in any order of stamps, since `created_at` is the
time a transaction began; `Depart` is a deletion of a product or a change of an
order's status, and never happens in the ledger.

Definitions whose comment begins with "Fault:" are plausible bugs, used nowhere:
`mutants` in `PROJECT.json` substitutes each for the definition it corrupts to
show that a property notices.

## 3. What is checked

| Run | Instance | Question |
|---|---|---|
| `traffic` | 3 calls out of 13 requests, 3 batches of one product (one still to arrive), quantities up to 4 | are receipts, sales, corrections and quarantines on the same rows exact? |
| `assembly` | 3 calls out of 15 requests, 3 orders (running, planned, free), 7 batches | are production orders exact among sales, corrections, cancellations and quarantines of inputs and outputs? |
| `crossing` | 3 calls out of 4 requests, 2 running orders that list the same inputs in opposite orders | is every call answered? |
| `shelf` | 3 calls out of 11 requests, 2 products and room for 2, 5 batches | does the catalogue behave as one atomic table, is every call answered although updates exchange SKUs, and what does a deletion leave behind? |
| `visits` | 3 calls out of 8 registrations, logins, refreshes and logouts, 3 accounts, 3 tokens, clock up to 1 | are registration and rotation whole, and do dead tokens stay dead? |
| `fefo` | 3 batches of 0.0 to 0.9, requests of 0.1 to 1.2, floats of 24 binary digits | does rounding change what a sale takes, and when can it refuse one? |
| `gate` | 1 user, 2 requests, tokens that live one tick, 23 routes | does a revocation take effect, and in which situations is the answer not the documented one? |
| `server` | 3 requests of up to 2 sections, 2 connections | does every request end, and the process? |
| `listing` | 5 rows with stamps 1, 2, 2, 3, 4, limits 0 to 4 where 3 is the largest granted and 2 the default | what can a reader miss or see twice? |
| `vacated`, `twice`, `residue` | minimal instances | the disagreements of section 5 |

`traffic` and `assembly` use symmetry over calls, which all their properties treat
alike; runs with liveness use none, nor does `visits`, where `DeadTokensStayDead`
follows single calls through time. Deadlock checking is on in `gate`, which never
stops; elsewhere each call happens once, or the process ends.

Bounds. Two calls suffice for every race over one row; the third allows a
waiter, a holder and a change in between, and cycles of three. Two stocked
batches give an order of expirations with a partial take from the second; a
third arrives during the run, with an earlier, an equal or no expiration. Order
`o2` names one batch twice around another input, so the check of the third line
item depends on the first. Quantity 4 makes a sale of 3 span two batches, lets
two requests together exceed the stock and lets a correction exceed `MaxQty`.
Identifiers for new rows may run out: a further receipt or order then waits for
ever, which no safety property depends on; the liveness runs have one per call.

In the catalogue three SKUs are one that is taken by each product and one that
is free, so a claim can meet a holder, a writer and nobody; a third call sees
what an exchange of two leaves. The batches are an output still RESERVED, a
lot that is ACTIVE and one to come for each call. In `visits` the token held at the start is at
its last moment when the clock is 0 (the comparison is strict) and expired when
it is 1, where one drawn at 0 (`RefreshTTL` is 1) is at its last moment; three
tokens are that one, its successor and the successor's.

In `fefo` tenths are, like the ten-thousandths of the columns, no binary fractions,
and 24 digits are more than enough that rounding errors stay far below a decimal
place, as 53 are; so residues of every kind occur. Three batches give two
subtractions before the last one. In `gate` one user suffices because no rule
relates two, two requests let one outlast the token that let it in while the other
renews it, and a token of one tick is fresh or dead. `server` needs more requests
than connections, and two sections so that a request gives a connection back and
asks again; one that waits for the row, one that holds it and one that queues are
three. `listing` has a tie, a row above it, one below, and a limit of each kind.

### The properties

| Property | What would break it |
|---|---|
| `StockCovered` | two transactions promising the same stock; a batch named twice by one order |
| `LedgerBalance` | a movement booked with the wrong sign, or a quantity written without its row |
| `InputsUsedOnce`, `OutputMirrorsOrder` | two completions, or a completion and a cancellation, that both pass the status check |
| `OutputExpiresWithInputs` | the minimum over the inputs, NULLs included, taken wrongly |
| `SoldOnlyWhileActive` | selling what the snapshot saw although it was quarantined during the wait |
| `ConsumeIsExact`, `FEFORespected` | a sale that takes less, more, elsewhere, or in the wrong order |
| `LifecyclesRespected` | a status overwritten by a call that read an older one |
| `ConsumesNeverDeadlock` | sales that lock the batches of a product in different orders |
| `ImplementsInventory` | any of these transactions not being atomic: the refinement of `Inventory` |
| `EveryCallAnswered` | locks left behind, cycles of waits not broken (stated of `InventoryTx` and of `Catalogue`) |
| `ImplementsProductTable` | a SKU given to two products, a column overwritten that a request did not name, a refusal that was not true |
| `DeletionIsFinal` | an update that waited for a deletion and then changed the row |
| `ClosedForGood` | stock made of a product by a call that began after its deletion |
| `RotationIsWhole` | a token revoked without a successor, or a successor without the revocation |
| `DeadTokensStayDead` | a revoked or expired token, or one of an account that is deactivated and stays so, exchanged by a refresh that began later |
| `RegistrationIsWhole`, `AccountsDistinct` | an account without its token; two registrations of one name that both pass |
| `SalesAreExact`, `GuardsAreExact` | a rounding error that reaches the last decimal place, or turns a comparison |
| `RefusedOnlyIfEmptied` | a residue that refuses a sale although stock would be left over |
| `CutOffIsFinal`, `RevocationTakesEffect` | a token, a refresh or a request under way that brings a revoked role back, or keeps it for ever |
| `AnswersDocumented` | an error mapped to another status than the one its annotation lists for that very situation; a disagreement that is not listed, or one that is and is none |
| `EveryCallEnds` | a request that asks for a second connection while it holds one; a connection not given back |
| `GracefulExit`, `ShutdownEnds` | an exit with transactions open or answers owed before the ten seconds; a Close that waits for ever |
| `NoneMissed`, `NoneTwice` | a page that skips or repeats rows that did not move; a limit cut down below what the reader advances by |
| `ExpiryInv` | a completion that trusts an expiration which another transaction has changed since |
| `MovementsInv` | a transaction that is about to post anything but what it was asked to |
| `InductiveInv`, `ServerInv` | the invariant of the proofs of each specification, checked first by TLC |

`FEFORespected` speaks of the batches the query found and which are still
ACTIVE: a batch received during the wait is not considered, and the abstract
`Consume` accordingly draws on some set of ACTIVE batches. What this costs is in
section 5.

`ConsumesNeverDeadlock` has the side condition that no two existing batches of a product
expire together, because ORDER BY fixes the lock order only then; and it speaks
of cycles made of sales alone, because completions lock by line item.

`ClosedForGood` is what remains of "a deleted product has no stock" (run
`vacated` shows that it may): stock can appear only through calls that saw the
product alive, or orders that were already made. `DeadTokensStayDead` is what
remains of "a token is good for one refresh" (run `twice`): only refreshes that
overlap can share a token.

`RefusedOnlyIfEmptied` is what remains of "a sale is refused only if the stock
does not cover it" (run `residue`). `NoneMissed` and `NoneTwice` make the limits of
paging by offset explicit: rows that tie, rows that come and rows that leave ahead
of the reader. The ledger loses no rows, so a reading of it misses no untied one
that was there at the start, though it may repeat some. `CutOffIsFinal` says from
when on a revocation holds: from the end of the last token and of the last request
that rest on the old role, not from the UPDATE; a Login that read the account just
before still issues a token for it.

### Fairness

`FairSpec` assumes weak fairness of each call's next statement and of the
deadlock detector. Goroutines and PostgreSQL back ends are scheduled
preemptively, a released lock wakes its waiters, and a cycle of waits is found
after `deadlock_timeout`; a statement waiting for a row is not enabled in the
model. Every statement, once the row is free, stays enabled until it runs unless
another call takes the row, which happens finitely often as calls are finitely
many. `Catalogue` assumes the same of its statements. Nothing is assumed about
clients (`Begin`) or failures (`Abort`).

`Gate` assumes that time passes and that a handler, once begun, goes on; nothing of
users or operators. `Server` assumes that `main` and the handlers go on, that
a statement ends, or fails if the database is away, and strong fairness of the two
waits, for a connection and for the row: the pool's semaphore and the queue of a
row lock in PostgreSQL serve their waiters in turn, so a waiter whose turn
comes again and again is not passed over for ever. It assumes nothing of signals,
clients that leave or the database coming back. `shelf` is checked under `FairSpec`
of `Catalogue`; its safety properties do not depend on it.

## 4. What is proved

Each theorem is about every value of the constants that the assumptions below
admit: any sets of calls, products, batches, orders, accounts and tokens, any
requests and any initial tables.

| Module | Theorem | Statement |
|---|---|---|
| `InventoryTxProofs` | `Invariance` | `Spec => []InductiveInv` |
| | `TypeCorrect` | `Spec => []TypeOK` |
| | `NeverOversold` | `Spec => []StockCovered` |
| | `LedgerExplainsStock` | `Spec => []LedgerBalance` |
| | `CompletedOnce` | `Spec => []InputsUsedOnce` |
| | `OutputsMirrorOrders` | `Spec => []OutputMirrorsOrder` |
| `InventoryTxSteps` | `SalesAreOfActiveStock` | `Spec => SoldOnlyWhileActive` |
| | `LifecyclesOnlyForward` | `Spec => LifecyclesRespected` |
| | `ExpiryInvariance`, `MovementsInvariance` | `Spec => []ExpiryInv`, `Spec => []MovementsInv` |
| | `OutputsExpireInTime` | `Spec => []OutputExpiresWithInputs` |
| | `SalesFollowExpirations` | `Spec => FEFORespected` |
| | `SalesAreExact` | `Spec => ConsumeIsExact` |
| | `ConsumptionsDoNotDeadlock` | `Spec => []ConsumesNeverDeadlock` |
| | `ServicesImplementInventory` | `Spec => ImplementsInventory`, the refinement |
| `FefoProofs` | `Invariance`, `TypeCorrect` | `Spec => []InductiveInv`, `Spec => []TypeOK` |
| | `SelectionsAreExact` | `Spec => SalesAreExact` |
| | `RefusalsEmptyTheShelf` | `Spec => []RefusedOnlyIfEmptied` |
| | `GuardsDecideExactly` | `Spec => []GuardsAreExact` |
| `CatalogueProofs` | `Invariance`, `TypeCorrect` | `Spec => []InductiveInv`, `Spec => []TypeOK` |
| | `ImplementsTable` | `Spec => ImplementsProductTable`, the refinement |
| | `DeletionFinal` | `Spec => DeletionIsFinal` |
| | `ClosedStaysClosed` | `Spec => ClosedForGood` |
| `SessionsProofs` | `Invariance`, `TypeCorrect` | `Spec => []InductiveInv`, `Spec => []TypeOK` |
| | `RotationWhole` | `Spec => []RotationIsWhole` |
| | `RegistrationWhole` | `Spec => []RegistrationIsWhole` |
| | `AccountsApart` | `Spec => []AccountsDistinct` |
| | `DeadStayDead` | `Spec => DeadTokensStayDead` |
| `GateProofs` | `TypeCorrect` | `Spec => []TypeOK` |
| | `RevocationIsFinal` | `Spec => CutOffIsFinal` |
| | `AnswersAreDocumented` | `Spec => AnswersDocumented` |
| `ServerProofs` | `Invariance` | `Spec => []ServerInv` |
| | `ExitsGracefully` | `Spec => []GracefulExit` |
| `ListingProofs` | `Invariance` | `Spec => []InductiveInv` |
| | `ReadingIsWhole` | `Spec => []NoneMissed` |
| | `ReadingRepeatsNothing` | `Spec => []NoneTwice` |

**Assumptions.** `StockAssumption`: finitely many batch identifiers, `MaxQty` a
natural, every product typed, NULL not a number. `MenuAssumption`: requests
passed the validators. `SeedTypes`, `SeedAssumption`: the initial tables are
those of a database the services have filled (stock equal to its ledger rows,
outputs RESERVED, of finished goods and each of one order, orders with at least one
line item, line items naming existing inputs).
`CallsAssumption`: `Nobody` is no call. `CatalogueAssumption`: the catalogue
starts with distinct SKUs, and every batch has a product. `SessionsAssumption`:
accounts start without a clash, tokens start unrevoked and with an owner; the
clock and the time to live are naturals. `GateAssumption`: a token lives at least
one tick. `ServerAssumption`: there is a connection and a section. `ListingAssumption`:
finitely many rows, stamps that are integers, a default no larger than the largest
limit. `FefoAssumption`: the parameters of the format are naturals and a request asks
for something. `PrecisionAssumption`: quantities are in the range of the format, and
the floats around the largest of them are so dense that 2 (n + 1) of their distances,
n the number of batches, are at most one decimal place. A float64 has 53 digits; for
quantities below a million with four decimal places the distance is 2^-33, which
admits some 400000 batches of one product. NULL is no value anywhere. TLC
evaluates them in every run of the module.

**Argument for `InventoryTx`.** None of the properties is inductive. That a commit does not
oversell depends on what the transaction checked statements earlier, so
`InductiveInv` adds what a transaction relies on in between: a call that changed
a row holds its lock, and the row exists and, for a sale, is ACTIVE
(`ChangesAreLocked`); a status guard once passed stays true (`GuardsHold`); what
`Complete` has queued are line items of its order (`InputsQueued`, without
which not even `TypeOK` is inductive); line items name existing rows
(`InputsExist`); rows not inserted have no history (`UnusedRows`). The proof
splits it into `TablesSafe` and one `CallSafe(c)` per call. A step of call c
before its commit changes no table and nothing of other calls (`QuietSafe`). A
commit must show that the tables stay safe and that every other call is
`Undisturbed`: what that call relies on is in rows it has locked, and c writes
only rows that c has locked or that no one uses yet (`CommitSafe`, `OthersSafe`).

Two further invariants are proved on top of it, and need it, but it does not need
them. `ExpiryInv` is about time: the expiration of a batch changes only when it is
received, created or completed, so that of an existing input never does, because
inputs are white-label goods or packaging and outputs finished goods (`KindsApart`);
what a completion has read is then still the soonest of its inputs (`SoonestKnown`)
when it commits, and that of every closed order is kept for ever after.

`MovementsInv` is about sums: what an open transaction has in `delta` is what its
request asks for (`Posts`). For a correction that is one change; for a completion
the sum over the line items it has dealt with; for a sale it is that what was
deducted and what remains add up to what was asked (`Accounted`), that it holds
exactly the batches of its snapshot it has passed, in the order of expirations
(`PassesInOrder`), and that it has emptied those it passed while they could be sold
before it took from a later one (`EmptiesInOrder`). Such an invariant of c survives
the steps of other calls because they cannot touch a row that c has locked
(`PostsStays`), and a batch c has passed without being able to sell it never becomes
ACTIVE again.

From the two follow, at the commit, `FEFORespected` and `ConsumeIsExact`
(`SaleFacts`), and that the commit is the one step of `Inventory` its request
stands for: each `...Implements` lemma names that step, and `OnlyCommitsChangeTables`
makes every other step a stutter. `Consume` of `Inventory` is free in which ACTIVE
batches it considers; the witness is what is still ACTIVE of the snapshot.

Sales do not deadlock (`ConsumptionsDoNotDeadlock`) because a sale waits for a batch
that expires later than every batch of that product it holds (`WaitsForLater`): in a
set of sales that wait for each other, the set of batches waited for would have no
latest one, and it is finite. Sums are recursive functions on the subsets of a finite
set; a section of `InventoryTxSteps` proves what a sum is by taking a minimal counterexample among the
subsets, which needs well-foundedness of inclusion and no induction scheme.

**Argument for `Fefo`.** A float near a quantity is a multiple of a power of two, and
rounding moves a number by at most half the distance of two floats there (`NearestIsNear`),
which the assumption bounds by `Slack`. What remains after some batches has been
rounded twice for each, once when the stock was read and once when it was subtracted,
and once for the request; so it is within `Drift` of what exact arithmetic would have
left, which is less than half a decimal place (`DriftIsSmall`). Two numbers that near
to decimals compare as the decimals do unless these are equal (`ComparesAsDecimals`),
and are formatted as them (`FormatsAsMeant`): hence the selections. When the decimals
are equal, either may be the smaller, and a residue above zero may remain, which is
why `InductiveInv` bounds what remains and says that while anything remains each batch
met is used up, and why the sale of `residue` is refused although the stock covers it.
That distances grow with the numbers needs that powers of two do, which is shown by
counting subsets (`PowersOfTwo`).

**Argument for `Catalogue`.** An abstract request takes effect when the call
commits, statements after it looked at the table. `InductiveInv` says why nothing
has changed since: a row that is being written is locked by exactly one call
(`WritersHold`); the row, as committed, is still the one that the call started
from, and what it has written is that row with what the request names
(`VersionsAsAsked`); and once the unique index has let a call pass, no other row,
committed or written by a call that has passed too, has its SKU (`SkusApart`).
So a commit is one request of `ProductTable` (`CommitSeen`), a refusal is true
when it is given (`RefusalSeen`, `ClaimSeen`), and every other step is a stutter
(`Unseen`). A commit starts from a row that is not deleted (`ProductChanges`),
which is `DeletionIsFinal`; the two theorems on deletion need no more than that
and a case split on who can give stock to a product.

**Argument for `Sessions`.** `Register` inserts an account before it commits, so
that no two accounts clash needs that accounts inserted but not committed differ
from committed ones and from each other (`InsertedApart`); that a refresh leaves
a successor behind needs that the token and the owner it read are still there
(`FoundStays`, `TokensOwned`). `DeadTokensStayDead` speaks of one call over
time and is kept by a predicate on that call (`Doomed`): it still has a dead
token to look up, or holds that of a deactivated account, or has failed. That
the account stays deactivated is an assumption of the model.

**Argument for `Gate`.** `CutOff` is kept by every step but the return of the
role: a token is issued only on a claim a call works on, a call takes up a claim
only from a live token or from the account as it is, and of neither is anything
left. The type invariant is needed for the claims of calls. For `AnswersDocumented`
it is enough that only the handler that is under way answers: with its success, with
500 to a failure, or with what `StatusIn` gives for one of its refusals. The last is
decided refusal by refusal, in three groups: those answered as listed, those answered
otherwise, and those passed over, where no success is a status of refusal.

**Argument for `Server`.** That `held` is exactly the requests inside a section
(`PoolSound`) makes the condition of Close one about transactions; that nobody is
left when Shutdown returned in time (`StagesSound`) makes an unanswered request
one that is overdue. The bound of the pool is by the cardinality of `held`.

**Argument for `Listing`.** A page skips `offset` rows of an order it does not
fix. `Progress` relates that to a single untied row: while it is to be shown, at
least `offset` newer rows are listed, unless one left; once shown, fewer, unless
one came. A page that contains the row moves it from one side to the other, and
one that does not leaves it on its side because the newer rows are skipped or shown
first. The proof is about the cardinalities of sets of newer rows, and holds
although the reader advances by what it asked for.

**Only model-checked.** Liveness (`EveryCallAnswered`, `EveryCallEnds`,
`ShutdownEnds`, `RevocationTakesEffect`), because fairness is beyond the prover. Every
invariant and every action property that a passing run checks is stated by a theorem.
The three runs that find a violation have no theorem.

## 5. Where code and documents differ

* `vacated` - docs/PROJECT_DESIGN.md:252 deletes a product if no active batches
  exist. SoftDelete counts and deletes in two statements; a lot received in
  between stays ACTIVE under a deleted product.
* `twice` - internal/services/auth_test.go:171 has the old token die when it is
  refreshed. Two refreshes that overlap both get a new pair for it.
* `residue` - docs/PROJECT_DESIGN.md:121 promises exact quantities without
  floating-point rounding errors. SelectFEFO subtracts float64, and what remains
  after the last batch may be a residue above zero, which is taken for a shortage:
  batches of 0.1 and 0.7 refuse a sale of 0.8. Residues of the other sign do no
  harm, and a residue that meets a further batch adds a selection of 0.0000, a
  ledger row that moves nothing.

These have no run, being a matter of one place or beyond what the code promises:

* README.md:11 promises that all stock movements are recorded as transactions.
  The stock a completed order produces (production.go:370) has no
  `stock_transactions` row; `LedgerBalance` holds because it counts
  `quantity_initial` for it.
* docs/PROJECT_DESIGN.md:153 wants a date on finished goods. An order that uses
  packaging only completes with NULL, even if it was created with a date.
* docs/PROJECT_DESIGN.md:260 has Consume reject if stock is insufficient. A sale
  that waited for a row (inventory.go:203) ignores lots received meanwhile, and may
  be refused although the stock sufficed at every moment.
* internal/routers/auth.go:128 verifies credentials by username or e-mail. If one
  account's username is another's address, the lookup (users.go:38) returns either
  row and the right credentials can be refused.
* docs/PROJECT_DESIGN.md:72 says that white-label goods are not directly sellable.
  Consume takes any product: it checks neither the type nor `is_sellable`.
* docs/PROJECT_DESIGN.md:273 has `/health` return the connectivity of the database.
  Its ping needs one of the ten connections, so it answers 503 while they all wait
  for rows.
* internal/services/fefo.go:22 expects expired batches last. The query
  (batches.go:87) orders by date, so expired batches are sold first; and
  internal/services/batches.go:112 speaks of non-expired batches where the
  query looks at the status only.
* internal/routers/inventory.go:93 documents a default of 100 rows; it is 20. A
  limit above 100 is granted as 20 without notice.

The annotations of the handlers list other answers than the code gives in ten
situations, the `Disagreements` of `Gate`. `AnswersDocumented` states that these are
all, as far as the handlers' own refusals go:

| Situation | Listed | Answered |
|---|---|---|
| Logout of a token that is not stored | 401 (`routers/auth.go:69`) | 204: `Logout` takes no row for success (`services/auth.go:199`) |
| Register with a password of at most 72 characters but more bytes | 400 (`routers/auth.go:109`) | 500: the validator counts characters (`schemas/auth.go:8`), bcrypt bytes |
| Adjust of a batch that is not ACTIVE | 409 (`routers/inventory.go:37`) | 201: the status is not looked at |
| Adjust below zero | 422 (`routers/inventory.go:38`) | 409: `ErrInsufficientStock` (`routers/auth.go:172`), as docs/PROJECT_DESIGN.md:301 has it |
| Consume of a product that does not exist, or is deleted | 404 (`routers/inventory.go:66`) | 409, or 201 if the deleted product has ACTIVE batches: the product is not looked up |
| Update to a SKU that is taken | 409 (`routers/products.go:115`) | 500: only Create recognizes the unique violation |
| Create of an order, an input of which is a batch of a deleted product | 404 (`routers/production.go:63`) | 500 (`services/production.go:146`) |
| Create of an order with packaging as an input | 422 (`routers/production.go:64`) | 201, as docs/PROJECT_DESIGN.md:81 has it |
| Complete of an order, an input of which is too small | 409 for the order's state only (`routers/production.go:95`) | 409 |
| `/health` without a connection to the database | no annotation | 503 |

A failure is answered 500 everywhere (docs/PROJECT_DESIGN.md:303), which no annotation
lists; a change after which `numeric(10,4)` cannot hold the quantity is one.

## 6. Not modelled

GetByID and Me only read. JSON, logging, JWT signatures, password hashing, the
regular expressions of the validators, the reading of the configuration,
migrations tooling, Terraform, CI and generated API documents hold no state the
properties speak of. The test fixtures are no part of the program.

`Gate` and `Server` are not composed with the modules of the services: a handler's
method may succeed or fail with any of its errors, and a section may end either
way, which covers whatever those modules do.

## 7. Plan

What is left: `EveryCallEnds` with a second row, for a composition of `Server` with the
lock order of completions.

## 8. Running it

    tlc -workers 2 -config traffic.cfg MCInventoryTx
    tlc -workers 2 -config shelf.cfg MCCatalogue
    tlc -workers 2 -config visits.cfg MCSessions
    tlc -workers 2 -config fefo.cfg Fefo
    tlc -workers 2 -config gate.cfg Gate
    tlc -workers 2 -config server.cfg Server
    tlc -workers 2 -config listing.cfg MCListing
    tlapm InventoryTxProofs.tla
    tlapm InventoryTxSteps.tla
    tlapm FefoProofs.tla
    tlapm CatalogueProofs.tla
    tlapm SessionsProofs.tla
    tlapm GateProofs.tla
    tlapm ServerProofs.tla
    tlapm ListingProofs.tla

`PROJECT.json` lists every run with its module, configuration and properties,
the mutant each property detects, and the source lines of each definition.
