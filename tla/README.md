# TLA+ models of pro-ops

pro-ops is a NestJS back office for a distribution company: master data, an org
hierarchy, stock, transfers to distributors, sales orders, pricing. Every
request runs in a Node.js process over TypeORM and PostgreSQL (READ COMMITTED,
no `FOR UPDATE`, no version columns, no CHECK constraints). Several processes,
or several requests of one process, interleave at every `await`. What can go
wrong lies there: a request reads rows, decides, and writes rows later, while
others do the same; a transaction may fail at any of its statements. The
modules below model the requests statement by statement and say what survives.

## 1. The system: parts, state, operations

| part | state (tables) | operations | hard because |
|---|---|---|---|
| stock movements, `inventory-common.service.ts` | `inv_stock_balance`, `inv_lot`, `inv_txn`, `inv_txn_lot` | `applyBalanceDelta`, `allocateLotsFIFO`, called inside transactions of the three services below | lots are chosen from an unlocked SELECT; balance is tested after the upsert; row locks taken in line order |
| sales orders, `orders.service.ts` | `so_order`, `so_order_item` | create, edit, submit, approve (issues stock), reject | status is tested on a row read before the transaction; `save()` writes a stale copy back |
| goods receipts, `grn.service.ts` | `inv_grn`, `inv_grn_item` | create, update, delete, receive (brings stock in), post | received totals are absolute values from an earlier read; header copies as above; warehouse and SKU may change under a receipt |
| transfers, `transfer.service.ts` | `inv_transfer`, `inv_transfer_item`, AR invoice tables | create-and-dispatch, receive (brings stock in, bills, sets status) | as for receipts, plus a status computed from the rows one receipt sees |
| org hierarchy, `org-hierarchy.service.ts` | `md_org_hierarchy` (parent link and materialised path) | create, move, remove, import; subtree queries by path prefix | the path repeats the parent chain, and a move rewrites a subtree in four separate statements; an import goes on in an aborted transaction |
| outlet mappings, `outlet.service.ts` | `md_outlet_org`, `md_outlet_distributor` (effective-dated rows) | map one, map many, look up by date | a new row closes the one it overlaps, found without a lock; a duplicate aborts the transaction of a whole import |
| prices, `pricing.service.ts` | `md_price_list`, `md_price_list_item` (effective-dated rows), `md_price_list_scope` | lists created, edited, deleted, imported with their scopes; single scopes created; items replaced, amended and imported; the best price of a SKU on a day for a buyer | overlap is checked by earlier statements than the writes; replaced rows are revived; the best price is read by three statements, and computed twice, in TypeScript and in SQL |
| schemes, `pricing.service.ts` | `md_scheme`, `md_scheme_rule` | create, edit, delete, import; apply schemes to an order | edits save a checked copy; schemes and rules are read apart; nested loops with an early return; discounts are spread and stored by another service |
| distributors, warehouses, stock policies, `distributor.service.ts`, `md-warehouse.service.ts`, `distributor-stock-policy.service.ts` | `md_distributor`, `md_warehouse`, `md_distributor_stock_policy` | create, update, change of status, delete; make default | the parent and the owner are checked by earlier statements on a copy; one default per owner is kept by two UPDATEs |
| product taxonomy, SKUs, routes, outlets, company, `product-taxonomy.service.ts`, `sku.service.ts`, `route.service.ts`, `outlet.service.ts`, `company.service.ts` | one table each | create, update, change of status, delete; outlets in bulk | codes and references are looked up before the write; a copy is saved over what happened since; finders see deleted rows |
| users and authentication, `users.admin.service.ts`, `auth.service.ts`, `jwt.strategy.ts`, guards | `md_user`, `md_user_role`, `md_user_scope`, `md_role`, `md_permission`, `md_role_permission` | users, passwords, roles, permissions and scopes edited; login, refresh, logout; the check of every request | a session is stored after the row was checked; rights are deleted and inserted again while a profile is read by several statements |
| stock queries, AR, lists, reports | none of their own | reads | no state |
| seed, migrations, configuration, health | none | set-up and plumbing | not modelled |

Interaction. `OrdersService.approve`, `GrnService.receive`,
`TransferService.createAndDispatch` and `.receive` open a database transaction
and call the stock movements in it; orders call pricing while they edit a draft;
documents name a warehouse, an outlet and a distributor, looked up beforehand.
There are no messages, queues, timers or callbacks: the actors are requests, the
shared state is the database, and the only waiting is for row locks.

What makes each part correct:

- stock: a balance is never negative, equals its journal and its lots; lots go
  out in order of expiry; a request happens whole or not at all, and ends;
- orders: stock leaves once, with the approval, for the lines the order shows;
  only drafts are edited; no state is left that the life cycle does not have;
- receipts and transfers: what the documents say came in is what came in; never
  more than expected or dispatched; the status tells how much has arrived; what
  arrived is billed;
- hierarchy: the path of a node is its chain of parents, so that the queries by
  path and those along the parents return the same nodes; an import happens whole;
- mappings: on any day an outlet has one org node and one distributor; what an
  import reports as stored is stored;
- prices: a list has one price per SKU and day; a replaced list has the items
  asked for; the price an order is charged is the one the list of visible SKUs
  shows; an imported workbook is what is stored;
- master data: an owner has one default warehouse; distributors form
  trees with PRIMARY ones at the top; a deleted row stays deleted;
- accounts: a session goes on only if there was a login with the present password
  since, and of an active user, or one whose deactivation revokes nothing; no request is
  refused for a right its user has had all the time;
- schemes: what the lines are discounted is what the rules that are due are
  worth, as of one moment, and what the order stores; a rule keeps a threshold
  and a reward.

## 2. Modules

| module | what it is |
|---|---|
| `StockBook` | the promise of the stock module: on-hand quantities change by whole requests and never go negative |
| `StockLedger` | balances, lots and journal, one action per SQL statement, row locks, deadlock victims, rollback, crash |
| `StockLedgerProofs` | facts about sums over finite sets and about lists worked through from the first; its inductive invariants and theorems |
| `SavedEntity` | TypeORM's `save()`: which columns the UPDATE sets |
| `OrderLife`, `Orders`, `OrdersProofs` | the life cycle of an order; the requests; theorems |
| `GrnLife`, `Grn`, `GrnProofs` | the same for goods receipts; the second half of the theorems is about notes no two requests worked on at once |
| `TransferLife`, `Transfer`, `TransferProofs` | the same for transfers and their invoices |
| `OrgTree` | parent links and materialised paths of the org hierarchy, statement by statement |
| `OrgImport`, `OrgTreeProofs` | EXTENDS `OrgTree`: bulk import of nodes, and the readers of the tree in other services; theorems about both |
| `OutletMaps`, `OutletMapsProofs` | effective-dated mappings of outlets, one at a time and in bulk; the look-ups by date; theorems |
| `Prices` | items of price lists replaced, amended and imported, statement by statement; both computations of the best price |
| `PriceLists` | EXTENDS `Prices`: lists and scopes created, edited and imported while orders resolve prices from them |
| `Schemes` | schemes and rules edited and imported; the loops that apply them to an order, between two reads; what the order stores |
| `MasterRows` | how a service of the master data reads, checks and saves a row |
| `Catalog`, `Distributors`, `Sites` | what each of those services reads and checks: taxonomy and SKUs; distributors, warehouses and policies; routes, outlets and companies |
| `MasterData`, `MasterDataProofs` | their composition, and what their tables promise; theorems |
| `Accounts`, `AccountsProofs` | users, roles, scopes, permissions and sessions; the check of a request; theorems |
| `MC*` | instances for TLC |

`Orders`, `Grn` and `Transfer` EXTEND `StockLedger`: a worker that has opened a
stock transaction takes `StockLedger!Step`s in the middle of its own request, and
its document rows commit or roll back with them. Each also INSTANCEs its `*Life`
module under a refinement mapping. The other modules share no tables with them;
`Orders` takes the priced lines of an order as given, and warehouses and outlets
as there. `MasterData` EXTENDS the three modules of its services, which refer to
each other's rows.

### How the code becomes actions

A *worker* is a request with its database connection. An action is one SQL
statement, together with the code that runs between it and the next one (no
other request can see that code's local state). Reads outside a transaction,
reads inside one and writes are different actions whenever another request
could come between them. `req[w]` (or `pc`, `todo`, ...) holds the request's
locals: the entity it read, what it still has to do, what its transaction has
written and not committed. Committed tables are `onHand`, `lots`, `ledger`,
`so`, `items`, `grn`, `rows`, `tr`, ... READ COMMITTED is modelled by reading
committed rows overlaid with the transaction's own writes, statement by
statement. A row a transaction wrote is locked until it ends; a statement that
meets the lock is disabled; a cycle of waiters lets PostgreSQL abort one of them
(`DeadlockVictim`, `BreakDeadlock`). `Crash` and `Abandon` end a transaction at
any statement, as a lost connection, a process that dies, or an exception
does: everything uncommitted is gone.

`save(entity)` is two statements: SELECT the row by id, then UPDATE those
columns in which the entity in memory differs from it, whether or not the
request meant to change them. This is the source of most of what `Orders`, `Grn`
and `Transfer` show, so it is modelled in full (`SavedEntity`, `LoadRow`,
`WriteRow`, `diff`, `dirty`). `find` conditions of the form `deleted_at: null`
are ignored by TypeORM 0.3, so finders see soft-deleted rows (`Grn!Open`,
`Prices!ListItem`, `Sites`), and so is a condition on any other column that is null
(`Prices!Pick`): a scope imported with an empty column may amend a narrower one.

### Abstractions, all modules

- Quantities are natural numbers; the code's tolerance of 1e-7 vanishes on them.
- A stock key is a (warehouse, SKU) pair. In `Orders` and `Transfer` a line names
  its key; in `Grn` note and line change their warehouse and SKU.
- `rank` of a lot is its place in `ORDER BY expiry_date NULLS LAST, received_at`;
  the id breaks ties.
- `qty_reserved` is always changed by zero and is left out.
- Codes, names, remarks, actors and time stamps are left out, except that a time
  stamp makes `save()` write a row (`touch`), and that `submitted_at` and its
  like tell which way an order went. Document numbers are assumed unique.
- A price list's items are those of one SKU, and stand for their prices; their
  status, and names and remarks of lists, are left out. `active` of a list stands for its
  status and dates, its number for its code. A behaviour is about the items of given
  lists or about the lists and scopes of given items, which meet in `ShownIsCharged`.
- A row of an import of org nodes, with its statements, is one step: what it wrote
  is private until the commit. Status, level and distributors of nodes are left out.
- A row of master data keeps the columns that something is checked against: code,
  status, deletion, references, windows, ownership. Each behaviour of `MasterData` is
  about one table or two that refer to each other; each of `Accounts` about operations
  on the same rows (`Mixes`).
- A session is there (a hash is stored) or not. Which token it is of cannot be told:
  bcrypt reads 72 bytes, which all refresh tokens of a user have in common
  (`token.util.ts`), so each that has not expired matches. `loggedIn`, a history variable, has the
  password of the last login that was stored. Signing and hashing are a library's.
- `deleted_at` of schemes and rules is left out: no finder of the modelled
  operations looks at it. `active` of a scheme stands for status, dates and scope.
  Discounts are counted in fractions of a unit small enough to be whole.
- Who may do what (roles, scopes) is a check that ends a request before it
  writes; such requests are left out.

## 3. Runs

Passing runs, all with two workers (two requests at a time; more than two add
waiters to a lock but no new pair of a read and a later write):

| run | instance | shows |
|---|---|---|
| `MCStockLedger` | two keys, up to 4 lots, requests with part of a lot, several lots, both keys in both orders, one key twice, a receipt | balances never negative, equal to journal and (with lots) to lots; lots in order; implements `StockBook`; every transaction ends |
| `MCOrders` | one order on one key, stock for two issues | approved orders had stock issued; balances fall by approvals only; requests that do not overlap leave order, items and issues consistent; refines `StockLedger` and `OrderLife`; every request ends |
| `MCGrn` | one note of one line that an update can extend by a second; two warehouses and two SKUs between which note and line move; four requests | totals are backed by stock; stock only comes in on lines of the note, at a place the note named; refines `StockLedger` and `GrnLife` |
| `MCTransfer` | one transfer, two lines, two lots on the first | every unit that left or arrived is on the documents and billed; status; refines `StockLedger` and `TransferLife` |
| `MCOrg` | any tree of up to three nodes, a fourth to create, or one with a removed node that kept an old path; three requests, an import of one or two rows costing a request each and one more | subtree queries by path and by parents agree unless requests overlapped, broke off or made a loop; paths tell nodes apart; a move changes only paths through the node it moves; an import happens whole |
| `MCOutlets` | two outlets, three days, single and bulk mappings with duplicates | one mapping per outlet and day; look-ups by today find it; no row is closed without its successor; the past is not rewritten; every request ends |
| `MCPrices` | two price lists, two days, up to three items: replacements, amendments and imports that keep or set an end; or up to four scopes and four requests on lists, workbooks and orders | one live price per list and day; replaced items and imported scopes are what was asked for; charged and shown price agree |
| `MCSchemes` | two schemes, one of which stacks, and three rules; an order with a SKU twice; five requests | discounts add up to the rules due; rules keep threshold and reward; an order is priced as of one moment while at most one row changes |
| `MCAccounts` | two users, a role, a permission, two passwords; four requests from one of four mixes of operations | a session that outlives a deactivation, a new password or a logout came from an overlap, a deactivation broken off, or a status given as text; nobody is refused for a right kept throughout |
| `MCMasterData` | each table with one to three rows, three requests | one default warehouse per owner; no distributor is above itself (but as its own parent) or above a PRIMARY one; a deleted row comes back only by a save of which the read came before the deletion and the comparison after it |

`overlapped` (and `raced` for stock keys, `disturbed`, `contended` and `stale` elsewhere) is a
history variable: the documents two requests have worked on at the same time. Properties named `Uncontended...`
and the `Implements...Life` properties speak of documents outside it: they say
that the code is right as long as its requests do not meet on one document,
whatever they do on others and to the shared stock. What goes wrong when they do meet is
outside such a property: it is in the list below, and a hazard that is about it names the
property that says where it ends. The other properties hold under any overlap.

Runs that find a violation, each a disagreement between what the code says of
itself and what it does:

| run | what happens |
|---|---|
| `OrdersTwice` | two approvals of one order both read SUBMITTED and both issue its stock |
| `SchemesStored` | a scheme that does not stack applies: its result has its lines under `data`, the order looks for `lines`, and stores no discount |

What else the models contain, without a run of its own for each:

- Stock and documents. Two transactions that select the same lot both draw on it
  and leave `qty_available` below zero (`LotsCoveredUnlessRaced` says what remains).
  Two receipts of different lines leave a transfer PARTIAL though all has arrived; a
  rejection overwrites an approval; an edit replaces the items of a submitted order;
  two receipts of a line exceed what a note expects or a transfer dispatched (and bill
  it); an update of a note reverts POSTED to DRAFT; a receipt in progress brings stock
  in on a deleted note. A note whose warehouse or SKU changes after a receipt has stock
  in two places, its totals in one. An update upserts the lines of its payload and
  keeps the others, though `update-grn.dto.ts:57` speaks of replacing them.
- Hierarchy. Only the node itself is refused as its parent, so a node can be moved or
  imported below its own child, or below a removed node that kept a path through it. A move that breaks off after its first statement leaves
  paths that a second, equal request does not repair (the parent is already the one
  asked for). Removed nodes can be moved and be parents, and a node below a removed one
  may be found by its path although it is cut off from the root. In an import a node
  listed after its moved ancestor gets its old path written back.
- Mappings. One dated in the future ends today's as of its first day and makes it
  inactive at once; of several overlapping rows only one is closed. When the last line
  of a bulk mapping is a duplicate, PostgreSQL rolls the aborted transaction back at its
  COMMIT, while the answer reports the lines before it as OK; so does an import of nodes.
- Prices and schemes. Replaced items and deleted lists are still charged, since
  `deleted_at: null` is no condition, and not shown. Two amendments at once leave
  overlapping items, two edits of a rule a rule without a reward. If two rows change
  between the three reads of a price, it may be one that never was.
- Master data. A SUB distributor can lose its parent (null counts as not given when the
  parent is checked, and is saved); a PRIMARY one can become a SUB of itself. A
  default warehouse given to another owner stays a default there. Deleted
  sub-categories, SKUs, routes, outlets and companies can be updated.
- Accounts. A login or refresh that overlaps with a deactivation, a logout or a new
  password stores a session after it. `updateUser` takes a status for what `Number()` makes
  of it (`users.admin.service.ts:217`) and stores it (`:222`), but goes on to the session only if
  it `=== 0` (`:228`): the text `"0"` deactivates a user whose session stays, in spite of the
  comment at `:227`, "if deactivated => revoke refresh token". `SessionsAreCurrent` excepts
  these users (`unrevoked`). They cannot refresh while inactive; activated again, they can,
  without another login.

Each component's module states the shape of its variables (`*TypeOK`): theorems where
there are proofs, elsewhere documentation that holds on the instances above, on which no run
spends a property. The row locks behind the balances (`LocksProtectBalances`) are
left to the proof.

Every property of a passing run has a mutant in the module, next to the
definition it changes: the same definition with a plausible bug. It is never
part of a specification.

### Bounds

`MaxLots` bounds the rows of `inv_lot`; `Begin` admits a receipt only when there
is room, so no transaction gets stuck for the bound. One document per run: the
only thing two documents share is the stock, which `MCStockLedger` has in
full. `MaxRequests` of `Grn`, `OrgTree`, `PriceLists`, `Schemes`, `MasterData` and
`Accounts` bounds the requests of a behaviour: two that overlap, with one or two before,
between or after them that set the stage. `Ids` of `OrgTree` are its nodes: four make a
chain with a side branch, so that a move has a subtree, an ancestor and a stranger;
`MaxRows` of `OrgImport` are the rows of a payload, of which two can be about a
node and its parent in either order. `LastDay`, `MaxRows` and `Lists` of `OutletMaps`
bound the calendar, the greatest id of a row and the bulk requests; ids grow as the sequence
gives them, so that of two rows the later has the greater, which `EnteredInOrder` relies on
(only the very last id is used again if its row is rolled back). `MaxItems` of `Prices`,
`MaxScopes` of `PriceLists` and `MaxRows` of `Schemes` and `MasterRows` bound the tables; a
request starts only when its rows fit. Two days tell ranges that touch, nest and only
just miss; three items are what a payload of two and a revived row need; three
distributors make a chain. `Mixes` of `Accounts` are the operations of a behaviour:
those that share no row are not put together. `CHECK_DEADLOCK FALSE` stands
where the system may be done: a document rejected, all received or deleted with the
stock used up, the last request of the bound handled.

### Fairness

Strong fairness of each worker's next statement: PostgreSQL queues the waiters
of a row lock in order, so a statement that becomes possible again and again is
executed, and Node.js resumes a request whose answer is there. Weak fairness of
the deadlock victim: `deadlock_timeout` fires while the cycle stands. Nothing is
assumed about new requests or crashes. Liveness is checked where requests wait for
each other's rows in the order of their lines (`StockLedger`, `Orders`, `OutletMaps`).
`Grn`, `Transfer` and `PriceLists` wait in the same way; their runs are about safety
only, as are `Schemes`, `MasterData` and `Accounts`. `OrgTree` has no liveness to state: its
statements commit one by one, hold no lock between them and cannot wait.

## 4. Proofs

`StockLedgerProofs`, for any number of workers, keys, lots and any requests:

- `TypeCorrect`, `BalancesProtected`, `NeverNegative`, `LedgerAgrees`.
  A balance is guarded by a test *after* the upsert that changes it, so "not
  negative" alone is not inductive. `StockInvariant` adds that a balance row is
  held by at most one transaction from upsert to commit, that what it will
  commit is the committed value plus its pending delta, that a transaction past the
  test has a non-negative sum, and that its pending journal entries add up to its deltas.
- `LotsAgree`: the lots of a key add up to its balance. Between the journal entry
  and the last lot UPDATE of a line they do not, as far as the transaction sees;
  `LotsInvariant` says of each open transaction that its journal of a key is what
  it has inserted, less what it has taken, less what its plan still has to take, and
  that two transactions insert different lots.
- `LotsAreCovered` (no lot is overdrawn, nor the plan of a line short, unless two
  transactions worked on the key at once) and `LotsLeaveInOrder`.
  `PlansInvariant` says when a plan made from an unlocked SELECT still fits the rows:
  as long as the key is not raced, what a transaction sees covers what its plan has
  left to take, and lots before one it took from are empty.
- `BookIsKept`: `StockLedger` implements `StockBook`. `BookInvariant`: a
  transaction has posted a prefix of one request and has the rest to do, so that
  what a commit publishes is the whole of it.

`OrdersProofs`, for any number of orders as well:

- `IssuesAreLedgerSteps`: every step of `Orders` is a step of `StockLedger` or
  leaves its variables alone, so `Orders` inherits its theorems (`OrdersKeepStock`);
- `ApprovedOrdersIssued`: an order that counts as approved had its stock issued,
  whatever overlaps. The invariant behind it follows the stale copies: a copy in
  memory says "approved" only if the order was issued, or its own transaction is
  issuing it and has not committed;
- `StockLeaves`: balances fall by approvals only (`IssuesPosted`: an open transaction
  posts exactly the lines its approval read);
- `UncontendedAgree` and `OrderLifeIsKept`, the refinement of `OrderLife`, from
  `AloneInvariant` (below);
- `OrdersTypeCorrect`.

`TransferProofs`, for any number of transfers, lines, plans and receipts:

- `TransfersKeepStock`, by the same step of refinement (`TransactionsMatch` says which
  stock transaction belongs to which request), and `TransferTypeCorrect`;
- `UnitsAreAccountedFor`: `MovesPosted` ties an open transaction to the lines of its
  request, line by line the sums over documents and over keys agree;
- `TotalsAreBacked`, from `BillsInvariant`, which says of every copy in memory that it
  counts no more than was billed and what its own receipt brings, and no more than was
  billed on the lines it has still to go through;
- `UncontendedAgree` and `TransferLifeIsKept`.

`GrnProofs`, for any number of notes, lines, payloads and receipts:

- `GrnKeepStock` and `GrnTypeCorrect`. Note and line may change their warehouse and
  SKU while a receipt is open; the lines of its transaction are computed from
  copies, and `TransactionsMatch` says that these are the ones it holds;
- `StockComesInOnLines`: the balances are the initial ones and what came in on lines
  of notes, from `MovesPosted` and from `Unreceived`, that nothing has come in on a line
  that is not there;
- `TotalsAreBacked`, from `CopiesBacked`, the same as in `BillsInvariant` for the three
  kinds of request that hold copies of rows;
- `UncontendedAgree` and `GrnLifeIsKept`.

`AloneInvariant`, of the three kinds of document and of outlets. What is promised of a document no two
requests have worked on at once cannot be shown of rows alone: a request saves copies,
so it must be known that they still are the rows. It says that two requests on
one document have it marked as overlapped (`OneRequest`), and of a request on any other
one that its copies of the header and the rows are what is committed, plus its own
changes up to the statement it is at, and that the columns it is going to set are those
that differ (`Undisturbed`). A step of another request leaves this alone, since it is on
another document or marks this one. The refinements then go action by action:
a commit maps to the one action of the life cycle the request stands for, all else to a
stutter.

`OrgTreeProofs`, for any number of nodes and requests, and imports of any length:

- `PathsStayApartBesideImports`: no two nodes ever have the same path, so the prefix
  UPDATE of a move never takes one node for another, whatever overlaps, breaks off or loops;
- `PathsChangeOnlyByMoves` and, with imports, `PathsChangeOnlyAsAsked`: another node's path
  changes only by a move of a node on that path;
- `ImportsStayWhole`: a commit that changes the tree puts every row in its place, or the
  import refused it;
- `QueriesAgree`: the lists that select by path and those that follow the parents agree
  unless something overlapped, broke off or made a loop;
- `OrgTypesHold`.

Argument. Paths are also held in memory and saved later, so the invariant says of
every path, in a row or in an entity, and of the old path a move remembers, that it
ends in its node. The prefix UPDATE keeps it (`RegraftedEnds`): a path that begins
with the old path of n either is that path, and so is n's, or keeps its own end.
`ImportInvariant` says the same of what an import has read and written, that its rows
still to take are the last of the payload, and which of those taken are in place.

`QueriesAgree` rests on `Straight`: a live node whose parent is live (or which has none) has
its parent's path and itself. Between the four statements of a move this fails, so
`CalmInvariant` says for each step of a request that is alone what it knows: after
the first save all nodes but the moved one fit, and the new parent is not below it
(`InStep`). `RebuiltStraight` shows that the path UPDATE then makes all of them fit. Of an
import nobody disturbs it says that the table it sees is straight, and that the rows still to take
have the parent and the life they were read with. From `Straight`, without
induction, each of the two sets of nodes is closed in the way the other is least
(`StraightAgrees`).

This proof found the property false as it was stated, beyond the bounds TLC had: "a loop" was a
move below a descendant *by parents*. But a removed node keeps its path when
a node above it moves; if that node is later moved below the removed one, whose path
still goes through it, the UPDATE of the subtree rewrites the node's own new path a second time.
`LoopsUnder` now compares paths, and `MCOrg` starts from such a tree as well.

`OutletMapsProofs`, for any number of outlets, days, lists and requests:

- `RowsAreReplaced`: no row is closed without its successor, whatever overlaps, fails or
  is a duplicate. In the middle of a line it is, so `MapsInvariant` speaks of the table as
  each transaction sees it: a closed row has a successor there, or the line to be inserted
  next will be it, unless the transaction is aborted. It also ties the entity in memory
  to the row it was read from. Another's commit keeps this, because a row a
  transaction has read and another closed is closed by both (`OthersGrounded`);
- `MappedOncePerDay`, `PastStays` and `LookUpsAgree`, of outlets no two requests worked on
  at once. `AloneInvariant` (as above, per outlet) says of a transaction that has an outlet
  to itself that the row it found covers the day, that after it is ended none does,
  and that each committed row it wrote ends the day before a row it inserted or is about
  to insert. An earlier model gave out the smallest unused id; the proof showed that the
  order of ids then is not the order of entry, and that `OneRowPerDay` fails.
- `MapsTypeCorrect`.

`AccountsProofs`, for any number of users, roles, permissions and requests:

- `SessionsStayCurrent`. Sign-in decides on a row it read before it stores the session, so
  `SessionsInv` says what of that still holds: a login of a user who is not disturbed has
  the user's present password, and a refresh follows a stored login that had it (`WellSignedIn`),
  because whoever changes it, or the status, or clears the session, is in flight at the same
  time and has marked the user (`SignInsApart`);
- `KeptRightsAdmit`. `RightsInv` says that a replacement nobody disturbs works on all the
  rows of its user (`OldHeld`), so the table is what was last asked for (`LinksAsked`);
  `KeptRead` that the roles, and then the permissions, a profile has read cover what
  has held since it began;
- `AccountsTypeCorrect`, with names and rows of roles unique. The second needs
  `NewLinksApart`: also the rows of open transactions differ, from each other's and from
  the committed ones they do not delete, and `NumbersApart`, by which no transaction
  deletes what another has only just inserted.

`MasterDataProofs`, for any number of rows, codes and requests on all the tables:

- `MasterTypesHold`, whatever overlaps: what a column refers to is there, as rows are never
  removed, and no two rows have one code, although a code is looked for some statements
  before it is inserted or saved (the unique index refuses the later of two; a bulk insertion
  adds all of its rows or none, each once). `TypesInv` says the same of the entities that
  requests have in memory, whose references were read when they began, and that an entity
  read from a deleted row is deleted;
- `DeletedRowsStay`, whatever overlaps. A save's second statement sets a column that differed
  at the first to what the entity has (`Overlay`), and nothing else writes `deleted` over a row
  that has it; by `TypesInv`, which goes through the columns every service patches, the entity
  was read from a row that was live. A service that cleared `deleted_at` would break it (the
  mutant `UpdateOutletRevives`), as would an UPDATE of all columns (`WriteAll`);
- `OneDefaultEach` and `DistributorsStayTrees`, of a table no two requests worked on at once.

The last two are about what a request checked some statements before it writes. `MasterInv`
has four parts: `Shape` (what requests are made of, and that what is left of one ends in
its save or insertion), `Single` (requests on a table come one after the other unless the
table is marked, so that what one found to differ is still what differs), `Defaults` and
`Parents`. The last two say what the present request must still do before its row may
be a default one or have a parent: another default of the owner is there only while the
statement that unsets it is still to come, and a row that is to go under a PRIMARY distributor
has that reference still to be checked, or had it checked with nobody there to change it.
A loop would have to be closed by a distributor put under one below it; that one would
be PRIMARY and so have no parent. `DistributorsFormTrees` says it by groups (each has one whose
parent is not another of the group), which needs no path from child to parent.

Assumptions: `RequestsAssumption`, `LotsAssumption`, `InitLotsAssumption` (requests are
finite sequences of lines; initial lots and balances agree, no lot starts overdrawn),
`OneWayAssumption` (a transaction only issues or only receives), `OrderLinesAssumption`
(lines of orders move stock out), `OrderIdsAssumption` and the two called
`FiniteAssumption` (tables are finite, so that sums over them mean something),
`TransferAssumption`, `PostingsAssumption`, `GrnAssumption` and `ReceiptsArePosted` (payloads
are lists of distinct lines of positive quantities, and the requests of the ledger are
what they post; the two ends of a transfer are different places), `OrgAssumption` (ids
are positive), `ListsAssumption` (no list is empty or has two lines for an outlet and a
day, which the DTO check refuses), `AccountsAssumption` (the first account is one the seed
could have made), `FirstRowsAssumption` (a table starts with rows that have its columns
and refer to rows that are there, one for each code, one default per owner and distributors in
trees; empty tables do). TLC evaluates them in every run.

Induction over finite sets, which sums need, does not use the library's induction
theorems (they take an operator as a parameter): `StockLedgerProofs` takes a least
counterexample among the naturals, which a theorem about well-founded relations provides.

Model-checked only:

- prices (`OnePricePerDay`, `ShownIsCharged`, `StoredAsAsked`) and schemes (`DiscountsAddUp`,
  `UncontendedRulesReward`, `PricedAtOneMoment`). `Prices`, `PriceLists` and `Schemes` have
  no theorems yet. `Charged`, `Shown` and the discounts are sums and maxima over the
  rows; that two of them agree for all tables is a statement by induction over those rows,
  which the proof system cannot make. `OnePricePerDay` and `StoredAsAsked` could be proved in
  the manner of `OutletMapsProofs`;
- all liveness (`TransactionsEnd`, `RequestsEnd`), and the type invariants of the modules not named above,
  for which there is no run;
- the two violations (`IssuedOnce`, `DiscountIsStored`), whose counterexamples are TLC's.

## 5. Not modelled

Reads that feed no write (lists, reports, stock queries, AR), except the look-ups the
properties are about; checks of roles and scopes before a request does anything; audit
columns, names and remarks, formatting, Excel parsing, tokens and hashes. Change of warehouse or
SKU of an order or a transfer in progress. Two documents with one number. Distributors
mapped to an org node. Route plans have entities and no service. Seed, migrations,
configuration and health checks.

## 6. Plan

1. done: `StockBook`, `StockLedger`; `Orders`, `Grn`, `Transfer` over it, with
   their life cycles; proofs of the ledger and of orders.
2. done: `OrgTree`, `OrgImport` and the proof that paths end in their nodes;
   `OutletMaps` with its look-ups.
3. done: `Prices`, `PriceLists` and `Schemes`.
4. done: `MasterData` and `Accounts`.
5. next, composition: an order's lines priced by `PriceLists` and `Schemes` in `Orders`;
   the distributors an org node is mapped to.
6. done: proofs of lots and of the book, of transfers and of receipts, and that the three
   kinds of document keep their life cycles.
7. done: proofs of mappings, of accounts, of imports and of the queries of the org tree,
   and of master data. Next, a proof of one price per day.
