# OrderHub: formal models

TLA+ models of the OrderHub services (Go, PostgreSQL, Redis, Kafka), the TLC
runs that check them on small instances, and theorems about them checked by
TLAPS. Paths below are relative to the repository; `inventory_service.go:300`
is a line of `orderhub-inventory-service/internal/service/inventory_service.go`
and so on.

## The system

| part | state | operations | talks to |
|---|---|---|---|
| inventory: stock and reservations | `inventories` (available, reserved), `reservations` (order, product, quantity, status) | Reserve, Release, Confirm, SetStock, AdjustStock, GetStock | PostgreSQL |
| inventory: catalogue | `products` | CreateProduct, UpdateProduct, DeleteProduct, GetProduct, ListProducts, BatchGetProducts | PostgreSQL |
| order | `orders`, `order_items` | CreateOrder, GetOrder, ListOrders, CancelOrder | PostgreSQL; BatchGetProducts of inventory for prices; an event bus that is nil in `main.go:65` |
| auth: sessions | `user_sessions`, `refresh_tokens` | Login, Refresh, Logout, LogoutAll, the cleanup jobs | PostgreSQL |
| auth: codes | `users`, `password_reset_tokens`, `email_verifications`, rate-limit keys | Register, request and confirmation of a password reset and of an email address | PostgreSQL, Redis, Kafka |
| auth: keys | `jwk_keys`, key caches, blacklist | SignAccess, ParseAndValidateAccess, BlacklistToken, GetJwks | PostgreSQL, Redis |
| auth: mails | batches in the memory of the kafka writer | SendEmail | Kafka |
| notification | consumer-group offset | Run: read a message, send a mail | Kafka, SMTP |
| gateway | none | HTTP handlers that forward to auth; middleware that introspects access tokens | auth |

Every service is a gRPC (or HTTP) server: each request runs in a goroutine of
its own, and the only state requests share is in the databases. Nothing in the
repository calls Reserve, Release or Confirm of the inventory service yet; they
are the service's public interface, and callers may overlap as they like.

What is hard: interleavings of SQL statements of concurrent requests under
READ COMMITTED (checks made before a transaction, rows listed without a lock,
unconditional updates); work that is partly inside and partly outside a
transaction; lock cycles; requests cut off half-way; int32 columns fed from
uint32 quantities; sequences of autocommitted statements in auth; Redis commands
that fail open; instances that make a signing key at the same time; mails whose
acknowledgement, or whose process, gets lost. The list of
hazards, each at its line, is in `PROJECT.json`.

What makes each part correct:

* stock: units are neither made nor lost; the reserved column is what the
  RESERVED rows add up to; no PENDING row is visible; a row is decided once;
  products with reserved units are not deleted; every call ends.
* orders: an order has its items and their total, or none; an order that was
  answered has them; a cancelled order stays cancelled.
* sessions: one refresh token leads to at most one successor; after Logout,
  LogoutAll or a password reset no token of before is accepted, and none
  derived from one; a session in use is not cleaned up.
* codes: a code works once, and for its time; codes come a minute apart; a
  password reset ends the logins of before.
* keys and tokens: one key is active; a token is accepted by every instance until
  it expires or is logged out, and not after; the client is told what happened.
* mails: a mail that was accepted is delivered, or its loss is accounted for;
  no mail holds up the others.

## Modules

`Inventory.tla` -- the core, described below.
`StockLedger.tla` -- what it promises about stock, which it implements.
`MCInventory.tla` -- its instances for TLC.
`InventoryProofs.tla` -- theorems about it that hold however callers overlap.
`InventorySerialProofs.tla` -- theorems about it when callers are orderly, the
refinement of StockLedger among them.
`Sums.tla` -- lemmas about the sum of a function over a finite set.
`AuthSessions.tla` -- sessions and refresh tokens, described below.
`SessionFamily.tla` -- what it promises about one session, which it implements.
`MCAuthSessions.tla` -- its instances for TLC.
`AuthSessionsProofs.tla` -- theorems about it.
`Orders.tla` -- orders and their items, described below.
`MCOrders.tla` -- an instance of it for TLC.
`OrdersProofs.tla` -- theorems about it.
`AuthCodes.tla` -- registration, one-time codes, rate limits.
`MCAuthCodes.tla` -- an instance of it for TLC.
`AuthCodesProofs.tla` -- theorems about it.
`SigningKeys.tla`, `AccessTokens.tla`, `Gateway.tla` -- the keys of the auth
service, the tokens signed with them, and the requests of HTTP clients; each
extends the one before.
`MCGateway.tla` -- an instance of the three for TLC.
`AccessProofs.tla` -- theorems about them.
`MailTopic.tla` -- the Kafka topic; `EmailProducer.tla` and `EmailConsumer.tla`,
which extend it, the two ends; `Mailing.tla`, which composes them.
`MailDelivery.tla` -- what the consumer promises, which Mailing implements.
`MCMailing.tla` -- an instance of Mailing for TLC.
`MailingProofs.tla` -- theorems about it.

### Inventory

One action is one SQL statement of a call (two where no other call can tell
them apart: TryReserve and the MarkReserved or MarkFailed that follows on a row
the transaction has locked already). A call is a goroutine; `pc`, `order` and
`todo` are its place in the handler, the order it is about and the items or
rows it has still to go through.

| code | model |
|---|---|
| a row of `inventories` | `inv[p]`, its newest version; `cinv[p]`, its committed version; `ilock[p]`, who has it locked |
| a row of `reservations` | `resv[<<o, p>>]`, `cresv`, `rlock` likewise; no row is status "none" (unique index, migrate.go:156) |
| a row of `products` | `product[p]`: unborn, active, inactive, deleted |
| `Reserve`, inventory_service.go:272-352 | StartReserve, CheckExisting (278-285), ReadProduct (296-320), UpsertPending (321), TryReserve (326-342), Commit |
| `Release`, 354-380 | StartRelease, ListByOrder, ReleaseStock, MarkReleased, Commit |
| `Confirm`, 382-404 | StartConfirm, ListByOrder, ConfirmStock, Commit |
| `DeleteProduct`, 180-206 | StartDelete (the checks), Delete (the statement) |
| `SetStock`, `AdjustStock`, `CreateProduct`, `UpdateProduct` | one action each: nothing they read before writing matters to stock |
| WithTx, an error | Rollback, within the action of the statement that fails |
| cancelled context, lost connection, killed process | Abort, at any point |
| PostgreSQL | Visible, StockFree, RowFree, KeyShared, WaitsFor, DeadlockVictim: READ COMMITTED snapshots, row locks held to the end of the transaction, the key-share lock of a foreign-key check, deadlock detection |

An UPDATE that waits for a row re-reads the committed version when the lock is
released, as READ COMMITTED does; a row that fails the WHERE clause in the
snapshot is skipped without waiting. A Reserve that runs into a refused UPDATE,
CHECK or foreign key rolls back.

Decisions about data. A product and its `inventories` row are created and
deleted together, so the model has one life for both. `ListByOrder` orders by
`created_at`; rows of one transaction have equal times, and the model lets
rows come in any order. gorm replaces a false `is_active` by the default of
the column (models.go:17) on insert, so products are born active. The currency
is always RUB by a CHECK, and the `p == nil` branch of Reserve is dead because
GetByID answers a missing row with an error (product_repo.go:50-56). Confirm's
`r.ID` is a reservation id; the model uses the row's key for it, and
`IdsAssumption` says that no product has such an id. Role checks, message
validation and replies are left out; a call they refuse changes nothing.

`Overlap` says whether callers may have two calls about one order in flight.
The code does nothing to prevent it, so both answers are checked. Callers that
do not, and that list a product once, are `OrderlyCallers`.

`StockLedger` is the promise to orderly callers: available units and an
entry per order and product, no transactions, no locks and no reserved column;
Count, Reserve and Release are one step each. IsLedger is the refinement, with
`available <- [p \in Products |-> cinv[p].available]` and `entry <- cresv`: a
commit is the step and everything else stutters. So a Reserve gets each line in
full or refuses it, fails as a whole or not at all, reserves only for orders
without entries, and a Release brings back exactly the units of its entries.
Confirm does not appear: it never writes off anything (run inventory_confirm).

### AuthSessions

Nothing in auth is a transaction, so an action is one autocommitted statement
of a call, together with what the call computes up to the next one.

| code | model |
|---|---|
| a row of `refresh_tokens` | `tokens[t]`: live, revoked or deleted, its user, session and expiry; `parent`, the token it was refreshed from, is history |
| a row of `user_sessions` | `sessions[s]`: live, revoked or deleted, its user, `last_seen_at` |
| a handler's locals | `call[c]`: the token it was given, the user and session it has read, the times it has computed |
| `Login`, auth_service.go:133-195 | StartLogin, CreateSession (169), InsertToken (183) |
| `Refresh`, 197-266 | StartRefresh, CheckActive (200), ReadToken (207-221), RevokeOld (227), TouchSession or SkipTouch (231-254), InsertToken (255) |
| `LogoutWithAccessToken`, 272-317 | StartLogout (278), RevokeOwn (301), CheckSession (308), CloseSession (313) |
| `LogoutAll`, 319-332 | RevokeAll (324), RevokeAllSessions (329) |
| end of `ConfirmPasswordReset`, 445-451 | RevokeAll or, when that statement fails, SkipRevokeAll; then RevokeAllSessions |
| `cleanup.go`, run by `scheduler.go` | CleanupExpiredTokens, CleanupOrphanedSessions, CleanupOldSessions |
| any error or cancelled context | Abort: the statements executed so far stay |

A call reads the clock where the code does: Login computes the token's expiry
first and inserts it last; Refresh compares with the time it began at and takes
the new expiry from the time at which it makes the new token. Time is a clock of
ticks. `Tick` lets no Login or Refresh last more than a tick; a tick is a
seventh of a token's life or more, where a request takes seconds. Every token
has a session, because Login gives it one and Refresh copies it. Touch of
`last_used_at` is left out (nothing reads the column), and so are the client's
data and the access token. StartLogin stands for a login with the right
password; a wrong one changes nothing. Any idle handler may start any call with
any token that was ever issued.

`disturbed` is history: the sessions about which two calls were under way at
once, those deleted by a cleanup job while a call was about to insert a token
for them, and those for which a failed statement was passed over (the `Touch` of
the session, the first statement of a password reset). The code protects none of
them, and the hazards say what becomes of them: two successors of one token, a
token whose session is gone. What it does promise for the others is
OneTokenPerSession and ActiveTokenHasSession; DeadTokensStayBarren holds for all.

`SessionFamily` is the whole promise about one such session, without statements,
calls or a clock: Open, Issue of one token for another, Spend, Close. A token has
one heir, is issued only when no other is accepted, and only while the session is
open; the session is never closed while one of its tokens is accepted; and when
it is over, it is over. SessionsAreFamilies is the refinement, one for each
session `s`: `life` is the state of its row (revoked and deleted are both
over), `usable` its tokens that Refresh would accept now, `heirs` the pairs of
`parent` and token. InsertToken is Issue, CreateSession is Open, a revocation, a
cleanup of tokens or a tick may be Spend, CloseSession and the cleanups of
sessions may be Close, and everything else stutters. When a session enters
`disturbed` its family goes astray, about which SessionFamily says nothing more;
run sessions_rotation shows what may happen then.

### Orders

An action is one SQL statement of a call, or the call to the inventory service.

| code | model |
|---|---|
| a row of `orders` | `orders[o]`: status, user, total, reason. Nothing sets CONFIRMED |
| the rows of `order_items` of an order | `items[o]`, once they are committed; until then `lines` of the call that inserts them |
| a handler's locals | `call[c]` |
| `CreateOrder`, order_service.go:41-160 | StartCreate (47), GetPrices (66), Begin (71-97), CreateRow (109), BulkCreate (117), UpdateTotals (121-129), Commit |
| `CancelOrder`, 218-264 | StartCancel, FindOrder (225-242), UpdateStatus (245), ShowOrder (248) |
| `GetOrder`, 162-182 | StartGet, ReadOrder and ReadItems (the SELECT and the Preload of order_repo.go:41), Answer |
| the constraints of migrate.go | Storable and RowAllowed |
| an error, a cancelled context, a killed process | Abort, at any point |

`Orders.Create` at line 109 is the method of the service's repository, not of
the transaction's: CreateRow makes the row visible at once, so others may read
and cancel an order that has no items yet, and it stays when the transaction is
rolled back. The UPDATE of the total is in the transaction; it locks the row
until COMMIT, which a concurrent cancellation waits for (RowFree), and its
effect is applied in Commit. Amounts are int64 and wrap; the database refuses
what does not fit an `int` column, negative amounts and repeated products.

Prices are whatever the inventory service answered; a product may be repriced
or deactivated before the order is written, which nothing forbids. A product
with another currency than RUB ends the call as a missing one does. Events are
left out, because main.go:65 passes no bus. `answered` is history: the orders
that a caller was told of.

### AuthCodes

As in AuthSessions nothing is a transaction: an action is one statement or one
Redis command of a call.

| code | model |
|---|---|
| a row of `users` | `users[u]`: none, unverified, verified |
| rows of `password_reset_tokens` and `email_verifications` | `code[r]`: fresh, consumed or deleted, its kind, user, the rate-limit key it was issued under, creation and expiry |
| keys `pwd_reset:<address>`, `email_ver:<user>` of Redis | `limit[k]`: when the key expires |
| the live refresh tokens of a user | `logins[u]`: whether there are any obtained with the present password, or with an older one |
| `Register`, auth_service.go:75-131 | Register (76-99), InsertCode (108-117) |
| `RequestPasswordReset`, 348-416; `RequestEmailVerification`, 460-538 | the actions of these names (the limit), FindNoUser, InsertCode, LimitRate or SkipLimitRate |
| `ConfirmPasswordReset`, 418-458 | Confirm (421), UpdatePassword (437), Consume or SkipConsume (441), RevokeAll or SkipRevokeAll (445-451), Purge or SkipPurge (453) |
| `ConfirmEmailVerificationRequest`, 598-621 | Confirm, UpdateIsEmailVerified (611), Consume or SkipConsume (616) |
| `Login`, `Refresh` of AuthSessions | StartLogin, StartRefresh, InsertToken |
| `cleanup.go` | CleanupExpiredTokens, CleanupConsumedTokens, one DELETE each |
| an error, a cancelled context | Abort; the Skip actions where the code logs the error and goes on |
| the process dies | ProcessDies, with all its calls |

A rate limit belongs to the address as it was spelled, an account to its lower
case: `Emails`, `Users` and `Account` keep the two apart, and CodesAreSpaced
speaks of keys. CheckRateLimit that fails lets the request pass. main.go:81
passes a nil `*RedisClient` as the interface when Redis is disabled, so
`s.cache != nil` holds all the same, the branches for a missing cache
(366-372, 487-494) are dead, and the calls that request codes panic: FindNoUser
has the same effect. SendEmail comes last and changes nothing here.

History says what the code does not protect: `unlimited`, the keys whose limit
a failure or an overlap of two requests got around; `past`, what became of each
code, and whether two calls had it in hand at a time or its consumption failed;
`leftover`, the users whose old logins a reset did not get at, because a
revocation failed or was cut off or because a login was inserting a token.

### SigningKeys, AccessTokens, Gateway

| code | model |
|---|---|
| a row of `jwk_keys` | `keys[k]` |
| `activeKid`, `privKey` of a provider | `active[i]` |
| the mutex of the provider and the locals of the call that holds it | `gen[i]` |
| `ensureActiveKey`, jwt_rsa.go:72-115 | Load (88-97), Generate and GenerateAnyway (99), Create (104), Snapshot, Clear and Commit (107: the two UPDATEs of jwk_repo.go:61-81), EnsureFails |
| `SignAccess`, 185-213; `ParseAndValidateAccess`, 228-307; `BlacklistToken`, 366-393 | SignAccess, Validates, BlacklistToken |
| a request | `req[r]`: the operation, the token it bears, where it is, the code and the bodies it was answered with |
| `AuthRequired`, middleware/auth.go:20-51 | AuthRequired |
| the interceptor, interceptor.go:35-80 | Interceptor |
| a handler of the auth service | Handle: any code of its set in AnswersOf; LogoutWithAccessToken and Sign where it touches keys or tokens |
| a handler of the gateway | CasesOf, StatusOf and Written: the bodies it writes for each code |
| an instance dies and starts again | Crash |

Random ids of keys are taken in order, which loses nothing because nothing
compares them. The look-up of the active key and the lock before it are one
step: no other step of the instance can come in between. Under READ COMMITTED
the first UPDATE of SetActive writes the rows that were active when it began and
still are when their locks are free (Snapshot, Clear); hence two instances that
make a key at the same time may both stay active, which `raced` notes. Public
keys are cached from rows that never change, so Validates asks the table. Redis
that fails, or is disabled, is `noRedis`: a blacklisted token then passes, as
jwt_rsa.go:297 wants it. That Redis loses its data is not modelled. A key that
Redis is told to keep for no time it keeps for ever, which is what happens to a
token blacklisted in the very moment it expires, and does no harm.

What the other handlers do to the database is in AuthCodes and AuthSessions;
here they answer with any code of theirs. "Internal" stands for Unavailable and
every other code the gateway does not tell apart. Of the access tokens that are
signed, `Tokens` are followed; others are signed too (Sign). `FailAlone` are the
handlers that answer Internal without anything having failed: see Disagreements.

### Mailing

| code | model |
|---|---|
| the topic | `topic`; Publish appends a message |
| `SendEmail`, kafka_producer.go:33-44 | SendEmail, Answer, TimeOut (the five seconds, or the context) |
| `kafka.Writer`, which goes on when the caller stops waiting | `batch[m]`, `attempts[m]`; Attempt: the message is appended or not, and if so the writer learns of it or not |
| what the caller was told | `told[m]`; OnError: only RequestPasswordReset returns the error (auth_service.go:413), the others log it |
| `Run`, kafka_consumer.go:42-68 | Read (45), Send, Refuse (each `continue`) |
| `kafka.Reader` with CommitInterval | `consumer.read`, the mark; Flush; `committed`, the offset at the broker |
| main.go:48-56 | Stop (cancel, Close with its last commit), Exit (200 ms later, whatever is in hand), Start |
| kill, power loss, a last commit that fails, a rebalance that takes the partition away | Kill, then Start |

Several partitions do not interact, so there is one. A message is appended once
per attempt whose acknowledgement was lost: such repetitions are messages of
their own, and RepeatsNeedKills speaks of how often one message is sent.

`MailDelivery` is the same service without marks and commits: a position, mails
handled one by one, ends that may pass over one mail, kills that may set the
position back. IsDelivery is the refinement, with `position <- Position`: the
mails before the one in hand, and the committed offset while the service is down.

## Runs

| run | instance | shows |
|---|---|---|
| inventory_serial | 2 products listed in opposite orders, 2 orders, 2 calls, MaxInt 2, no overlap | ReservedIsHeld, ReleaseIsComplete, IsLedger |
| inventory_race | 1 product, 2 orders, 2 calls, MaxInt 1, overlap, item lists that repeat a product, have a quantity of zero or wrap, FairSpec | TypeOK, NoCommittedPending, ReservedHasRow, RowsHaveProducts, StockConserved, EveryCallEnds |
| inventory_twice | 1 product, 1 order, 2 calls, overlap | violation of NoSecondReservation |
| inventory_confirm | 1 product, 1 order, 1 call | violation of ConfirmWritesOff |
| sessions_race | 1 user, 3 tokens, 2 sessions, 2 calls, TTL 1, MaxTime 1 | TypeOK, OneTokenPerSession, ActiveTokenHasSession, DeadTokensStayBarren, SessionsAreFamilies |
| sessions_live | 1 user, 3 tokens, 1 session, 1 call, TTL 2, Age 2, MaxTime 4, FairSpec | ActiveTokenHasSession, GarbageIsCollected |
| sessions_rotation | 1 user, 3 tokens, 1 session, 2 calls, MaxTime 0 | violation of RotationIsExclusive |
| orders | 2 orders, 2 calls, 2 products, a customer and an administrator, 6 item lists, MaxInt 2, MaxCents 7 | TypeOK, ItemsMatchTotal, AnsweredIsWhole, AnswerAddsUp, TotalIsFinal, CancelIsFinal |
| orders_empty | the same | violation of NoEmptyOrders |
| auth_codes | 1 user, 1 address, 2 codes, 2 calls, lifetimes 1, MaxTime 2 | CodesTypeOK, CodesAreSpaced, CodesWorkOnce, OldPasswordIsOut, DeadCodesStayDead, CodesLiveTheirTime |
| mailing | a mail of a reset and one of a registration, 2 messages, 2 attempts, 2 stops, FairMailingSpec | MailingTypeOK, OkIsPublished, RepeatsNeedKills, OneLostPerStop, EveryMailIsTaken, IsDelivery |
| access | 2 clients with 4 operations, 2 instances, 2 keys, 1 token, TTL 1, MaxTime 1, FairSpec | AccessTypeOK, ActiveKeyIsOne, NoFalseRefusal, AnswersAreTrue, LoggedOutIsRefused, EveryRequestIsAnswered |

Bounds. MaxInt stands for 2^31 - 1: the columns of the model have exactly the
values 0 .. MaxInt, quantities are 0 .. 2 * MaxInt + 1 as uint32's are, and no
state constraint is needed. Two calls suffice for every hazard listed: each is
about a pair of calls, and a wait cycle of row locks exists with two. Two
orders let one order take what another lost; two products let items be locked
in opposite orders and let a later item fail after an earlier one. Symmetry of
calls and orders is used in the safety runs only. ReservedIsHeld, ReleaseIsComplete
and IsLedger are checked and proved for orderly callers only, because the code breaks them otherwise: Reserve's look-up and
Release's listing lock nothing. inventory_race says what remains true then.

For the sessions, two calls again suffice for each hazard, and three tokens are
a login and two refreshes, of one token or in a row. sessions_race has time for
a token to expire while a Refresh of it is under way; deletion of expired tokens
and old sessions needs more time and is in sessions_live, where one call meets
the cleanup jobs between any two of its statements. A second user would only
own rows that no statement of the first one touches. Age is the 30 days of
cleanup.go:94, TTL the REFRESH_EXP of the configuration; TTL =< Age, which
nothing in the code checks, is AgeAssumption, and without it sessions in use are
deleted as old.

For the orders, each hazard is about a CreateOrder and one call that reads or
cancels what it has written so far, so two calls are enough; the second order
is made while the first exists. The item lists are an ordinary one, one whose
total wraps to a negative number, one that names a product twice, one with a
zero quantity, one with a quantity that neither its column nor its line total
holds, and the empty one.

For the codes, two calls and two codes are again a pair of each: a code used by
two calls, two codes of one key. Lifetimes of one tick and a clock of two let
everything expire before, while and after it is used. SomethingPromised cuts
states in which both rate limits were got around or the user's revocation
failed: there the properties say nothing any more. One user and one address do
for the same reason as in AuthSessions; the proofs have any number.

For the access tokens, two instances and two clients make keys at a time, wait
for each other's rows and for one mutex; two keys suffice for one to replace the
other. The clients of the run call Login, Refresh, Logout and
RequestEmailVerification, which are all that sign, log out or need a token;
the other six only forward, and the proofs cover them. GenerateAnyway needs a
key that is free. TTL is a tick, so a token can run out between the middleware
and the interceptor.

For the mails, two messages are one in hand and one behind it, or the same mail
twice; two attempts are a failed one and a last one; two stops are one that
loses and one that repeats.

Deadlock is checked in every run that says nothing else: the cleanup jobs of
auth are always enabled, in Orders a call can always be cut off, and a client
can always send another request. In Mailing everything ends when the bounds are
reached, so mailing does not check it.

Fairness (FairSpec) of Inventory. A goroutine keeps executing its call, so each call's Step
is fair; strongly, because a statement waiting for a row lock is queued by
PostgreSQL and is not overtaken for ever. The deadlock detector runs. Nothing
is assumed about callers: no call need start, and Abort need not happen.

Fairness of AuthSessions. The scheduler runs each cleanup job again and again
while the service is up (scheduler.go:50-63, :71-87), so CleanupExpiredTokens
and CleanupOrphanedSessions are weakly fair. Nobody need call anything, calls
need not end, and the clock need not move.

Fairness of Mailing. The loop of Run is a goroutine that runs (Read, weakly
fair); a mail in hand is sent or refused some day -- the SMTP conversation has no
deadline in the code, so this is an assumption about the mail server; the
committing goroutine of the reader runs (Flush), and a process that closes
returns (Exit). Nobody need start the service again: EveryMailIsTaken excepts a
service that is down.

Fairness of Gateway. Each request's goroutines run (Progress, weakly fair), and
of the calls that wait for the mutex of a provider each gets it some day (Ensure,
strongly fair), because waiters of a sync.RWMutex take turns. A statement that
waits for rows of jwk_keys waits for one transaction that ends.

Disagreements between the code and its comments or documentation, found while
modelling:

* inventory_twice: inventory_service.go:283 says a second reservation of an
  order is not allowed; the check is outside the transaction, and of two
  overlapping Reserves both pass. The second overwrites the row and takes the
  stock again: the trace ends with two reserved units and one row of one unit.
  (Callers that do not overlap never do so: the ledger reserves for orders
  without entries only.)
* inventory_confirm: inventory_repo.go:22 says Confirm does `reserved -= qty`;
  inventory_service.go:391 passes the reservation's id as a product id and no
  row is updated. (The repository test repository_test.go:394-406 calls the
  repository with a product id and does not see it.)
* sessions_rotation: the README of the auth service, line 9, promises rotation
  of the refresh token; auth_service.go:227 discards whether this call was the
  one that revoked it, and of two overlapping Refresh calls with one token both
  return a new pair.
* orders_empty: CreateOrder refuses an empty order (order_service.go:47,
  errors.go:10 "empty items"), but line 109 writes the order outside of the
  transaction: when the items are refused, the order stays without any.

Disagreements that no run shows:

* RequestPasswordReset for an address nobody has: the gateway documents 404
  (auth_handler.go:193), the service has ErrNotFound for it. GetByEmail answers
  nil without an error (auth_repo.go:31-34), so auth_service.go:361 does not see it and
  line 385 dereferences nil; grpc-go recovers no panics and main.go:100 installs no
  interceptor that does. FindNoUser of AuthCodes is the death of the process.
* Logout of a refresh token that is unknown or revoked: auth_handler.go:320
  documents 404 and auth_service.go:280 has a branch for it, but GetByHashOnly
  answers a missing row with an error, so lines 281 and 282 are never reached and the error
  itself is returned, which the handler maps to Internal: the client gets 500.
  Refresh has the same dead branch. `FailAlone` of Gateway says so.
* The README of the auth service (200, 202) says that Logout of one token needs no
  authorization; its interceptor demands an access token.
* Refresh at the gateway (auth_handler.go:171-174): the default branch does not
  return, and a second body of the same status follows the first
  (Written of Gateway).

## Proofs

`InventoryProofs.tla` proves, for any finite set of products, any orders and
calls, any MaxInt > 0, any item lists and with or without overlap:

* `TypeCorrect`: Spec => []TypeOK
* `PendingNeverCommitted`: Spec => []NoCommittedPending
* `ReservedStockHasRow`: Spec => []ReservedHasRow
* `RowsReferToProducts`: Spec => []RowsHaveProducts
* `StockIsConserved`: Spec => StockConserved

None is inductive alone. A committed row may be PENDING unless no transaction
can commit one, so the invariant follows where each call stands: `IInv` adds to
the properties that a row nobody has locked has one version
(OneVersionUnlessLocked), that rows never disappear (RowsStay), that a call in
the middle of an item has its row locked and that listed rows exist
(CallsInOrder), that every PENDING row has a call about to decide it
(PendingInFlight), that reserved units have a committed row or one written by
the transaction that took them (StockBacked), and that both versions of a stock
row have one total (SameTotal). One lemma per action shows that it preserves
IInv, one step per conjunct; lemmas such as WriteRowKeeps, WriteStockKeeps and
Undisturbed say once what writing under a lock leaves to the other calls.

Assumptions there: the named ASSUMEs of Inventory.tla but OrdersAssumption.
ProductsAssumption (finitely
many) makes the listing of an order finite, IdsAssumption is needed where
Confirm compares ids: with it ConfirmTouchesNoStock proves that no Confirm ever
changes a stock row.

`InventorySerialProofs.tla` proves, for any finite sets of products and orders,
any calls and any MaxInt > 0:

* `ReservedStaysHeld`: OrderlyCallers implies Spec => []ReservedIsHeld
* `ReleasesAreComplete`: OrderlyCallers implies Spec => ReleaseIsComplete
* `LedgerIsImplemented`: OrderlyCallers implies Spec => IsLedger

The hypothesis is about callers, not about the service, which relies on it:
nothing locks what Reserve looked up or what Release listed, and a product that a
Reserve lists twice is reserved twice under one row. inventory_serial is an
instance that meets it. The invariant `SInv` is preserved next to IInv and says
how far each open transaction has got:

* OneCallPerOrder: no two calls are about one order.
* LocksAreOwn: only calls that write hold locks, and on rows of their own order
  only. So a step of one call leaves everything another one counts on as it was
  (OthersKept), which is where the exclusion of overlap is used.
* Reserving: the order had no rows; each row the call has written is decided,
  but for the item in hand, and stock has been taken for the RESERVED ones, as
  much as they say (ReservingRow).
* Releasing: what is listed is still what is committed; each row that is done is
  RELEASED, and its stock returned if it held any (ReleasingRow). That the guard
  `reserved >= q` of the UPDATE never skips a row follows from ReservedIsHeld: one
  row is at most the sum (ColumnCoversRow).
* RowsArePositive: a row has a quantity, as its CHECK demands.
* ReservedIsHeld itself. It moves in a COMMIT only, which changes the rows of one
  order; SumChanges says what that does to a sum.

StepIsLedger is the simulation, step by step: COMMIT of a Reserve or a Release is
the ledger's step of that name (ReserveIsStep, ReleaseIsStep), a deletion or a
new count is Count, everything else stutters. The units available follow from
the units reserved, because a COMMIT leaves a product's total alone (SameTotal
of IInv).

SumFunctionOnSet is a recursive function inside an operator of the community
modules. `Sums.tla` proves what is needed of it by descent: a set of finite sets
that contains, with each set, a smaller one, and not the empty set, is empty
(Descent, from the well-foundedness of the naturals). Hence the recursive
function exists (SumExists), unfolds (SumUnfolds), is a natural number, changes
with one summand (SumChanges) and is at least each summand (SumAtLeast).

Assumptions: those of InventoryProofs, and OrdersAssumption (there are finitely
many order ids; they are UUIDs).

`AuthSessionsProofs.tla` proves, for any users, tokens, sessions and calls, any
MaxTime, and any TTL and Age with 0 < TTL =< Age:

* `TypeCorrect`: Spec => []TypeOK
* `OneToken`: Spec => []OneTokenPerSession
* `SessionKept`: Spec => []ActiveTokenHasSession
* `Barren`: Spec => DeadTokensStayBarren
* `FamiliesAreImplemented`: Spec => SessionsAreFamilies

The inductive invariant, also named IInv: rows refer to rows that exist and agree
on their user (RowsFit), a call's locals are what it read (CallsFit), Login and
Refresh are at most a tick old (InTime), every overlap is recorded
(OverlapsKnown), and of every session that is not disturbed (QuietFits): it has
one live token, an active token has a live session, the expiry of the token is
at most TTL + 1 after last_seen_at, and the only call about the session knows
what it may count on. That last part carries the proof: between RevokeOld and
InsertToken no token of the session is live, and the call stands for it. An old
session then cannot have an active token, because last_seen_at < now - Age gives
expires =< now with TTL =< Age. LocalStep and FrameStep say what steps of one
call leave to the others; one lemma per action uses them. Barren adds what a
step may do to one row (RowStep) and that a call goes past ReadToken only with
a token that is not revoked (CallsStep).

The refinement needs what IInv does not say: that a token still has no heir when
Refresh inserts one for it. `ChainInv`, preserved next to IInv (ChainInvariance),
says it of every session that is not disturbed: a token in use has none, and
neither has the token of a call between RevokeOld and InsertToken; a Login in
that place has a session without tokens. A token leaves the first kind in RevokeOld
and is then of the second, until its heir is there. StepKinds sorts
the steps by what they do to rows: insert a token, let tokens end (by statement
or clock), create a session, let sessions end; StepIsFamily maps each kind to a
step of SessionFamily, with InsertIsIssue for the first. That a session does not
end under a token in use is IInv of the state after the step.

`OrdersProofs.tla` proves, for any users, order ids, calls, prices, item lists
and widths of columns:

* `TypeCorrect`: Spec => []TypeOK
* `TotalsAgree`: Spec => []ItemsMatchTotal
* `AnsweredWhole`: Spec => []AnsweredIsWhole
* `ReadsAddUp`: Spec => []AnswerAddsUp
* `FinalTotal`: Spec => TotalIsFinal
* `FinalCancel`: Spec => CancelIsFinal

The order's row and its items are committed by different statements, so between
the two the call has to vouch for them. The inductive invariant says that it
does: no two calls make one order (Alone), and the locals of a call that makes
one (CallFits) are a non-empty list of lines, their total, and an order that
exists, has that total already and has no items yet. Then COMMIT changes nothing
in the row (CommitStep), which is why neither the total nor a cancellation made
in between is lost. The sum itself is never expanded: what matters is that the
row and the items go back to the same lines. Assumptions: BasketsAssumption
(item lists are sequences of products and quantities) and NoneAssumption.

`AuthCodesProofs.tla` proves, for any users, addresses, codes and calls and any
lifetimes:

* `CodesTypeCorrect`: CodesSpec => []CodesTypeOK
* `CodesComeSpaced`: CodesSpec => []CodesAreSpaced
* `NoCodeWorksTwice`: CodesSpec => []CodesWorkOnce
* `OldLoginsEnd`: CodesSpec => []OldPasswordIsOut
* `TheDeadStayDead`: CodesSpec => DeadCodesStayDead
* `CodesLiveOut`: CodesSpec => CodesLiveTheirTime

Four invariants on top of one another. Fit: the locals of a call are those of
the row it holds. Spaced: while the limit of a key is kept, at most one request
of the key is under way (OneRequest), every code of the key is older than that
request or the key in Redis vouches for it until a cooldown after its creation
(OldBefore, Vouched), and the codes there are lie apart (Apart). Once: a fresh
code that was used has exactly one call that is about to end it. OldOut: an old
login has a reset under way or is in `leftover`, and a call that is about to
insert a token knows which password it saw. Assumptions: the named ASSUMEs of
AuthCodes.tla; each lifetime is at least a tick.

`AccessProofs.tla` proves, for any instances, keys, tokens, clients, operations
and any TTL > 0:

* `AccessTypeCorrect`: Spec => []AccessTypeOK
* `ActiveKeyStaysOne`: Spec => []ActiveKeyIsOne
* `NoTokenIsRefusedFalsely`: Spec => []NoFalseRefusal
* `AnswersStayTrue`: Spec => []AnswersAreTrue
* `LoggedOutStaysRefused`: Spec => LoggedOutIsRefused

One inductive invariant of three parts. KeyInv: where each maker of a key stands
fits the table (GenFits), every provider's key is in it (ActiveIsKnown), and
unless `raced` there is one maker (MakesAlone), so that the snapshot of its UPDATE
holds every active row but its own. TokenInv: a signed token has a key that is in
the table, where it stays for ever (SignedIsKnown), and a token that was logged
out is on the blacklist for as long as it could pass (OutIsListed). ReqInv: a
request has the shape of the place it is at (Shaped), and its answer was right
when it was given (Judged); MutexHeld. What an answer is judged by -- a token is
live, or out -- only ever changes in one direction, so it stays right.
KeyNext and TokenNext say what any step does to keys and to tokens.

`MailingProofs.tla` proves, for any mails, attempts and bounds:

* `MailingTypeCorrect`: MailingSpec => []MailingTypeOK
* `OkMeansPublished`: MailingSpec => []OkIsPublished
* `RepeatsAreFew`: MailingSpec => []RepeatsNeedKills
* `LossesAreFew`: MailingSpec => []OneLostPerStop
* `MailingIsDelivery`: MailingSpec => IsDelivery

The invariants follow the position: messages beyond it were sent at most as
often as the consumer was killed, those before it once more; those before it
that were neither sent nor refused number at most `stops`. The refinement maps
each step to Enqueue, Handle, End, Crash or a stutter; Stop and Flush change
nothing that MailDelivery sees.

Only model-checked: EveryCallEnds, GarbageIsCollected, EveryMailIsTaken and
EveryRequestIsAnswered, because liveness under fairness is out of the prover's
reach. Every other property of a passing run is a theorem.

## Plan

In this order:

1. `Inventory` (done): modelled, checked, its invariants proved.
2. `StockLedger` (done): what reservations promise, in one atomic step per call;
   Inventory with orderly callers implements it, which is proved.
3. `Orders` (done): modelled, checked, its properties proved.
4. `AuthSessions` (done): modelled, checked, its invariants proved.
   `SessionFamily` (done): what it promises about one session that is not
   disturbed, which is proved.
5. `AuthCodes` (done): one-time codes and rate limits.
6. `SigningKeys`, `AccessTokens`, `Gateway` (done): keys made by several instances,
   tokens, and requests through the gateway.
7. `Mailing` (done): producer, topic, offsets, ends of the consumer; refines
   MailDelivery.
8. `Calculations`: pure operators (nextOffset, line totals in int64,
   parseDurationWithDays) against reference definitions.

The three refinements (StockLedger, SessionFamily, MailDelivery) are proved.

## Not modelled

Reads that change nothing (ListOrders, ListProducts, GetStock and the like),
validation of messages, role checks and paging of the inventory and order
services, logging, start-up and configuration, bcrypt, RSA, JWT and PEM
encoding, templates and SMTP, CORS, /health and /swagger of the gateway,
generated API documentation. Events of the order service: main.go:65 passes no
bus. RequestEmailVerificationByEmail, the methods Set, Get and Del of the
Redis client and the DeleteAllForUser of verification codes have no caller.
payment-service, status-ws and audit-service are named in the repository's
README but have no source. `orderhub-pkg-proto` (messages, `database.ConnectDB`)
is an external module; the repository itself sets no limit on database
connections, so the models have no pool.
