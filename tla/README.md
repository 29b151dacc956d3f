# A bar's ledger, jukebox and phones, in TLA+

A verification development kept beside the code of *coffee-music*: the system
of a bar where customers scan the QR code of their table, order, pay, and ask
for songs. It models the parts whose correctness depends on the order in which
overlapping calls, messages and failures arrive: the table service (sessions,
orders, bills), the shelves, the music queue and its limits, the cloakroom, the
page that plays the music and the page on the customer's phone. TLC checks small
instances, TLAPS proves the main invariants for every size.

Paths are under `src/apps/backend/src/modules/`, or under `src/apps/frontend/` where
they begin with `app/`, `components/`, `lib/` or `store/`.

## 1. The system

The backend is one NestJS process in front of PostgreSQL, through Prisma. It
keeps no state of its own that matters: every handler reads rows, decides, and
writes. What makes it hard is that a handler is *not* one atomic step. Nearly
every service method has this shape:

1. `findUnique` the rows and validate them, outside any transaction;
2. `prisma.$transaction(...)`, at PostgreSQL's default READ COMMITTED;
3. inside it, sometimes a *guarded* `updateMany` (`where: { id, status }`) whose
   count is tested, and otherwise an `update` by id that writes whatever it finds;
4. after the commit, socket events or a further write.

Between 1 and 2 any other call may commit. A guarded update repeats the decision
at the moment of writing; an unguarded one trusts what was read.

### Inventory

| component | state it keeps | operations | what is hard | what makes it correct |
|---|---|---|---|---|
| Table sessions (`table-sessions/`) | `TableSession` | open, close, requestPayment, cancelPaymentRequest, voidSession, markPaid | many customers open at once; checks before the transaction; counts that lock nothing; `void` is not `closed` for most checks | one live session a table; no closed session with an unpaid bill; nothing pending while the bill is asked for |
| Order requests (`order-requests/`) | `OrderRequest`, `Order`, `Product.stock` | create, accept, createAndAccept, updateItems, reject, cancelByCustomer | staff and customer decide the same request at once; items read before the transaction | an order for exactly the accepted requests; a decision is final |
| Orders (`orders/`) | `Order` | updateStatus over a transition table; a delivery bills, a cancellation restocks | two devices move the same order | billed on delivery, once, at the accepted price |
| Consumptions (`consumptions/`) | `Consumption`, the cached `TableSession.total_consumption` | createAdjustment, recordPartialPayment, refundConsumption | double refunds, two cashiers, totals cached in two rows | the total is the sum of the lines; a line is refunded once; no overpayment |
| Table projection (`table-projection/`) | the counters and pointer of `Table` | eight `on...` handlers, called inside the transactions of the others | increments and decrements spread over the services; reset by table id | the table shows its live session, with its counts and total |
| Tables (`tables/`) | `Table` | updateStatus by hand, createBar, deleteBar | writes past the projection | it does not disturb the above |
| Music queue (`queue/queue.service.ts`) | `QueueItem` | create, playNext, advanceToNext, skipAndAdvance, finishCurrent, skip, adminCreate, adminPlayNow | several clients move the queue; positions rewritten from stale reads | one song plays; waiting songs keep their turns; a song that is over stays over |
| Playback state (`playback/`) | the one row of `PlaybackState` | setFromQueueItem, setBuffering, setIdle, setPaused, setPlaying | written after the queue's transaction | the player is pointed at what plays |
| Fairness (`queue/fairness.service.ts`) | none | score, insertion position | one scan with running counts | no two neighbours of one table when it can be avoided, nobody starves |
| Song requests (`queue.service.ts`: create, computeSongCreditsForTable) | counts over `QueueItem`, orders of the visit | create's checks, then its transaction | limits and credits checked before the transaction, while songs end, are skipped, visits end | a limit is exceeded only by requests that overlapped |
| Stock and recipes (`products/`, and the stock code of the three above) | `Product.stock`, movements, recipes, `OrderItemComponent` | accept, cancel, refund, record, replaceForProduct | an absolute write from a read beside guarded decrements; recipes change between sale and return | never negative; what comes back is what went out; every bottle accounted for |
| Luggage (`luggage/`) | `LuggageTicket` | create, deliver, incident, updatePayment | read, check and write in separate statements | a token is out once, a ticket ends once, luggage leaves paid |
| Player page (`app/player/page.tsx`, `components/music/AdminPlaybackPlayer.tsx`) | what it believes, a ref, a YouTube frame | start when idle, follow the state, advance at the end of a video, retry | late answers and messages; a ref nothing watches; calls repeated after a lost answer | every song asked for has its turn; no song is cut off |
| Customer's phone (`app/mesa/[id]/page.tsx`, `lib/socket/`, `lib/api/clients.ts`) and realtime gateway (`realtime/`) | the session shown, a token, a socket and its room | load, open, events, reconnect, refresh and replay | token, socket and session change in a fixed order; events go to rooms the phone is just leaving | it hears the visit it shows and shows no visit that is over |
| House playlist (`house-playlist/`) | items, categories, the active category | edit items and categories, activate a category, pick the next house song, stamp it | statements without a transaction: a count before a setting, five reads of a pick while the list changes | silence only when nothing can be played; no early repeat; the active category exists |
| Access code, extra income | one table each | rotate and validate; record and reverse | check-then-act | one current code |
| Auth, music search, audit log, sales insights, middleware, seeds, staff's screens | see `PROJECT.json` | | no shared state the others depend on, or read-only | |


### How they interact

`order-requests`, `orders` and `consumptions` all write `TableSession` totals and
all call `table-projection` with their own transaction, so that the four act on
the same rows; that is why they are one composed specification (`Ledger`) and not
four. `queue` calls `playback` after its transactions and `fairness` inside
`create`. The queue reads the ledger only for scores and song credits (the
delivered orders of the session). `orders`, `order-requests` and `consumptions`
move stock inside their transactions; nothing in the ledger depends on how much
there is, beyond an accept that may fail, so `Stock` is a specification of its own
whose orders are only their lines.

Every service emits socket events after it has written, to the rooms of the
gateway. No handler of the backend reads an event; the pages do. The player page
closes the loop of the music: it hears the playback state and sends the call that
changes it. The phone keeps a session token in its storage, an HTTP client that
renews it and a socket whose handshake carries it: three places that must agree
on the visit. Those two loops are `Player` and `Phone`, whose server is a few
atomic handlers, since the other modules take these apart.

## 2. Modules

| module | what it is | code |
|---|---|---|
| `BarState` | rows, calls in flight, the projection handlers as functions on a table row | `prisma/schema.prisma`, `table-projection.service.ts` |
| `TableSessions` | open, close, requestPayment, cancelPaymentRequest, voidSession, markPaid, and the tables' status by hand | `table-sessions.service.ts`, `tables.service.ts` |
| `OrderRequests` | create, accept, createAndAccept, updateItems, reject, cancelByCustomer | `order-requests.service.ts` |
| `Consumptions` | adjustments, partial payments, refunds | `consumptions.service.ts` |
| `Orders` | updateStatus, with the bill lines of a delivery | `orders.service.ts` |
| `Ledger` | composes the four, states what holds of their rows whatever overlaps | |
| `Overlaps` | `Ledger` with history variables that follow each call, and what goes wrong only by which late writes | the checks before and the writes in the transactions of the four |
| `OrderPromise` | abstract: what an order goes through, what it costs and what the bill shows for it | |
| `Ledger_proofs` | the theorems about `Ledger` and `Overlaps` | |
| `Sums`, `Sums_proofs` | the sum of a function over a finite set, and what is true of it for every one | |
| `PlaybackQueue` | the queue's transactions statement by statement, and the playback state | `queue.service.ts`, `playback.service.ts` |
| `Jukebox` | abstract: songs wait, one is on, a song that is over never returns | |
| `PlaybackQueue_proofs` | the theorems about `PlaybackQueue`: with one driver, and about turns with any number | |
| `Stock` | shelves, recipes, the components an order remembers, movements | `order-requests.service.ts` (622-881), `orders.service.ts` (restoreStock), `consumptions.service.ts` (restoreStockForRefund), `inventory-movements.service.ts`, `product-recipes.service.ts` |
| `Stock_proofs` | no shelf below zero, exact returns, every unit accounted for | |
| `Fairness` | findInsertionPosition as a function of the queue, and what a place promises | `queue/fairness.service.ts` |
| `SongRequests` | create's checks and placement against everything that moves the counts; the button of the table page. Extends `Fairness` | `queue.service.ts`, `app/mesa/[id]/page.tsx` |
| `SongRequests_proofs` | the promises of `Fairness` for every queue; limits, credits, fair places and an honest button in every reachable state | |
| `Luggage`, `Luggage_proofs` | the cloakroom and its properties | `luggage.service.ts`, the migration with its partial index |
| `HousePlaylist` | the house list, its categories and the pick, statement by statement | `house-playlist.service.ts`, `queue.service.ts` (861-899) |
| `HousePlaylist_proofs` | silence, early repeats, the active category | |
| `Player` | the page that plays, the YouTube frame and the server between them | `app/player/page.tsx`, `AdminPlaybackPlayer.tsx`, `queue.service.ts`, `playback.service.ts` |
| `Phone` | the customer's page, its client, its socket, the gateway and the visits of its table | `app/mesa/[id]/page.tsx`, `useSocket.ts`, `clients.ts`, `realtime.gateway.ts`, `table-sessions.controller.ts` |
| `Phone_proofs` | a settled phone is in its room, and shows no visit that is over | |
| `MC...` | sets of values and symmetry for TLC | |

### From code to actions: the ledger

`call[c]` is an HTTP call being served: the statement it stands before (`step`),
the row it is about (`id`) and the value it has read or been sent (`amt`). A
method whose validation may be stale when it writes is split, `XRead` then
`XCommit`, with a step for each count that the transaction makes before its first
write (`CloseCount`, `MarkPaidCount`, and the two counts of `requestPayment` in
either order, because they run in a `Promise.all`). A method whose guarded update
repeats everything it validated (`reject`, `cancelByCustomer`, `updateStatus`) is
one step: the read adds nothing. `accept` and `refundConsumption` keep their two
steps, since they also use what they read (the items, the session's status).
`open` is one step: the partial unique index makes the loser of the race fail.

The writes of one transaction are one step. They are updates by key, the totals
are atomic increments, and nothing reads in the middle. Every call in flight may
`Fail`: a refused check, a guarded update that matches nothing, no stock, a
database error, a crash; the transaction rolls back, which is also why a crash of
the process needs no state of its own.

Deliberate abstractions:

- the items of an order stand for what they cost (`Amounts`), and an order has
  one bill line; in the code it has one for each product, all written in the same
  transaction. A change of a product's price therefore cannot be seen;
- amounts are integers; the rounding to cents is left out;
- no call fails for want of stock in particular: `Fail` stands for that too;
- the rows `TableSession`, `OrderRequest`, `Consumption` come from pools, which
  bounds how many are ever created. This is the only bound on counters, and the
  reason for `CHECK_DEADLOCK FALSE`: a run stops when a pool is used up;
- `closing`, `ordering` and the other session statuses that no code assigns are
  left out.

Of those split methods only some repeat a check when they write (`StillPending`,
`NotReversed`); the others write whatever has happened since they read. `Overlaps`
asks what the checks are still worth then. It adds three history variables, written
beside every step (`Observe`) and read by none:

- `since[c]`: what has happened since to what the call of `c` has read, of the things
  that would have made it refuse or do something else (`Upsets`): its session left
  the live statuses, was closed, was paid, had its bill asked for, got a pending
  request, an active order, a higher or a lower total; its request was edited;
- `late`: the calls that wrote in spite of it, with what they missed and the row
  they wrote for. A call that fails, or finds its guard false, writes nothing;
- `quick`: the requests that `createAndAccept` has made.

### From code to actions: the queue

A *driver* is a client that moves the queue: the player page and the staff's
panel. Its transaction is split where another may slip in: `See` (the snapshot of
the first `updateMany`), `Retire` (it has its rows, and `compactPositions` takes
all other active rows until the commit: `held`), `PickRow`/`PickNone`
(`pickNextPlayable`), then `StartRow`, `StartHouse` or `StartNothing`, which make
the writes visible at once, as a commit does. `TellPlayer` is the write of the
playback state after the commit. `Lose` ends a call at any point: before the
commit it is a rollback, after it the process dies before the player is told.
A guest's `create` reads the waiting songs (`ListPending`) and writes all of them
back with its own among them (`Insert`), at any place the fairness algorithm
might choose.

Abstractions: songs, tables, scores and times are left out. A house song is
created and started in the same transaction, so no house song ever waits, and
`pickNextPlayable`'s case for one is not modelled. `compactPositions`'
read and its updates are one step, and so are the two reads of `create`.
Two transactions that update the same rows in opposite orders deadlock in
PostgreSQL and one is aborted: that is a `Lose`. A row that is over keeps
position 0, as nothing reads its position again. `setPlaying` may come at any time.

### From code to actions: the shelves

`Accept` is the transaction of `accept`: a plan (`Plans`, one split of the recipe
for each composite line, as the customer chose), a decrement of each product
guarded by the stock there is (`InStock`), and the rows an order will be returned
by (`OrderItems`, with the last-line-wins map of `createOrderItems` in
`SameProduct`). `CancelOrder` and `Refund` give back from those rows. `record` and
`replaceForProduct` take two steps each: `record` reads and checks inside its
transaction, but locks nothing, and `RecordCommit` writes the number computed in
the first step; `replaceForProduct` checks before its transaction. Left out: the slots of a
recipe are merged into one; the two lines of an order that name one product have
equal quantities, because a bill line has the quantity of its order line and the
ratio of a refund is then one; preparing and ready are `accepted`, as neither moves
stock; the plan is made and taken in one step, while a recipe replaced between
the two in the code changes only which of the two menus the customer bought from.

### From code to actions: requests for songs

`Check(p, t)` is all that `create` does before its transaction, `Place` the
transaction. Everything else that moves the counts is one step: the five ways a song
ends, the staff's songs, deliveries that earn a credit, visits that end and begin.
`played`, `earned` and `visit` stand for the rows `computeSongCreditsForTable`
counts. The code has `MAX_SONGS_PER_TABLE = 5` (a product note still says 2); here
it is the constant `MaxSongs`, and TLC uses 1. Scores are any numbers. The checks
for duplicates, length and recently played only refuse.

`findInsertionPosition` scans the queue once, with counts of what it has passed.
Every branch that goes on counts the song it passes, so the counts are those of a
prefix and the result is the first place where `StopsAt` holds: no recursion, which
is what lets TLAPS prove about it.

### From code to actions: the luggage

Each of `deliver`, `incident` and `updatePayment` is a read with its checks and a
write, in two statements without a transaction. The write of the first two repeats
the test of the status (`StillActive`); the write of the payment repeats nothing.
`create` meets the partial unique index (`NumberFree`).

### From code to actions: the house playlist

No method of this service opens a transaction, and `pickNextHouseSong` does not use
the queue's. So every statement that another may come before is a step: the five of
a pick (`PickCategory`, `PickRecent`, `PickPool`, `PickAny` when the pool is empty,
`Load`), the stamp, the count and the write of an activation, the read, the clearing and the
deletion of `deleteCategory`. The edits of the list read only whether the row exists,
and are one step. `played` is the set of items with a `last_played_at` and `newer` says
which of them were played after which; the random choice is any member of the pool. Rows come from pools; a slot is
used again when nothing speaks of its old row any more. `sure`, `seen`, `later` and
`crossed` are history: the songs that could be played at every step of the pick and at
some step of it, what was played since an item's turn, and the categories whose
activation overlapped their deletion. One pick is under way at a time, as with the one
driver of `PlaybackQueue`. Left out: titles, sort order, renaming and the validation
of a new song against YouTube.

### From code to actions: the player page

The page's state is what it believes (`page`), its two first reads (`load`), one call
of `advanceToNext` held back by a ref (`call`), its calls of `setPlaying` (`nudges`)
and the frame (`video`, with `signals` not handled yet). A handler or an effect with
the render that causes it is one step; so is each call on the server. Messages keep
their order, calls and answers do not. Failures: a call lost before or after the
server has seen it, with the page's retries; a server that stops between the
transaction and the playback state; a lost `setPlaying`; a lost message; a video that
breaks. What the staff does from another screen counts as a trouble as well.
Assumed about time (`Told`): a song takes longer than thirty seconds, than a call
and than a message. The page has one window and is not reloaded. `mishap` is history:
it says why the music may have stopped. `EveryTurnComes` promises nothing once
one of these has happened: the staff has paused the music, all tries of a call
failed, a message was lost (this page does not ask again when its socket is back),
a first read was answered with an old state, the effect ignored its cue because a
call was in flight, `setPlaying` came when no song was on, a video is broken or
follows itself (the frame is not reloaded, because the effect that loads it depends on
the video and not on the song). Each is a way the code lets the music stop.

### From code to actions: the phone

One phone at one table. `visit` numbers the sessions of the table; a session token
*is* the visit it names, so a token of an earlier visit is one the guard refuses.
`calls` holds the calls in flight: the first load, `open`, the read after a
reconnection, and hydrations that the server has refused, with the one refresh they
share and the one replay each may have (`__retried`). A hydration that is served
changes nothing that is modelled and is left out; so are the contents of the bill. The
socket: `conn`, the token of its handshake (`auth`), packets (`leave`, `join`)
and events, each in order. `SameSocket` is the effect of `useSocket` run again on a
connected socket, `FreshSocket` is `reconnectSocketWithFreshAuth`. Closing a visit
is two steps, its commit and its announcement, and other news may come between.
Troubles: a lost connection, a reload, a failed call. Tokens do not expire.
`unheard` is history: the visits whose end went out while the phone was between
two rooms, or was applied to a page that did not show them yet, and which it has
not asked about since.

## 3. What is checked

The passing runs (TLC explores each completely, within a few minutes):

| run | instance | shows |
|---|---|---|
| `orders` | 1 table, 1 session, 2 requests, 3 bill lines, 2 overlapping calls, 2 prices | `Linked`, `OrderIffAccepted`, `BilledOnDelivery`, `RefundedOnce`, `AcceptedAsAsked`, `DecisionsAreFinal`; the order flow implements `OrderPromise` (`KeepsPromise`) |
| `payment` | 1 table, 3 sessions, 1 request, 2 overlapping calls, statuses set by hand | `OneActiveSession`, `CurrentIsLive`, `OpenIsShown` |
| `visit` | 1 session nobody closes, 2 requests, 3 bill lines of both signs, 2 overlapping calls | `TotalIsBill`, `ProjectionMirrorsSession`, `NoOverPayment` |
| `overlaps` | every endpoint but three that add nothing here, 1 session, 1 request, 2 bill lines, 2 overlapping calls | `NoLimboSession`, `NothingPendingWhileAsked`, `NoActiveOrderWhenPaid` |
| `queue` | 3 songs, 1 driver, 2 guests | `TypeOK`, `OnePlaying`, `PlayerToldTheTruth`, `TurnsKept`, `DoneIsFinal`; the queue implements `Jukebox` (`PlaysLikeAJukebox`) |
| `stock` | 2 bottles and a bucket mixed of them, 1 order of up to 2 lines, 2 movements, 2 calls of the panel | `StockNeverNegative`, `ReturnsExact`, `StockAccountedFor` |
| `songs` | 2 tables, 2 phones, 1 free song, 1 credit a visit, 3 visits, 2 waiting songs | `ButtonIsHonest`, `PlacementIsFair`, `LimitKept`, `CreditsKept` |
| `player` | 2 songs, of two videos or of one, 1 trouble | `NeverCutOff`, `EveryTurnComes` (liveness) |
| `luggage` | 3 tickets, 2 tokens, 3 overlapping calls | `OneTicketPerToken`, `EndsOnce`, `LeavesPaid` |
| `house` | 3 items, 1 category, 2 admins, a cooldown of 2 | `SilenceMeansNothing`, `NoEarlyRepeat`, `ActiveIsReal` |
| `phone` | 2 visits, 1 other news, 1 trouble | `PhoneHears`, `VisitIsCurrent`, `EventuallySettles` (liveness) |

Why these bounds. The hazards of the ledger are races of two calls for one row: a
guard dropped from any handler shows with two callers. Two requests let one order
be delivered while another is pending; three lines are a delivery, its refund and
one line more. Two prices matter only where a price may be stale (`orders`).
Three sessions let a call that has read the first commit while the second is
open and leave the third to open next. Two guests and a driver are the smallest
set in which a create crosses another create *and* a move of the queue; three
songs are one playing and two whose order can be confused. `overlaps` leaves out
only the two moves of an active order in the kitchen and the customer's cancellation,
which is a rejection by another name; any other call may come between another's check
and its write. One session, request and order are enough, since what a call misses is
about its own session, and two lines are one that is missed and one that is written
late. With one request no order is accepted beside one that waits; the theorems are for
any number. `visit` leaves out the endpoints that write neither the table's counters nor
the bill: asking for it and taking that back, and editing a request's items.

Two callers of the panel are a movement that crosses a replaced recipe or another
movement, beside an order whose steps are transactions. Two phones of one table
pass a limit together, and three visits let a check of the first visit be placed in
the second while another table has its own; with a limit of one free song the
second song is the extra one. Three tickets on two tokens make a token come back
while both calls about its first ticket are still in flight. Two songs are one that
plays and one that waits, and with the same video for both the frame is not
reloaded; one trouble is a retry, a crash or a lost message. Two visits are the one
the phone's token is for and the next one; one other news is enough for a leave and
a join that the end of a visit can fall between.

A cooldown of two and three items make every case of the pool: a window that
covers the category, one that covers it in part, and songs of no category between its
own. The code's window is ten; the proofs are for any. `house` has a constraint
(`CallsOrPick`): two overlapping calls of the admins are explored between picks, and
only one during a pick. Nothing is lost for `ActiveIsReal`, since a pick writes
nothing an admin's call reads; and the edits that disturb a pick are single steps, of
which any number may come.

Some properties have exceptions, each of which the code does make, and name them:

- `NoLimboSession`, `NothingPendingWhileAsked`, `NoActiveOrderWhenPaid`, `OpenIsShown`,
  `NoOverPayment` and `AcceptedAsAsked` name the late writes that break the rule, by
  the call that made them and what it had missed. Every other overlap is harmless,
  which is not obvious: an accept that overlaps a request for the bill, a customer's
  request that overlaps a close, a delivery that overlaps a payment. No exception is idle: TLC finds
  the rule broken by each one when it is taken away (three bill lines are needed for
  a refund of a closed session);
- `ProjectionMirrorsSession` is about a visit in progress, and says by how much the
  quick-adds of the staff put the pending count off;
- `TurnsKept` leaves out one kind of step: a `create` that read the queue before
  something else changed it (`ReadAnOldQueue`) may swap two songs;
- `LimitKept` and `CreditsKept` allow what overlapping requests take too much, and
  only that.

### Where the code and its documentation part

One run checks a sentence of the repository's comments, and TLC finds a behaviour of
the code that breaks it. `PROJECT.json` quotes the sentence.

| run | property | in short |
|---|---|---|
| `two_lines` | `ReturnsExact` | two lines of an order with the same composite product: their components are written on the last one, and a return gives back something else |

### What overlapping calls do

Met while modelling, each a behaviour the modelled steps have, as an exception of a
property or when an assumption of a run is lifted; the hazards in `PROJECT.json` name
the lines:

- a delivery between close's check and its transaction leaves a closed session with
  consumption nobody paid, and so does a line or an order written for a session that
  was closed after it was read (`NoLimboSession`);
- a request and `requestPayment` that miss each other leave one pending while the bill
  is asked for (`NothingPendingWhileAsked`); an acceptance that `markPaid` missed, or a
  void of a session that was paid meanwhile, leaves an order of a paid session in the
  kitchen (`NoActiveOrderWhenPaid`);
- two partial payments checked against the same pending amount pass both
  (`NoOverPayment`);
- an edit between accept's read and its transaction is lost: the order is of the items
  before it, and the request shows the ones after it (`AcceptedAsAsked`);
- the staff's quick-add decrements a pending count nobody incremented
  (`ProjectionMirrorsSession`);
- `markPaid` refuses `closed` only, so a voided session can be paid afterwards, and its
  row is then both voided and paid;
- a category that is activated and deleted at once stays active without existing, and
  no house song is picked until another is chosen (`crossed` in `ActiveIsReal`);
- the comment of `pickNextHouseSong` says it returns null when no category is active;
  it then picks from all active songs (`Playable` with `None`);
- the reset of a table by an old session that is ended twice hides the session that is
  open (`OpenIsShown`);
- two drivers each start a song when none is playing (`OnePlaying` with two drivers);
- a late skip turns a played song into a skipped one (`DoneIsFinal` with more
  `SkipStatuses`), and gives its credit back;
- a movement recorded from an old read makes bottles appear or vanish (the exception
  in `StockAccountedFor`);
- with six songs, two credits and one of them spent the table page disables its
  button, while the server would accept.

### Fairness and liveness

Two runs assume weak fairness, of steps that nobody decides to take:

- `Player`: a call that was sent is handled and answered, a message that was not
  lost arrives, the page handles what has arrived, a timer runs out, a video that
  loads starts and one that plays ends. The justification is the event loop of the
  browser and the request handling of the server; losing a call or a message is an
  action of its own, and the browser's own timeouts are part of it. There is none for
  guests, staff or failures.
- `Phone`: the server announces a closed visit, the gateway handles packets, calls are
  answered and applied, events are handled, and the socket client reconnects
  (socket.io tries for ever). None for guests, staff, reloads or failures.

`EveryTurnComes` is then about the page's own loop: that the flag which holds calls
back is lowered, that the effect runs when a song comes and that the end of a video
is heard. `EventuallySettles` is about the phone's: every reconnection, refresh and
replay comes to an end. Visits and troubles are bounded, so it says that the page
does not keep itself busy, not that the world lets it rest.

The other models claim no liveness: each step is taken by a client or by the process
serving it, and a call may fail at any statement.

## 4. What is proved

Each module of proofs is for every value of the constants that the named assumption
of its module allows.

`Ledger_proofs`, for every set of tables, sessions, requests, lines and callers,
every set of endpoints and every set of positive prices
(`ConstantsAssumption`):

- `ConsistentAlways`: the inductive invariant `Consistent`, the conjunction of
  `Linked`, `OrderIffAccepted`, `OneActiveSession`, `CurrentIsLive`,
  `RefundedOnce` and `BilledOnDelivery`;
- one theorem for each of those, and `DecisionsAreFinalAlways`.

`Linked` and `OrderIffAccepted` carry the rest: each other part is kept by a step
only in a state where rows refer to rows that exist and an order belongs to an
accepted request. `BilledOnDelivery` needs both (a delivery bills the session its
request names; a request accepted anew would replace a delivered order);
`RefundedOnce` needs `Linked` (the refund a call is about to write points at a
line that exists and is not itself a refund); `CurrentIsLive` needs it because a
commit finds the table to reset through the session the call remembers. `Linked`
says what a call remembers between its steps still exists: rows are never deleted.
The proof splits `Next` once into steps that only read (`ReadStep`) and steps that
write (`WriteStep`), and shows each conjunct from a lemma on what a write does to
the rows it is about (`RequestEffect`, `EntryEffect`).

Beyond that invariant, in the same module:

- `TotalIsBillAlways`, by way of `Accounted`: the lines written so far are finitely many,
  and the cached total of a session is their sum. A write adds a line or none, and
  `SumAdd` and `SumSame` say what that does to a sum.
- `KeepsPromiseAlways`: the refinement of `OrderPromise`. What an order shows on the bill
  is the sum of the lines that name it, at most one line and its refund (`StageTable`).
  Every step of a handler is then one step of one order, or a stutter.
- `ProjectionMirrorsSessionAlways`, for every set of endpoints without `close`,
  `markPaid` and `void`, which are the ones that make it false. Inductive is
  `Visiting`: no session ends, so that a table with one points at it, and its counters are
  the cardinalities of what is pending and active there, less those of the quick-adds
  (`Mirrors`); what was quick-added stays accepted (`QuickKnown`).

And of `Overlaps`, for any number of callers whose calls overlap as they like:

- `CheckedAlways`: each call in flight knows what it has checked, or `since` says what
  has upset it (`Knows`). It is kept because a step either leaves alone what a call has
  read or is one of its `Upsets` (`StillKnows`); a call that gets to its commit with an
  empty `since` therefore writes on a check that holds, and one that does not is on
  record in `late` (`Recorded`).
- `SessionsSoundAlways`, and from it `NoLimboSessionAlways`,
  `NothingPendingWhileAskedAlways` and `NoActiveOrderWhenPaidAlways`. Inductive is
  `SessionsSound`, the three at once with what each needs of a session in every status:
  one that was closed unpaid, for instance, may have an active order only by a late
  write, or its delivery would put a bill on it.
- `OpenIsShownAlways`. Inductive is `Shown`, that a table which hides its open session
  has another that was ended twice; a step ends a session a second time only if its
  call missed the first time or the session was voided (`SecondEnd`).
- `NoOverPaymentAlways`. Inductive is `PaidWithin`: the bill is never below the sum of
  the lines `TakenOff` counts. A payment in time leaves the total at zero or above
  (`PaymentWithinTotal`); every other line that lowers the bill is counted.
- `AcceptedAsAskedAlways`: accept writes the items it read, and those are the request's
  unless it was edited meanwhile.

`Sums_proofs` has what these need of sums: the sum over a finite set does not depend on the
order in which the fold takes its elements, and what adding, removing and changing one of
them does (`SumAdd`, `SumRemove`, `SumChange`). A fold is a recursive function, and TLA+
defines a recursive function as the one CHOOSE finds for its equation. tlapm hands that
equation to the SMT solver as a fact, for any recursive function, even an ill-founded one;
nothing here rests on it. That the equation of the sum has a solution (`SumDefined`) and
only one (`SumUnique`) is proved from the well-foundedness of the naturals, and everything
else from those two.

`PlaybackQueue_proofs`, for every pool of songs and any number of guests. Under
the hypotheses `OneDriver` and `SkipsInTime` (a driver skips songs that wait or
play):

- `SingleDriverInvariant`: what the driver's transaction has read (`see`, `pick`)
  still holds, and one song plays at most. The guests' steps matter here: they may
  come between any two statements of the driver's transaction;
- `OnePlayingAlways` and `DoneIsFinalAlways`;
- `PlaysLikeAJukeboxAlways`: the refinement, by showing first that every step
  moves on, takes a song back, adds one or leaves the songs alone (`StepOfSongs`), and
  then that each of these is the jukebox's `Change`, `Drop`, `Ask` or a stutter;
- `PlayerToldTheTruthAlways`: between the commit of a driver's transaction and the write
  of the playback state the song it started is the one that plays (`TellInv`).

And for any number of drivers and any skips:

- `QueueInvariant`: a driver's call holds songs the queue has, and a guest's draft recalls
  a list of such songs, each once, at the places of the list (`QueueInv`);
- `TypeAlways`, and `TurnsKeptAlways`: a step keeps the waiting songs in their order unless
  it is a create that read a queue that has changed since. A create that read the queue as
  it is gives the songs the positions of their order again, around its own.

`Stock_proofs`, for any products, recipes, carts and movements: `StockStaysOnTheShelf`.
`StockNeverNegative` alone is not inductive: a movement may write a number it computed
long ago. `NothingOwed` adds that such a number is never negative, which is `record`'s
check; a decrement is guarded and a return only adds (`PlanType`, `PlusType`).

`ReturnsAlwaysExact` and `StockAlwaysAccountedFor` have the hypothesis `LinesApart`, that no
cart names a product twice: the run `two_lines` shows what happens otherwise. Inductive is
`Sound`: every line would give back what it took (`LineSound`). It needs that a recipe in
force was written by `replaceForProduct`, which refuses an empty slot: the split of a line
then takes something (`WayTakes`), and `restoreStock` does not mistake a line with
components for one without. `StockAlwaysAccountedFor` follows step by step, since an order
that is placed, cancelled or refunded changes the sum of what orders have out by exactly
what moves on the shelf (`SoldPlaces`, `SoldChanges`).

`SongRequests_proofs`, first of `Fairness` alone: `PlacementAvoidsOwn` and
`PlacementTakesTurns`, about `findInsertionPosition` for every queue, score and table,
when more than one table takes part. Both rest on `FirstStop`: the place is where the scan first stops, and it
stops nowhere before. The second needs that between a song of another table and a later
one the scan would have stopped (`OwesTheTurn`).

Then of `SongRequests`: `TypeCorrect`, whose weight is in the lemmas on inserting into
and removing from a list of songs; `PlacementAlwaysFair`, which applies those two
theorems to every reachable queue; `ButtonAlwaysHonest`; and `LimitAlwaysKept` and
`CreditsAlwaysKept`. For these, inductive is `SongInv`: a request that no other request of
its table has overlapped since its check still has its place under the limit and, in the
visit it was checked in, its credit (`RequestHolds`), because everything else that goes on
lowers the counts or raises what was earned. Songs are counted by kind, and `InsertCounts`,
`RemoveCounts` and `TailCounts` say what inserting, removing and starting a song do to a
count.

`Luggage_proofs`: `TypeCorrect`, `TokensAreUnique` (inductive because a ticket never
becomes active again), `LuggageEndsOnce`, and `LuggageLeavesPaid` by way of
`DeliverChecked`: what a delivery has tested still holds unless the payment was changed
meanwhile.

`HousePlaylist_proofs`, for any songs, categories, admins and cooldown:
`NeverSilentInVain`, since the songs that could be played all along (`sure`) can be
played now, so that an empty pool leaves none of them (`SilenceInv`); and
`ActiveStaysReal`: a category whose activation is under way, or which is active while
its deletion is, exists or has been crossed (`CategoryInv`); `TypeAlways`; and
`NeverTooSoon`. The last needs the order in which songs were played: what is still on the
list of the songs played since an item's turn (`later`) is what the list itself says was
played after it (`newer`, `LaterInv`). So of the songs that could be played all along, those
outside the recent ones the pick has read were played long ago, those among them lately, and
a pool that had to be relaxed was one of the latter only (`PickInv`).

`Phone_proofs`: `PhoneAlwaysHears`, for any number of visits, of other news and of
troubles. Inductive is `InTouch`: a phone that listens was opened with the token it
holds (`TokenIsHandshake`), the last packet on its way is the join of the visit it
shows (`EndsWithJoin`), and once nothing is on its way that join has been handled
(`InItsRoom`). The order in which `handleStartSession` stores the token and reconnects
is what keeps the first of these. `VisitAlwaysCurrent`: inductive is `InTime`. A visit that an
answer still to be applied names is open, or its end is still to be announced, is on its
way, or has passed the page by (`AnswersFollowed`); and so is the visit shown, unless an
answer that will correct it is about to be applied (`ShownFollowed`).

Only model-checked:

- `NeverCutOff`, and all of `Player`: its invariant would have to relate the page's belief to
  every call, answer and message under way;
- `EveryTurnComes` and `EventuallySettles`: liveness and `ENABLED` are out of the
  prover's reach.

## 5. Not modelled, and why

- **Access code**: a rotation of two statements and a comparison. Two rotations at once
  leave two active codes; the hazard is listed, and a model would only repeat it.
- **Extra income**: one insert and one guarded update.
- **Authentication**: hashes, signatures, mail.
- **Music search**: calls to external services behind a cache and a daily quota kept in
  memory. Nothing else reads them. Searches that overlap may pass the quota together, by
  one search each, and since both providers turn a failed connection into an empty
  answer, an outage is answered, and cached, as "no results".
- **Audit log, sales reports**: append-only records and read-only sums, date arithmetic.
- **Middleware**: a refused request changes nothing.
- **Seeds and import scripts**: run once, by hand.
- **The staff's screens**, which are most of the repository's lines (the sales
  page alone has more than four thousand): layout, filters and forms. What they send is
  in the models as calls that come in any order and any number.

Of the components that are modelled in part: `createBar` and `deleteBar`, progress
reports and volume, the weights of the fairness score, the contents of the bill on the
phone, the cart, the other events of the gateway, and the validation of a house song. `PROJECT.json` lists every
component with its status, and every hazard with the properties that cover it or the
reason why none does.

## 6. Running it

    tlc -config Ledger_orders.cfg MCLedger
    tlc -config PlaybackQueue_one_driver.cfg MCPlaybackQueue
    tlc -config Phone_rooms.cfg MCPhone
    tlapm Ledger_proofs.tla
    tlapm Stock_proofs.tla
    tlapm Phone_proofs.tla
