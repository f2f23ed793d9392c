# A verification of the 420 backend

The repository is the server of a breeding game: users own Gen0 buds, in-game
items and game keys on a chain; the server (NestJS, Prisma, PostgreSQL) keeps
breeding points, lands with slots, and the pairs being bred, and signs the
vouchers for Gen1 buds. This directory holds TLA+ models of its core, the TLC
configurations that check them on small instances, and proofs for TLAPS.

    tlc -config BreedingRace.cfg MCBreeding      model-checks one instance
    tlapm BreedingProofs.tla                     checks the proofs of a module

## 1. The system

What makes the server hard is said quickly. **No handler opens a transaction.**
Every endpoint is a chain of awaited queries and chain calls; Node runs other
requests at every await, nothing locks a row, and any await may throw and leave
what was written before. What keeps the tables right is the order of the writes,
a few unique keys (`BreedLevel (pairId, level)`, `EventServiceLog.txHash`), and
checks made some awaits before the write they guard.

| Component (source) | State it keeps | Operations | What is hard | What makes it correct |
|---|---|---|---|---|
| Breeding (`breed/`) | `BreedPair`, `BreedLevel`, `BreedBud`; `BreedSlot.isUsed`, `type` | createPair, levelUp, finalize, cancel, invalidate | stale copies of the pair, check then act, failure between writes, boundary at the target level | no level without its row, price and time; a reward only after all of them; buds and slots bred once; slots given back |
| Invalidations (`admin/`) | status of pairs, slots | invalidate-breeding, invalidate-slots | run at any time against the handlers of the previous owner | an outcome is final; pairs and slots agree |
| Breeding points (`user.service`, `admin/`) | `User.breedingPoint`, `EventServiceLog` | consumeBreedingPoint, addBreedingPoint, withdrawBreedingPoint | reports repeated, log and balance in two writes, fractions | credited once, and not without a log; balances add up |
| Voucher for High (`user.controller`) | none; a signature the user redeems on chain | convertBp2High | checks the balance and reserves nothing | a withdrawal overdraws by no more than was spent meanwhile |
| Login (`user.controller`) | `User`, free land | login | slots and user in two writes | who has an account has a land; one free land for a key |
| Lands (`land/`) | `BreedSlot` | openSlot, convertIndoor, purchase | pays first, writes later, a timestamp as an id; breeding opens and upgrades slots free | no goods beyond what was paid and what breeding gave |
| Gen1 buds (`bud.service`) | `Gen1Bud` | issueGen1BudMint, burnGen0Buds | insert, then signature; mint, then log | one signed bud for a pair or a burn |
| Rates and dice (`breed.service`, `hash-table`, `utils`) | `rate`, `bonusRate` | start rate, evaluate, dice, traits | boundaries: 100, the table's keys, open intervals | a better rate never loses; traits fit the rate; nothing but the pass is certain |
| Leaderboard (`stats/`) | `Stats` | hourly snapshot | truncates, then seven statements, each its own snapshot | never doubled, exact when nothing changes, catches up |
| Leaderboard queries (`stats/`) | none; a client's cursor | GET stats | the cursor is the id of a row that is renumbered hourly; rows of one score come in any order | pages go down the scores and miss no row |
| Gen1 names (`bud.controller`) | `Gen1Bud.name` | rename, valid-name | check then act around a call of another service, no unique key | chosen names differ; a name settles |
| Gift cards, shop, web socket, guards | none, or unused | | | |

The components meet in the tables: createPair and finalize write the slots that
login and purchase made and the invalidations take away; levelUp, openSlot and
the rest draw on one balance that deposits fill; the snapshot reads what all of
them wrote. The chain is read by createPair, levelUp and invalidate, and its
events come back as calls of another service to the admin endpoints, at least once.

`PROJECT.json` lists the components with what is not modelled and why, and every
hazard at its line.

## 2. Modules

| Module | Models |
|---|---|
| `Breeding` | the breeding endpoints, both invalidations, levelUp's payment, the Gen1 bud of a finalize |
| `PairLadder` | the abstract specification of a pair: what breeding promises its owner, in atomic steps |
| `BreedingProofs` | Breeding's inductive invariant and what follows |
| `BreedingCalm` | what Breeding promises when requests do not fail, do not overlap, or neither |
| `BreedingRefines` | the proof that Breeding implements PairLadder |
| `Ledger` | accounts, lands and slots with every way to get one open or indoor, breeding points, `EventServiceLog`, the buds of a burn, the voucher for High |
| `LedgerProofs` | its inductive invariants and what follows |
| `Stats` | the hourly snapshot of the leaderboard over tables that change |
| `Leaderboard` | extends Stats with the ids of its rows and a client that pages through them |
| `StatsProofs` | the inductive invariants of Stats and Leaderboard |
| `Names` | the names of Gen1 buds: drawn at the mint, changed by rename |
| `NamesProofs` | its inductive invariant and what follows |
| `Rates` | the numbers Breeding leaves abstract: rates, dice, traits |
| `RatesProofs` | its inductive invariant and what follows |
| `SumTheorems` | lemmas on sums over finite sets, which the proofs of Ledger, Stats and Rates cite |
| `MCBreeding`, `MCLedger`, `MCStats`, `MCLeaderboard`, `MCNames`, `MCRates` | small instances for TLC |

### How a model corresponds to the code

*A request is a process.* `req[r]` holds the local variables of the handler and `pc` the
await it stands at. The code between two awaits of a query or a chain call is one action
named for what it does (`InsertPair`, `MarkUsed`, `MkLevel`, `WritePoints`, ...), and
`PROJECT.json` maps it to its lines. A handler's checks before its first await and that
await are its `...Begin` action. `Refuse` is a request turned away by its first check or
an endpoint that only reads; a later refusal returns the request to idle (`Reply`).
`Abort` is an await that throws, or a server that dies: local variables are lost, tables
stay.

*What a request remembers is stale on purpose.* `req[r].lvl` is the
`currentLevel` the handler read first, and `Bump` writes `lvl + 1` whatever the
table says by then, as `startBreedLevel` does; `seen` is the balance that was read;
`hits` are the pairs an invalidation found.

*Tables.* `pair`, `level`, `slot`, `points`, `gen1` in Breeding; `slots`, `points`,
`account`, `log`, `gen1` in Ledger. A row's columns are kept as far as code branches
on them. An `Int` column refuses a fraction (`Storable` in Ledger); amounts
there are in hundredths of a point. `paid`, `credited`, `debited`, `charged`, `given`,
`withdrawn`, and in Names `how` and `undisturbed`, are history: they record what
happened and no guard reads them, except where a bound counts how often an event was
handled. So is `voucher`, but for one use: the chain only reports the withdrawal of
a voucher that was signed.

*The environment.* Buds and items change hands (`TransferBud`, `TransferItem`), the
clock ticks, and the watching service reports an event up to `MaxHandled` times. A
withdrawal is taken for the redemption of a voucher, for the amount it was signed
for: the contract is not in the repository, and this is the one way to withdraw the
backend offers. In Names the metadata API answers yes or no; in Leaderboard a client
asks for pages until one is empty, or stops.

*The refinement.* `Promise` in Breeding is the mapping to PairLadder. Of the
tables it shows a pair's status, the level it stands on and when that level was
started, which levels were evaluated and paid, and the buds issued. It hides what
requests remember, the buds of a level, and a level row that was inserted but whose
`currentLevel` is not yet written: `Climb` happens at `Bump`.

*Left abstract.* In Breeding a bonus is one of `Bonuses` and the dice a choice;
`Rates` has the numbers, as tenths of a percent, without the rounding of floating
point sums. Names, images and signatures are left out. A game key's stake is too:
`isGameKeyStaked` is not awaited in login, so its promise is always true.

*Faulty variants.* A definition is sometimes preceded by a variant of itself with
a plausible fault, such as `KeyIgnored` before `KeyTaken`. No specification uses
them: put in place of the definition, each makes TLC find the property that
guards it violated (`mutants` in `PROJECT.json`), which shows the property can fail.

## 3. What the runs check

| Run | Instance | Shows |
|---|---|---|
| `breeding_race` | 1 pair, 2 overlapping requests, 3 levels, any await may fail | `Ladder`: no interleaving or failure of levelUp skips a level, its price or its time. `RewardEarned`: a bud only after the whole ladder. `LevelNeverFalls`: a stale copy never sets the level back. `KeepsPromise`: every step is one of PairLadder or invisible. `BreedingInv`: the invariant of the proofs |
| `breeding_stuck` | 1 pair, 3 overlapping requests, no failures | `LadderNeverStuck`: the request thrown out by the unique key leaves nothing half done |
| `breeding_serial` | 2 users, 2 pairs, 2 slots, requests one after another, buds traded between any two steps, fairness | `BudBredOnce`, `SlotBredOnce`, `SlotUsedIffBred`, `RewardOnce`; `SettledIsFinal`: only invalidate-slots changes an outcome; `SlotReleased`: no slot stays in use for nobody |
| `breeding_items` | 2 users, 2 pairs with one pass between them, which is traded, requests that fail | `BonusFixed`; `ItemsCoverPairs`: a levelUp goes on only with an item for each pair |
| `ledger_race` | 2 overlapping requests, any await may fail: logins, a deposit reported twice, slots and lands bought, slots opened and upgraded free by breeding | `DepositOnce`, `LoginGivesLand`, `LedgerInv`; `GoodsPaid`: what a user has is worth no more than what was charged and what breeding gave |
| `ledger_serial` | every endpoint but the two of breeding, requests one after another, a deposit of a fraction, a withdrawal too large, fairness | `LedgerBalances`, `FreeLandOnce`, `HandledOnce`, `DepositCredited`, `TypeOK`; `VoucherCovered`: points and what left them since a voucher still cover it |
| `stats_snapshot` | 2 users, 2 pairs that breed on, one statement fails | `BpNeverDoubled`, `SnapshotExact`, `CatchesUp` |
| `leaderboard_pages` | 3 addresses, pages of 1 or 2 rows (or no limit), the snapshot between any two pages | `PagesDescend`; `PagesComplete`: an undisturbed reading shows every row with a score of its own once |
| `names_race` | 3 buds, 3 names of which one is drawn, 2 overlapping renames that may fail, mints between | `ChosenNamesDiffer`: two buds get one name only by a race or a draw; `NameSettles`: only a rename sent in time changes a name; `NameInv`: the invariant of the proofs |
| `rates_dice` | shipped rates, tables cut to some entries, 5 levels | `CertainOnlyWithPass`, `RewardFits`; `BetterNeverLoses`: a tenth of a percent more never loses where less won; `OddsOneMore`: one outcome more wins than the whole percent |

Two more runs, `breeding_slot_twice` and `breeding_dead_end`, show where a message of
the code is not kept; see section 5.

**One request at a time or many.** Some properties hold only for requests that do not
overlap, since the code checks some awaits before it writes: `BudBredOnce`,
`SlotBredOnce`, `SlotUsedIffBred`, `RewardOnce`, `SettledIsFinal`, `BonusFixed`,
`LedgerBalances`, `FreeLandOnce`, `HandledOnce`, `VoucherCovered`. They are checked with
one request at a time, in every order, against transfers, and, where they hold,
failures. `ItemsCoverPairs` and `SlotReleased` belong here too. All other properties are
checked with requests that overlap.

**Bounds, and why they suffice.** Two requests are what a race needs; the third of
`breeding_stuck` is one that starts after another has failed on the key while the winner is
still writing. Three levels give a first, a middle and a last one; one level is enough where
only status and slots matter. `MaxTime` is one tick per level, with a breeding time of one
tick, so that every level is tried both early and in time; where time plays no part the
clock stands still. In `breeding_serial` every bonus is 0, which the code takes for a level
not evaluated, so that a finalize may be repeated as often as it can be; where bonuses
matter there are two. Two pairs are what exclusiveness relates, as are two renames; a third
bud is what a race leaves undisturbed. Three rows make ties and pages that end among them,
before them and after them. Points suffice for all levels and a wasted payment or two
(`InitialPoints`). In Ledger, the deposit pays for a land or some slots and one withdrawal
takes a part back; `MaxSlots` bounds the rows, two for a land in place of five (the first
open, the others closed; five are two with more of the closed kind). `MaxHandled = 2`: an
event is handled twice. `ledger_race` leaves out convertIndoor, which pays as openSlot does,
the vouchers, withdrawals, burns and invalidate-slots; `ledger_serial` has them, and the
theorems that hold always cover their overlaps. In `rates_dice`, five levels and the base rates are the
shipped ones. The tables are cut to the best entries, the worst, and some with tenths, so
that final rates end in every digit; the only entry of 3.5 is on a bud of thc 22, which, as
in the code, is never drawn. Of Gen0 buds one is listed with the best rate and one is not.

**Deadlock** is checked in all runs but `rates_dice`, where a breeding ends with its
dice. In Breeding and Ledger an idle request may always be refused.

**Fairness.** `FairSpec` has `WF` of `Continue(r)` for each request: an await that
has settled is resumed by the event loop, and queries settle. Nothing is assumed of
clients: no `Begin` is fair. In Stats, the hourly `Cron(j)` is fair as well, being
fired by a timer; a statement that fails is never assumed or excluded for ever,
only bounded (`MaxFailures`), as are the changes of the tables.

## 4. What is proved

By TLAPS, for all values of the constants that meet the modules' assumptions: any
number of users, buds, slots, requests, pairs and levels, any prices and times.

| Theorem | States | When |
|---|---|---|
| `BreedingProofs!Invariance`, `TypeCorrect` | `BreedingInv`, `TypeOK` | always |
| `BreedingProofs!LadderHolds`, `RewardIsEarned`, `LevelClimbs` | `Ladder`, `RewardEarned`, `LevelNeverFalls` | always |
| `BreedingRefines!Refinement` | `KeepsPromise`: Breeding implements PairLadder | always |
| `BreedingCalm!LadderGoesOn` | `LadderNeverStuck` | no failures |
| `BreedingCalm!BudsBredOnce`, `SettledStays`, `BonusStays`, `ItemsCover` | `BudBredOnce`, `SettledIsFinal`, `BonusFixed`, `ItemsCoverPairs` | no overlaps |
| `BreedingCalm!SlotsBredOnce`, `SlotsInStep`, `RewardedOnce` | `SlotBredOnce`, `SlotUsedIffBred`, `RewardOnce` | no failures, no overlaps |
| `LedgerProofs!Invariance`, `TypeCorrect` | `LedgerInv`, `TypeOK` | always |
| `LedgerProofs!CreditedOnce`, `LoginLand`, `GoodsArePaid` | `DepositOnce`, `LoginGivesLand`, `GoodsPaid` | always |
| `LedgerProofs!VouchersCovered`, `OneFreeLand` | `VoucherCovered`, `FreeLandOnce` | no overlaps |
| `LedgerProofs!BalancesHold` | `LedgerBalances` | no overlaps, one event for a transaction |
| `LedgerProofs!EventsHandledOnce` | `HandledOnce` | no failures, no overlaps, one event for a transaction |
| `StatsProofs!BpCounted`, `SnapshotsExact` | `BpNeverDoubled`, `SnapshotExact` | one job at a time |
| `StatsProofs!PagesFall`, `PagesShowAll` | `PagesDescend`, `PagesComplete` | always |
| `NamesProofs!Invariance`, `NamesDiffer`, `NamesSettle` | `NameInv`, `ChosenNamesDiffer`, `NameSettles` | always |
| `RatesProofs!RatesInvariance`, `RewardComesFromItsGroup`, `BetterRatesWin`, `OneOutcomeMore` | `RatesInv`, `RewardFits`, `BetterNeverLoses`, `OddsOneMore` | always |
| `RatesProofs!CertainNeedsPass` | `CertainOnlyWithPass` | the configured numbers fall short of certain |

**When a theorem holds.** The last column is the theorem's hypothesis, and what the
code relies on without enforcing it; section 5 lists what happens otherwise.
- *No overlaps* is `[]Serial`: at every state all requests but one are idle. Which
  request runs next, of whom and with what, is free. A behaviour of any number of
  requests may satisfy it; the runs marked serial have one process, so all of theirs do.
- *No failures* is `~MayFail`, the constant as `BreedingStuck.cfg`,
  `BreedingSerial.cfg` and `LedgerSerial.cfg` set it. Where it is not asked for, the
  theorem covers every await that throws.
- *One event for a transaction* (`OneEventPerTx`) is a property of the constant `Events`:
  `EventServiceLog` knows an event by its `txHash` alone. All instances have it.
- *One job at a time* (`OneJob`): the hourly job ends before the next begins, which is
  so for one instance of the server whose statements take less than an hour.
- *The configured numbers fall short of certain* (`ShortOfCertain`): base, best entries and
  slot add up to less than 100. TLC evaluates it for the shipped numbers, which add up to 99;
  94 is what a pair can reach, as the entries of 3.5 are never drawn.

**Breeding.** `Ladder` is not inductive: `Bump` writes a level from a stale copy, and
nothing in `Ladder` says the copy is still right. `BreedingInv` adds what each request
knows at its await: that it paid for the level it works on and the level was found in
time (`Charged`, `Evaluated`), that its copy is not ahead of the table
(`KnowsPair`), and that a request between the insert of a level row and the write
of `currentLevel` finds the row it inserted and the level unchanged (`BuildsNext`). This
last is where the unique key counts: two requests cannot both have inserted the
row, so at most one builds a pair (`OneBuilder`), and no other raises
its level meanwhile. `RewardEarned` then needs only that the last level was evaluated
(`RewardBase`), as `Ladder` gives the ones below. The proof goes action by action
and, under each, part by part; `LevelClimbs` follows from the invariant at `Bump`.

**Breeding, when less goes wrong.** `BreedingCalm` has three invariants, each
`BreedingInv` and more. *Without failures* (`LadderInv`) a pair whose level is evaluated
is being carried on by a request that will start the next level or settle the pair
(`Carried`), and a row ahead of `currentLevel` has its builder at work
(`BuilderLives`). So the request the unique key throws out leaves its work to
another, and when all are idle no work is left. *Without overlaps* (`AloneInv`) what a
request has checked stays true until it writes: the buds are free (`BudsFree`), the
pair is PAIRED (`HoldsPair`), the level has no bonus (`NotDrawn`) and the items were
counted (`Counted`). Failures are allowed: a failed request leaves the tables a
later one finds, and each conjunct about a table is kept by every single write.
*Without either* (`CalmInv`) a slot is in step with its pairs but for the one
step in which a request is about to mend it (`Tracked`), and a completed pair has its
bud or a request about to issue it (`RightlyRewarded`). These are properties of a
pause between two writes, so a failure there does break them.

**The refinement.** A step of Breeding maps to a step of PairLadder or changes nothing
the owner sees. The guards of PairLadder are what needs an invariant: `Climb` asks that
the level left behind is proved and paid and that its time was over when the new
one started, `Pay` and `Prove` that it is the level the pair stands on or has left,
`Reward` and a `Settle` to COMPLETED that the last level is proved. `BreedingInv`
has most of it; `PromiseInv` adds that a pair beyond the last level was proved and
paid there (`Topped`), that no level row is of the future (`Begun`), and that the
pairs an invalidation found were there (`HitsExist`). One lemma for each action that
writes what the owner sees maps it to its step; the others leave it unchanged.

**Names.** `ChosenNamesDiffer` is kept by `Update` only if a name counted as free is
still free: `NameInv` says so of every request that no write of a name has
overtaken (`StillFree`), and that a request beyond its first query is its minter's and
was in time (`Knows`), from which `NameSettles` follows.

**Ledger.** `DepositOnce` says of a deposit that it is credited at most once and only
after its log row. Between the two writes that is true only if no other
request is about to credit the same event: `LedgerInv` says that a request at
`credit` holds an event that is logged and not credited (`CreditPending`) and that no
two such requests hold the same (`OneCreditor`). The unique `txHash` gives both.
`TypeOK` needs that what was read and what is subtracted are whole numbers
(`SeenWhole`). `LoginGivesLand` needs that a login past `createFreeLandSlots` has its
land (`UpsertHasLand`), and that rows are added and edited, never removed.

`GoodsPaid` compares the lands, open slots and indoor slots of a user, at their prices, with
what was charged and what breeding gave. Giving is history: finalize's free opening and
createPair's free upgrade add a price to `given`, but nothing when the slot was bought
between their query and their write. It is not inductive: `WritePoints` charges first and
the goods come an await or two later, or never. `GoodsInv` says that the worth of the goods
and of what requests have paid for and not yet given (`Pending`, a sum over all requests) is
within `charged` and `given`. Taking a price moves it into `Pending`, giving the goods takes
it out, a failure only forgets it. `PayLocal` says that the request gives what its price was
for. No hypothesis is needed: debits lost by overlapping payments change the balance, not
what was charged.

With no overlaps, `CalmInv` says that what a request read of points and slots is what they
still are. `VoucherCovered` and `FreeLandOnce` are kept by each write under it.
`LedgerBalances` is kept because the balance written is the one in the table plus or
minus the amount, and `SumUpdate` moves the sum of all events (`Moved`) by the same.
`HandledInv` says of a transaction that it is logged, untouched, or being closed by the
request that handled it.

**Stats.** `BpInv` says that the column of points is empty between TRUNCATE and the one
statement that adds to it. With one job that is all: a job that failed half way is
followed by a TRUNCATE before anything is added again. `SnapshotInv` gives each statement
of a job in an unchanged database what the ones before it have filled (`Steady`).
Sums over pairs only grow with their set, from which `BpNeverDoubled` follows while
pairs breed on.

**Leaderboard.** `BoardInv` says that ids tell the rows apart (`IdsTell`) through any
number of truncations and renumberings, and that a reading no snapshot has disturbed
was shown a sequence that falls, ends at the cursor's row, and lacks no row above
the score of that row (`Knows`). A page skips one row at or below the cursor's score; when
the score is one row's alone that row is the cursor's own, which is why
`PagesComplete` is about rows with a score of their own.

**Rates.** The number of winning outcomes and that better rates win follow from types.
`RewardFits` is set by `Dice` and needs that a finite set of keys has a least and a greatest
element (`Extremes`). `CertainOnlyWithPass` needs a bound on the bonus for each level
(`LevelShort`) and one on the start rate (`PairShort`).

**Sums.** The prover has no induction with a statement as its parameter. `SumTheorems`
argues with a least counterexample instead: the subsets of a finite set for which a
statement fails have a minimal one, which the recursion of the sum contradicts.

*Assumptions* are the named `ASSUME`s of the modules; TLC evaluates them in every run.
They say that the constants are of the right sort, that drawn names are names, that
prices in Ledger are whole numbers of points, and that what is added up or put in order is
finite: events and requests, pairs, addresses, keys.

**Model-checked only.** Liveness: `SlotReleased`, `DepositCredited` and `CatchesUp`
rest on fairness, which the prover does not handle. Every other property of a
passing run is also a theorem. The two runs of section 5 are counterexamples.

## 5. Where the code differs from what it says

Shown by a run:

- `breeding_slot_twice` (`breed.controller.ts:204`): two overlapping createPair requests
  find the same free slot and both breed on it, though the code refuses a slot
  "being used for the other pair".
- `breeding_dead_end` (`breed.controller.ts:282`): levelUp compares with `>`; called at the
  target level it evaluates the last level and moves past it, to a level that is
  never made. "Target level reached. Do finalize!" is then the answer to every
  levelUp, and finalize finds no level.

Seen while modelling, each reachable in a model but with no run of its own:

- Overlapping createPair requests breed one bud in two pairs, for the same reason
  as the slot; overlapping levelUp requests both evaluate a level, and the second
  bonus replaces the first ("Breed rate already evaluated", `breed.service.ts:179`).
- A cancel between createPair's insert and its `isUsed` update frees the slot
  first; the slot then stays used with no pair on it.
- A Farmer Pass serves two lands and upgrades several slots: createPair asks for one
  item and does not use it up (`docs/game-items.md:48-49`). The shop asks
  for more than three completed breedings (`land.controller.ts:335`), the document for one.
- Overlapping logins make two free lands; overlapping payments lose one debit.
- A withdrawal is debited before the log row with its unique `txHash` is written
  (`admin.controller.ts:284`), so a report repeated meanwhile, or after a failure between
  the two, is debited again; a burn issues its bud before its log row (line 371) and is
  rewarded again. The log is asked for the report's own type only, so one of another type
  passes too.
- A deposit that fails between its log row and its credit is refused when it is reported again.
- Two vouchers, or a voucher and a purchase, are signed for the same points; the
  withdrawal is then made all the same and the balance falls below zero.
- Two overlapping renames, or a rename and a mint, give two buds one name; and a mint
  never looks whether the name it draws is taken. A rename sent in time writes the
  name whenever the metadata API answers.
- A page of the leaderboard starts after one row of the cursor's score, not always the
  cursor's: rows of equal score are repeated or missed, and when more rows than a page
  holds have one score a reading may never get past them. A cursor the snapshot has
  renumbered names another row, or none, which gives an empty page.
- A deposit of a fraction of a point is logged, refused by the column and lost.
- `winRandomChance` documents its argument as the "target chance percentage"
  (`utils/number.ts:15`), and `random <= chance` over 0 to 99 wins with one outcome more:
  a rate of 60, that of a burn, wins 61 times in a hundred, and 99 always. `OddsOneMore` is
  what the code does.
- The last entry of a group of traits, and thc 22 and size 20, are never drawn: `randomNumber`
  leaves its maximum out.
- A rate above 100 always loses, since `winRandomChance` compares with 100 exactly.
  Only a doctor's pass gets there (`CertainOnlyWithPass`), and `BetterNeverLoses` says
  that up to 100 all is well. The serum's base is 40 to 49, its comment says 70 - 50.
- invalidate-slots fails every pair ever bred on the slots, completed ones included.
- Two instances of the server would run the hourly job twice at once and could
  double the points of the leaderboard; Stats assumes one.

## 6. Not modelled

- Message signatures, JWT, guards, filters, logging and the web socket turn requests
  away or carry no state.
- The shop signs mint requests and changes no table; what it asks first is one count.
- The gift cards are never dealt: the call in finalize is commented out.
- The metrics, the top breeders and a user's history are each one reading of the
  tables at one moment, whose sums are those of Stats.
- `isGameKeyStaked` in login, whose promise nobody awaits: it cannot refuse.
- What a levelUp that is refused after its payment should give back: the code says
  nothing.
- Migrations, seeds and tables of data are constants.

## 7. Plan

Done, in the order of importance:

1. `Breeding`, `BreedingProofs`: the pair, its ladder and reward.
2. `Ledger`, `LedgerProofs`: points, lands, events, vouchers.
3. `Stats`: the snapshot. `Rates`: numbers and boundaries.
4. `PairLadder`, `BreedingRefines`: the abstract specification, and its proof.
5. `Names`, `NamesProofs`: rename against renames and mints.
6. `Leaderboard`: queryStats paging through a table that is emptied and renumbered.

7. `BreedingCalm`, `StatsProofs`, `RatesProofs`, `SumTheorems`: what holds when requests do
   not fail or overlap, the leaderboard, the numbers.

Left:

1. A bank with atomic credit, charge and withdrawal as the abstract specification of
   Ledger, for requests that do not overlap, and its proof from `CalmInv`.
2. `GiftCards`, should the call in finalize come back.
