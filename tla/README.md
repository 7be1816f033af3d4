# A verification project for the Always Full integration

This directory holds TLA+ models of the parts of `custom_components/alwaysfull`
in which steps of several actors meet: the account's one session at the vendor,
the re-login budget, the writes of bowl settings, the account's notification
settings, the entities that come and go with the bowls, the alert events and the
config flows. TLC checks them on small instances, and TLAPS proves the safety
properties for every instance. Paths below are relative to
`src/custom_components/alwaysfull/` unless they name another directory.

## 1. Inventory

| Component | State it keeps | Operations | Hard because |
| --- | --- | --- | --- |
| Re-login budget (`coordinator.py`, `const.py`) | `_relogin_attempts` | prune, test, record, refuse | sliding window, shared by six callers, reset by every new coordinator |
| Account session (`coordinator.py`, `entity.py`, `api.py`, `exceptions.py`, `__init__.py`) | `client.token`, the stored token, `write_lock`, `last_update_success`, the vendor's one session | poll, write, silent re-login, refresh request, setup, setup retry, reauth | the poll is outside the lock; each login ends the session before it; lost answers; the order of the exception handlers |
| Bowl configuration writes (`entity.py`, `coordinator.py`, `models.py`, `number.py`, `switch.py`, `time.py`, `select.py`) | `BowlData.config`, the payload of each write | copy, convert, change, guard, send, publish, poll | whole-group payloads from a cache; units coarser than what is stored; a vendor whose reads lag and whose errors may apply |
| Notification settings (`entity.py`, `coordinator.py`, `switch.py`) | `notify_config`, `_poll_count` | fetch every N polls, whole-object save, re-read | failed fetches and re-reads, changes made in the phone app |
| Dynamic bowl entities and the empty-account warning (`entity.py`, `coordinator.py`) | `added` of each platform, `_empty_polls` | add on first listing, warn now and again | listings that come late, go and come back; polls between two platforms' set-ups |
| Alert event entity (`event.py`, `models.py`) | `_seen_ids` | remember, fire unseen, evict | bounded memory, paging, batches, restarts, bowls that vanish |
| Config flow (`config_flow.py`) | the entry, its unique id and options | user, reauth, reconfigure, options | dialogs that cross while a login is awaited; duplicate accounts |
| API client (`api.py`) | the token | sign, send, classify an answer | the same code means two things on two endpoints |
| Conversions (`models.py`, `number.py`, `time.py`, `select.py`, `switch.py`, `sensor.py`, `coordinator.py`) | none | units, times, enums, filter life, thresholds, offset | rounding, zero and missing values |
| Sensors, binary sensors, diagnostics, translations, scripts | none | projections of one poll | not hard: stateless |

How they interact. The coordinator polls on Home Assistant's timer and
publishes to the entities. Writes of five platforms queue for the coordinator's
`write_lock`; the poll does not take it. Both paths call `async_relogin`, which
takes from the one budget. A failed write asks for a poll and, when the
debouncer runs it at once, awaits it with the lock held. A successful config
write publishes into the data the poll replaces. A poll that ends in
`ConfigEntryAuthFailed` opens a reauth prompt and is not rescheduled; a setup
that is not ready is retried by Home Assistant with a new coordinator. The
dialogs of the config flow write the entry and ask for a reload of it.

What makes each correct is stated by the properties of section 4; the hazards
they are for are listed, line by line, in `PROJECT.json`.

## 2. Plan

Everything the first plan named is built: the budget, the session that
implements it, the contract of a write, the config writes with their
conversions, the notification settings, the bowl entities and the alert events
on top of them with the feed they implement, the config flows and the registry of
accounts they implement; and every safety property that a passing run checks is
proved. What is left, in order:

1. The units of the bowl as a field of the water group in `ConfigWrite`: the
   stale echo that `README.md:430-435` of the repository documents.
2. An abstract specification of one setting (a register that moves only to
   values somebody asked for), which `ConfigWrite` implements when writes of a
   group do not overlap and reads are complete.
3. A session with several entries of different accounts is not worth a model:
   they share nothing.

Runs are few on purpose, one per question; a property joins the run whose
question it belongs to.

## 3. Modules

| Module | Models | Built on |
| --- | --- | --- |
| `ReloginBudget` | `_spend_relogin_budget`, the clock, coordinator lifetimes | |
| `WriteContract` | what a write promises its caller (abstract) | |
| `Session` | poll, writers, vendor session, reauth, setup | extends `ReloginBudget`; implements it and `WriteContract` |
| `Conversions` | units, times, enums, flags, filter life, thresholds, offset | |
| `ConfigWrite` | one bowl's settings, at the vendor, cached and in flight | extends `Conversions` |
| `NotifyConfig` | the account's notification object | |
| `BowlEntities` | the bowls listed, the entities added, the empty-account warning | |
| `AlertFeed` | what the alert entity hands to automations (abstract) | |
| `AlertEvents` | the vendor's alert log and the alert entity of one bowl | extends `BowlEntities`; implements it and `AlertFeed` |
| `AccountRegistry` | which entry has which account (abstract) | |
| `ConfigFlow` | the dialogs and the entries they write | implements `AccountRegistry` |

The theorems about them are in the `...Proofs` modules (section 5). The `MC` modules only give
values to constants; `MCConfigWrite` also compares the conversions with
reference definitions on small inputs, as assumptions that TLC evaluates.
Operators commented *Faulty variant* are plausible bugs of the definition that
follows them. No specification uses one: each serves to show that a property
can fail.

**What a step is.** Python runs between two awaits alone, so an action is one
await's worth: an answer arrives, is handled, and the next request leaves with
the token the client holds at that moment. The vendor decides on a request when
it answers it: a request whose token has been replaced by then is rejected,
which covers delays in both directions. Only the login's answer is split in
two (`LoginAnswered` at the vendor, `LoginDelivered` at the client), because
others can meet the new session before the client knows it.

**ReloginBudget.** `relogin_attempts` is the Python list as a set of records
(a serial number keeps two attempts of one clock reading apart). `Recent` is
the list comprehension, `SpendReloginBudget` and `RefuseRelogin` the two ways
through the function, `NewCoordinator` a new object with an empty list.
`logins` is a history variable.

**Session.** `op[p]` is what process `p` waits for: nothing, the lock
(`queued`), a request, a login, a login's answer on its way (`minted`), or the
poll it asked for (`reconcile`). A poll makes `PollRequests` requests in
sequence and starts over after a re-login, like `_async_fetch_all`. `Rejected`
is the inner handler of both paths, `PollRaises` and `WriteRaises` are the
outer ones, by exception class. `EndPoll` is what Home Assistant's
`DataUpdateCoordinator` makes of the result; a writer that awaited the poll
resumes in the same step. Failures are `rate` (603 or HTTP 429), `transport`
(timeouts, client errors, unknown codes) and `malformed` (a body that is not
JSON). The history `effect[w]` is what the last write of `w` did to the vendor:
how often it was applied, how many of its requests may yet take effect, and
whether one was refused for its session. A request that fails otherwise than by
a rate limit leaves its outcome open (`Unknown`): nothing, applied, or applied
later (`LateEffect`, up to and beyond the answer; an error was measured whose
value landed seven seconds later, `docs/VENDOR-API.md:577-589`). A request
refused for its session (651, 652) leaves it open too, because `entity.py:170-174`
and `tests/test_entity.py:418-422` say that measurement has not settled it.
`storedToken` is what a new setup starts from; a re-login keeps its token in
memory only, so it may be stale from the start.

Simplified: a user answers the reauth form only while no request is in flight;
the entry always has an email and a password; the minimum poll interval and the
debouncer's cooldown are nondeterministic delays; a refresh requested while a
poll is under way is run later, as if the debouncer had held it back, and never
awaits that poll. What an earlier call of a platform may yet do is forgotten when
its next call begins.

**WriteContract.** To its caller a write begins, is answered once and returns.
On the way one request of it may be refused for its session (`Refuse`), which
leaves open what that request did; `Answer` fixes what the last request may have
done (`Outcomes`: applied for "ok", nothing for "unchanged" and "reauth", open
otherwise). After the answer nothing more is sent: only what an answer left open
may still take effect (`LateEffect`). The mapping takes `pending` to the writers
with an operation under way; `told` and `effect` are `Session`'s own.

**ConfigWrite.** `vendor` is what the bowl follows, `served` what reads return,
`late` the writes answered with an error that will take effect. A platform is a
process because Home Assistant runs one service call per platform at a time
(`PARALLEL_UPDATES = 1`). `StartWrite` is `async_write_config` up to the lock,
with the rule of the thresholds (`to_water_payload`) and `_reject_partial_group`
as its guards (a refusal changes nothing). A setting with `Scale[f] > 1` is
stored in a finer unit than it is shown in: `SetValue` is the setter with
`_unchanged_keeps_raw`. A field of the device row (`RowFields`: `select`) is
sent by itself, is not rebuilt from the cache, and is followed by a requested
refresh. `Unread` is `BowlConfig.from_api({})`: some fields read as 0, others as
None. `Publish` is `async_refresh_after_write`. Sessions are abstracted to
success or failure. A write may be accepted and not applied, applied and
answered with an error, or applied later. A poll reads the config in one step and
whole or, as an anomaly, not at all: configs with some of their fields missing
are not modelled.

**NotifyConfig.** One save is under way at most, because all the notification
switches belong to one platform. A flag stands for an account flag or for the
rows of an alert type in both arrays. Waiting for the write lock is a
nondeterministic delay. A read may return null, which leaves the settings
unread. The history `unseen` says, of each copy of the object (the cache, what
a poll has fetched, what a save was made from, what it has re-read), which flags
have moved at the vendor since it was served.

**BowlEntities.** `added[p]` is the closure variable of platform `p`'s listener,
`entities` counts how often a bowl's entities were handed to Home Assistant.
Platforms are set up one after the other, and the first listener starts the poll
timer, so a poll may come between two set-ups.

**AlertEvents.** Alerts are numbered in the order in which `alert_sort_key`
puts them, so the model relies on new alerts sorting after old ones (observed,
not promised, by the vendor). The page holds the newest `Page` rows in any
order, each once. `OldestFirst` is `sorted(fresh, key=alert_sort_key)`, as the
ascending enumeration of the unseen rows, and `RememberRows` the loop over
`_remember`. Rows without an id, which the code skips, do not occur. The entity lives
when `BowlEntities` has added its bowl to the event platform. The history
`watch` says from where on the entity was watching.

**AlertFeed.** To its automations the entity is a feed over the log: alerts are
raised, and batches are handed over, each newer than all before. The variables
have the same names, so the refinement mapping is the identity; the rows, the
memory and the bowls are what it abstracts from.

**ConfigFlow.** An email is one spelling of an account's address, and the
unique id is its lower-cased form, so the account. `flow[d]` is the flow of
dialog `d`: what kind it is and for which entry, its unique id, and whether it is
closed, shows its form, awaits its login with what was typed in (`validating`),
or awaits it although its dialog is gone (`abandoned`). What the login's answer
leads to (`CreateEntry`, `UpdateFromReauth`, `UpdateFromReconfigure`) is a step
of its own, and everybody else's steps may come between. Home Assistant's part is
that a flow ends if another flow in progress or an entry has its unique id
(`Taken`); that a reauth is not started beside another reauth or a
reconfiguration of its entry, and goes with the entry; and that a new entry takes
the place of one with its unique id and ends the other flows that have it. It
does not keep a user from opening two reconfigurations of one entry, nor from
closing a dialog while its login is awaited: then the flow and its unique id are
gone, and its step goes on all the same (`Gone`); it makes no entry any more, and
still updates the one it is for. `running[e]` is the snapshot with which a
coordinator was set up. The histories `crossed` and `contested` mark the entries
and the accounts described in section 4 under "Limits".

Simplified: the token of a login is the account it is for; the requests of a
running entry are `Session`'s.

## 4. Runs

| Run | Question | Result |
| --- | --- | --- |
| `session` | Who may open a prompt, what is the user told, is the budget kept, is the write contract? | pass |
| `session_recovery` | Does every write end, and does the entry recover by itself? | pass |
| `session_prompt` | Does a prompt mean that the password is wrong? | violated |
| `session_account` | Is the budget the account's? | violated |
| `session_reread` | Does every failed write re-read? | violated |
| `config_write` | Is a setting ever blanked, rounded away or an impossible pair, the cache dishonest, or wrong for ever? | pass |
| `config_siblings` | Does a write change only its own field? | violated |
| `config_unread` | Does the vendor hold only values a user chose? | violated |
| `notify_config` | How stale can the notification switches be, and what may a save put back? | pass |
| `alerts` | Is each entity added once, is it a feed in which each alert is fired once and in order, and is none swallowed or replayed? | pass |
| `alerts_replay` | Is history replayed if the first log read is empty? | violated |
| `config_flow` | What can give an account two entries, or an entry another account's credentials? | pass |

### The properties

- `LoginWindowBound`, `HeldBackOnlyByLogins`: at most `MaxAttempts` re-logins of
  one coordinator in any window; a refusal only when that many real ones lie in
  the window. `BudgetSpec` says that `Session` implements the budget's
  specification (the variables have the same names, so the refinement mapping is
  the identity).
- `KeepsContract`: `Session` implements `WriteContract`, by `INSTANCE ... WITH`.
  Nothing is sent after the answer, and only what it left open happens later.
- `ToldTheTruth`: "ok" means applied, "nothing was changed" and the reauth
  message mean not applied, then and ever after, and no write takes effect twice
  -- each but for the one effect of a request refused for its session (`Doubt`),
  of which nobody knows what it did.
- `PromptNeedsSecondRejection`: with the right password a prompt opens only
  when the poll's own fresh session has been rejected.
- `WritesEnd`, `Recovers`: no write waits for ever; once disturbances stop the
  entry is loaded and its polls succeed from some point on, or a prompt is open.
- `NothingBlanked`, `CacheShowsOnlyHeld`, `EventuallyCoherent`: for settings.
  `NoDrift`: nothing that reaches the vendor is the rounding of a value that is
  only shown. `ThresholdsHeld`: the vendor never holds a minimum above a maximum,
  although each write of one carries the other as it was cached.
- `FreshWithinNPolls`, `NotifySettles`: for notification settings.
  `SaveKeepsWhatWasRead`: a save undoes no change that the object it was made
  from had seen, whatever was refused, lost or stored late before.
- `AddedOnce`, `ListedBowlsHaveEntities`, `EmptyAccountWarned`: for bowls.
- `FiredOnce`, `NoVisibleAlertSwallowed`, `RestsOnNewest`, `NothingReplayed`:
  for alerts; `RestsOnNewest` relates the entity to the `last_alert` sensor.
  `KeepsFeed`: `AlertEvents` implements `AlertFeed`, so over every restart, empty
  read and absence of the bowl nothing is handed over twice or out of order.
- `KeepsRegistry`: `ConfigFlow` implements `AccountRegistry`, in which an account
  has two entries only once a lapsed reconfiguration has written it (`contested`):
  two add dialogs, two spellings, reconfigurations of two entries, removals and
  refused logins never do it. `CredentialsBelong`: the unique id follows the address, and
  token and password are the account's. `RunsOnStoredData`: a loaded entry runs
  on the stored token, and on an interval within the band even after its storage
  was edited.

### What the violated ones show

Each states what a comment, a docstring or a test of the repository says;
`PROJECT.json` quotes it.

- `session_prompt`: a poll re-logs in; before its retry is answered another
  login on the account (a write's own, which does not exclude the poll, or the
  phone app) ends that session; the second rejection opens a reauth prompt
  although the password is right.
- `session_account`: a setup that fails after a re-login is retried with a new
  coordinator, an empty budget and the same stale stored token.
- `session_reread`: `ValueError` from a body that is not JSON is not in
  `WRITE_FAILURES`.
- `config_siblings`: the payload is built before the lock is taken, so of two
  overlapping writes of one group from two platforms the second undoes the first.
  That is the shortest way, and it is not the only one: with the config of the
  run narrowed to `time` and to the sleep window, so that no write waits for
  another, the property falls to a poll that read before a write and publishes
  after it (`coordinator.py:331`), and the next write sends what the poll put back
  into the cache; and with `VendorLags = TRUE` to a stale read
  (`coordinator.py:430`). Building the payload under the lock would mend the first
  of the three.
- `config_unread`: after an empty config read, a write whose own field was the
  only None of its group satisfies the guard and sends 0 for its siblings. In the
  run it is the sleep group: `sleepState` reads as None, `sleepStart` and
  `sleepEnd` as 0, and switching the sleep mode sets a window from midnight to
  midnight. The flush group is not exposed to it: `cleanTime` is a second field
  that reads as None, and the guard refuses the write.
- `alerts_replay`: an empty first log read is remembered as "nothing on the
  page", and the next poll fires the whole page.

### Limits

What the code lets happen, and what the repository does not deny or leaves open,
so that it is no finding; a property of a passing run makes room for just this and for nothing
more.

- *A request refused for its session.* `ToldTheTruth` and `KeepsContract` allow it
  one effect that the answer does not tell. If the vendor does apply such a
  request, its retry applies the write again (which `UNKNOWN_OUTCOME` calls safe:
  the payload is whole), and a re-login that meets a rate limit ends the write in
  "Nothing was changed" although something was (`entity.py:163-168`): the message
  is chosen by the last failure alone. `entity.py:142-149` calls the rate limit
  definite, which it is of the request that met it.
- *A lapsed reconfiguration.* The dialog of a reconfiguration to another account
  is closed while its login is awaited, which frees its unique id; another dialog
  takes that account; the login is answered and the step writes the account too
  (`config_flow.py:174-188`). The same follows when a reconfiguration keeps its
  entry's own address, which it therefore does not check, and another
  reconfiguration moves the entry and a third dialog takes the address before the
  first login is answered. `KeepsRegistry` calls such an account `contested` and
  lets it, and no other, have two entries; in `config_flow` TLC reaches the first
  case.
- *A reauth crossed by a reconfiguration.* A reauth form that awaits its login
  while its entry is given another address writes the password and the token of
  the old account into the entry of the new one (`config_flow.py:145-150`).
  `CredentialsBelong` excludes just the entries this has happened to since their
  last reconfiguration (`crossed`), so it does not catch this.
- *Stale whole-object saves.* A save of the notification settings puts back what
  has moved at the vendor since its object was served (`entity.py:701`).
  `SaveKeepsWhatWasRead` and `FreshWithinNPolls` bound what and how old that is;
  neither is violated by it. Likewise `CacheShowsOnlyHeld` and
  `EventuallyCoherent` bear with a setting that a stale poll reverts for a while,
  and with the old value sent back from there: of these it is `SiblingsKept` that
  says no.

`README.md:156` says of an interval out of range that it is clamped rather than
rejected: that is so of what is stored (`scan_interval_seconds`), while the
options form rejects what is typed in (`BoundedSeconds`).

### Bounds, and why they are enough

`session` has two writers against a poll of two requests, each able to re-login,
one login of another client, one failure of any kind, a password change, a
reload and two budgeted attempts: three processes contend for two attempts, and
the clock reaches the end of the first window. Disturbances come in the first two
of its three instants, late effects at any time; the two writers are
interchangeable (symmetry). `session_recovery` narrows the
faults and keeps one attempt per window, so held-back re-logins occur; raising
`MaxLives` beyond 3 adds no state. `QuietFrom` stops disturbances so that
recovery can be asked for. `ClockEndedTooSoon` is the one escape in `Recovers`:
the model's clock has stopped with the budget spent, which real clocks do not.
`session_recovery` counts only behaviours in which a prompt is not left open,
because nobody is obliged to answer one.
`config_write` has three platforms and six fields in whole groups: the flush
interval, stored at half the unit it is shown in and holding one and a half of it,
the flush duration, which nobody sets here, and the flush flag; the two
thresholds; the units of the device row.
Three writes and two anomalies: two writes of one group, one of another and a
short read, a late effect or a lost answer can all meet. `notify_config` fetches
at every third poll, with two saves, two failures and a phone change. `alerts`
has two bowls on two platforms, so that a set-up comes before, between and after
polls; a warning in every second empty poll and three empty polls in a row; a
page of two and a memory of two pages, seven alerts and two reloads, so that the
memory is filled and evicts. The code's numbers, 20 and 500, satisfy the same
assumption (`MaxRemembered >= 2 * Page`). `config_flow` has two accounts, one of
them spelled in two ways, two dialogs, each of which may be an add, a reauth or a
reconfiguration of any entry, two entries, three flows, a failed login, and an
edit of the storage that stores an interval below, within or above the band, or
no number: two flows for one account meet, and a third crosses them, which is
what it takes to make an account contested by a closed dialog. The other way, by an
entry moved under its own reconfiguration, takes four flows: with
`MaxFlows = 4`, one spelling and no edits the properties hold as well (562 000
states; kept out of the project's runs, as one more of the same question). The symmetry is over dialogs,
entry ids and passwords, which no definition tells apart.

The violation runs use the smallest constants that show the behaviour.
`CHECK_DEADLOCK FALSE` is set for `Session` alone, whose runs may really stop (the
write, clock and setup bounds are used up and a prompt waits for its user).

### Fairness

The event loop runs what is ready, and every request has a timeout, so a
request ends with an answer or a failure: weak fairness of the poll's steps and
of each writer's. Home Assistant's timer fires, it retries a setup, and the
clock runs: weak fairness of `StartPoll`, `RetrySetup`, `ClockTick`. In
`ConfigWrite` and `NotifyConfig` also: the vendor, once it has taken a write,
serves it (`VendorCatchesUp`) and applies what it applies late. `Session` assumes
no fairness of its late effects: its liveness does not need them. No fairness is
assumed of users, of other clients or of failures, and so none in `ConfigFlow`
and `AlertEvents`, which state safety only. `asyncio.Lock` is first in, first
out, which `lockQueue` models, so no fairness of the lock is needed.

## 5. Proofs

All proofs hold for every value of the constants that satisfies the named
assumptions, so for any number of platforms, fields, attempts, bowls, flows and
faults.

`ReloginBudgetProofs`, from `BudgetAssumption`. `LoginWindowBound` is not
inductive: it says nothing of the list. `BudgetInv` adds that no attempt lies
in the future, that what the prune keeps is exactly the history's attempts of
this coordinator in the window that ends now, and that these are at most
`MaxAttempts`. A new attempt is the latest of any window that contains it, and
such a window holds no attempt that the window ending now does not, which gives
the bound. `HeldBackForCause` follows from the same invariant.

`SessionProofs`, from `BudgetAssumption` and `SessionAssumption`.
`SessionKeepsTheBudget` is the refinement: each action is a budget step or
leaves the budget's variables alone. The window bound then carries over from the
abstract specification, and so does `HeldBackOnlyByLogins`. `UsersAreToldTheTruth` needs `SessionInv`: whoever is
past the queue holds the lock, and while a write is under way nobody has been
told anything and its requests have at most the effect of one that was refused
for its session (`OutcomeOpen`), since only a rejection is retried, and once. A
late effect moves from `late` to `applied` and leaves their sum as it was, so the
truth that was told stays true.
`PromptsNeedSecondRejection` is an action property and follows by cases.

Three of the violated runs have a theorem beside them that says what the
counterexample needs. `AccountSeesABudgetPerSetup`: any window of the whole
account holds at most one budget for each time the entry was set up
(`EarlierBound`: the coordinators before the current one have left no more
behind), so only a new setup breaks the bound of `session_account`.
`PromptsAreRightWhenAlone`: on an account on which only the poll logs in
(`Writers = {}`, no other client), what the poll has minted stays the session
(`FreshSessionStands`), so a prompt does mean a wrong password; `session_prompt`
needs a second login. `WellFormedFailuresReread`: without malformed bodies every
failure but one for wrong credentials leaves a poll under way or due, so
`session_reread` needs one.

`SessionContractProofs` maps every step of the session to a step of
`WriteContract` or a stutter, from `SessionInv`: a first rejection is a `Refuse`,
or an `Answer` if the re-login is held back; an answer whose outcomes are among
those it stands for is an `Answer`; the poll that a failed write awaited lets it
`Return`; a late effect is the contract's; and nothing else touches a call,
because whoever awaits a poll has been answered and holds the lock.

`ConfigWriteProofs`, from `ConfigAssumption`. `NothingBlanked` needs that every
write in flight, or still to take effect, is whole (`WritesAreWhole`).
`CacheShowsOnlyHeld` needs that whatever a poll has read and whatever a write
carries for other groups was held or is what an absent field reads as
(`NothingFromNowhere`). `NoDrift` and `ThresholdsHeld` rest on `SentInv`: every
write in flight carries for every field what was wished or what an absent field reads
as, and in its own group a pair that keeps the rule; a pair reaches the vendor only in one such
write, because the two fields are of one group. From `SentInv` and
`NothingBlanked`, `OnlyDefaultsAreUnchosen` says how far `config_unread` can go: a
setting nobody chose is the 0 of a field that `from_api` reads as 0 when it is
absent, and nothing else; were every absent field None, there would be none
(`OnlyChosenIfAbsentIsNone`).

The same module proves of the conversions: what is set is what is shown, and setting what is shown
changes nothing; times of day and bowl sizes survive the round trip; the
filter's life is a share; from any valid pair of thresholds any other is
reachable by single-field writes in one of the two orders; the offset is within
an hour.

`NotifyConfigProofs`, from `NotifyAssumption`. `FreshWithinNPolls` needs
`LagInv`: while the switches differ from the vendor, no more polls have completed
than the poll count shows; and `FetchInv`: what a poll has fetched is the
vendor's object unless that has moved during this very poll.
`SaveKeepsWhatWasRead` needs `SeenInv`: wherever a copy differs from the vendor's
object, the flag is among those that copy has not seen.

`BowlEntitiesProofs`, from `BowlAssumption`. `BowlInv` adds that a platform's
closure remembers exactly the bowls whose entities it added, once each, and that
a platform that listens has added every listed bowl. `EmptyAccountIsWarned`
needs that the counter of empty polls is the length of the run of empty polls, and
that a warning was given just at those that come one after a multiple of
`EmptyEveryN`; any `EmptyEveryN` numbers in a row hold one such number.

`AlertEventsProofs`, from `AlertAssumption` and `BowlAssumption`. None of the
alert properties is inductive: each speaks of what was fired and none of what is
remembered. `AlertInv` ties the two together by a line in the log: there is an
alert `r` up to which the entity has taken the log in (`TookIn`). Nothing beyond
`r` is remembered; the newest `Page` alerts up to `r` are; what is remembered and
was raised since the entity was added has been fired; and if the entity has fired
at all, `r` was the last. A page read later holds the newest rows of a longer log,
so each is either remembered or beyond `r`. Firing these, oldest first, moves the
line to the newest row (`PageBringsLater`). For that no row of the new page may be
forgotten on the way, and this is where the bound of the memory comes in: the memory
is what was on a first page, in whatever order, and then later alerts in theirs
(`MemoryOK`), so what a full memory of two pages evicts is more than a page old
(`MemorySpreads`, `RememberLater`, `RememberBatch`). An empty read, a bowl that is
away and a second publication of the same rows leave the line where it is. A new
entity starts its line at the page it finds (`RememberFirstPage`).
From `AlertInv` follow all the properties and the refinement `AlertsAreAFeed`.
Whatever is read, the alerts an entity has fired since it was added are in ascending
order (`EntityFiresOnceInOrder`): it takes a restart that meets an empty log read to
fire one a second time.

`AlertsFireOnce`, `HistoryIsNotReplayed` and `AlertsAreAFeed` assume
`~ FirstReadEmpty`, as the run does: with an empty first read the line of a new
entity lies before alerts that were fired in its earlier life, and TLC shows that all
three fail then (the run `alerts_replay` shows the second).
`NoAlertIsSwallowed`, `EntityFiresOnceInOrder`, `EntityRestsOnNewest` and
`AlertTypes` assume nothing of it. `AlertInv` itself was checked by TLC, with `FirstReadEmpty` false and true,
before it was proved.

The prover has no induction over data, so where it is needed it is done by a
least counterexample: `LeastNatural` gives a set of numbers its least member, from
the library's facts on well-founded relations, and `NaturalInduction` is the
principle for a set. With it `FoldExists` and `RowByRow` unfold the `FoldLeft` of
`RememberRows` row by row, `SortingExists` shows that a set of alerts has an
ascending enumeration, and with it that `OldestFirst` chooses one.

`ConfigFlowProofs`, from `FlowAssumption`. `FlowInv` adds the claims: a flow that
awaits a login whose success takes an account, and still has its unique id, has a
claim on it: unless the account is contested, no entry has it and no other flow
has it for its unique id. A claim is made by a check before the login and must
outlive it; the lemmas show that no step of any other dialog, of the user or of
Home Assistant takes a claimed account away, except the write of a lapsed
reconfiguration, which makes the account contested. Nothing is assumed of how
many reconfigurations of an entry there are or of when a dialog is closed. From it
follow the refinement `FlowsKeepRegistry` and, with their own strengthenings,
`CredentialsAreTheAccounts` and `EntriesRunOnStoredData`.

## 6. Model-checked only

Liveness (`WritesEnd`, `Recovers`, `EventuallyCoherent`, `NotifySettles`) is
outside the prover's reach: fairness and ENABLED are not supported.
Every safety property that a passing run checks, and every refinement, is proved
for all values of the constants; the runs are what they were found with. The
negative results, the six runs that expect a violation, are TLC's.
`AddedOnce`, `ListedBowlsHaveEntities` and `EmptyAccountWarned` are proved of
`BowlEntities` and carried to `AlertEvents`, which implements it
(`AlertsKeepBowlSpec`).

## 7. Not modelled

Request signing and canonicalisation (pure functions over strings, with golden
tests in the repository); parsing of the vendor's time stamps (strings);
diagnostics and the PII lint (redaction of a snapshot); translations, manifest
and brand assets (static); sensors and binary sensors other than the choice of
the newest alert and the filter's life (stateless projections of one poll); the
units that a write of the thresholds echoes (documented at `README.md:430-435`
of the repository); more than a page of alerts between two polls (no claim is
made of them); an entry without a stored password; the reset buttons, which
change nothing that an entity caches and are to the model one more of
`Session`'s writes.
