# Unicorn Connections: TLA+ models and proofs

This directory holds TLA+ models of the class-reunion application in this
repository: a NestJS API on AWS Lambda (`apps/api`) over PostgreSQL (Aurora), S3
for photos, SQS and SES for mail, and a React client (`apps/web`). The models
are checked with TLC on small instances; theorems about them are proved with
TLAPS for every instance. `PROJECT.json` lists the runs, which lines of the
source each definition stands for, a mutated definition that every property
must catch, the hazards and the theorems.

## 1. The system

Lambda freezes and kills processes, runs several containers of the API at once
and handles one request at a time in each. Almost every handler is a sequence of
single autocommitted SQL statements with an `await` between each two, so
**requests interleave statement by statement and any of them may be the last
one to run**. Two repository methods use a transaction (`setDeceasedAndNames`,
`moveUserToClass`). Within one container, JavaScript runs one callback at a
time, and the pool, the Nest application and the worker's context are cached
promises shared by everything that awaits them.

| Component | State | Operations | Talks to |
|---|---|---|---|
| auth (`auth/`) | `users`, `password_reset_tokens`, `email_verification_tokens` | login, forgot/reset password, verify e-mail, search for and claim a roster entry | tokens, dispatcher |
| tokens (`tokens/`) | none: random bytes, their hash, an expiry | generate, hash | auth |
| users (`users/`) | `users.email`, `profiles` | directory, profile update | S3 for URLs |
| admin (`admin/`) | `users`, `profiles`, `class_user`, reset tokens | create and import roster entries, delete, move, set-password link, registration link | S3, class-scope |
| photos (`photos/`) | `profiles.then/now_photo_url`, `gallery_photos`; objects in the bucket | mint upload URLs, delete, list, caption | S3, class-scope; the browser PUTs later |
| schools, classes | `schools`, `classes`, `class_school`, `class_user` | create, link, bulk link, unlink (with its users), delete | S3 folder sweeps |
| database pool (`database/database.service.ts`) | one cached promise of a pool | query with a retry on 28P01, transaction, destroy | Secrets Manager, pg |
| schema | the DDL, the merge of classes, the years | run at a cold start where `RUN_MIGRATIONS` is on | pool |
| mail (`email/`, `lambda-workers.ts`) | an SQS queue and its dead-letter queue; a cached context | enqueue, send a batch | SES |
| comments | `comments` | write, edit, publish, delete | class-scope |
| class-scope | none | who may manage whom, from the token or from the tables | all of the above |
| events | `events` | create, update, delete | class-scope |
| feedback, health, configuration, filters, pipes | (one table) | | |
| lambda bootstrap (`lambda.ts`) | one cached promise of the application | | |
| web client: session (`api.ts`, `AppContext`, routes) | token and user in `localStorage`, a context in each tab | sign in and out, 401 interceptor, redirects | the API |
| web client: pages (`components/`) | rows, selection, forms, busy flags, timers of the page that is open | patch a list after a call, fetch what is selected, send a form | the API |
| web client: slideshow | a queue of photos, two layers, runs of one effect | fetch, preload, cross-fade | the API, S3 |
| web client: event times (`utils/eventTime.ts`) | none | wall clock to instant and back | the events' manager |

Users, rosters and photos meet in the tables: `class_user` refers to `users`,
`classes` and `schools`, tokens and profiles to `users`, with cascades; S3 is
tied to the tables only by the keys that rows name. There are no locks and no
version columns: what the code relies on is the order of its statements, the
UNIQUE and foreign-key constraints, and the guards in its WHERE clauses.

What is hard, and where (the full list, line by line, is `hazards` in
PROJECT.json):

* *check, then act over two statements*: addresses, claims, gallery quota, token replacement, links between classes and schools;
* *several statements that are no transaction*: roster entries, verification, deletion of a user, a class, a school together with S3 objects;
* *late calls*: a presigned PUT that arrives after its row has been displaced or deleted, a mail worker that has sent half of its batch, a secret fetch that fails after it has been replaced;
* *shared promises*: the connection pool under rotation of its password, the bootstrap, the worker's context;
* *stale claims*: roles from a token that outlives them;
* *late answers in the browser*: a page is rendered from closures, so an answer patches the list its click saw; effects fetch again before the last answer came; timers and animation frames outlive what began them; two tabs share one stored session.

What makes each component correct: an address and a link open one account,
that of the person they were given to; a member is whole; a photo a row names
exists, and an object in the bucket is named by a row or was told to go;
nothing is deleted for the wrong user; every query gets an answer and a
connection that is in no one's transaction, without pools left open; a reset
that was accepted is mailed or buried where it can be found; nobody is in a
class his school does not offer; nobody publishes words by the request that
writes them; a container serves one application on a whole schema; and a page, once
everything it asked for was answered, shows what the API has.

## 2. The modules

### Accounts - who holds which account

`Accounts.tla` has the rows of `users`, `profiles`, `class_user`,
`password_reset_tokens` and `email_verification_tokens` as functions and sets
over users and tokens, and a table `req` of requests in flight. A request is
one of `forgotPassword`, `createPasswordLink`, `resetPassword`, `verifyEmail`,
`claimAccount`, `updateProfile` (its e-mail), `createRosterUser`, `deleteUser`;
**each action is one awaited statement**, together with what the handler does
up to the next: `ForgotLookup`, `MintDelete`, `MintInsert`, `MintDeliver` and
so on. `Fail` ends a request at any statement: the statement was refused, or
the Lambda died. An address is a spelling, and `Norm` is the code's
`toLowerCase().trim()` (the empty string included: blanks trim to it). The
UNIQUE column and the foreign keys refuse statements (`Violates`, the guards of
the INSERTs) as PostgreSQL does. A token is named by the request that minted
it; bcrypt and SHA-256 are taken as given.

The history variable `earlier` holds, for each request, the requests that had
finished when it began, so that properties can speak of "overlapping" and
"older".

### Photos - rows and objects

`Photos.tla` has the rows that name keys (profile photos and gallery), the
`bucket`, where users are placed, and which URLs were minted. Requests:
replacing and clearing a profile photo, adding and removing a gallery photo,
deleting a user, deleting a school, unlinking a class with its users, moving a
user; `Upload` is the browser, at any time after the mint, once or again. A key
is the folder it was minted in, its user, its kind and a millisecond: two mints
of one user in one millisecond share it, as in the code. `Fail` may interrupt
the requests of `MayFail` at any await, and S3 deletes that the code wraps in
a `try` may fail and be swallowed. `erased` remembers which keys S3 was told
to delete. The constant `Mixes` names which operations meet (profile photos;
the gallery; the sweeps of a school or a class with moves and deletes; a
replacement in a swept class) and how many requests of them, so that one run
covers them without requests that have nothing to do with each other.

### Database - the shared pool

`Database.tla` models `DatabaseService` inside one container: `slot`
(`this.pool`), the promises of pools and what they resolved to, and the calls
of `query()` and `withTransaction()` with their connections. An action is what
runs between two awaits. Continuations of a promise run in the order they were
attached, so `FetchOk` starts everybody who waits for a pool in one step,
before the `end()` that was attached behind them. The server's password and the secret are rotated from outside: `Rotate` changes the password, `Publish` the secret; that order is the assumption.

### EmailQueue and Delivery - the mail

`EmailQueue.tla` models the dispatcher's `SendMessage` with the SDK's retries,
the queue, batches, containers that start, send, throw, die or time out, and
the redrive to the dead-letter queue. `Delivery.tla` is the promise: what was
taken stays owed until it has been mailed or buried. `EmailQueue` implements
it (`Delivered`), fairness included.

### Roster - who is in which class

`Roster.tla` has schools, the links of `class_school`, users, profiles and
`class_user`. Requests: `createSchool`, the listing of a school's classes
(which links the present year by itself), link, bulk link, unlink with and
without the users, `deleteSchool`, `createRosterUser` and `importUsers` row by
row, `moveUserToClass` with the row locks of its two statements at READ
COMMITTED, and the backfill of a cold start. `Deadlocked` lets PostgreSQL
abort one of two moves that wait for each other. `member` remembers which
request wrote a membership, `made` what was reported as created.

### Access - who may do what, and when

`Access.tla` has users with their roles, memberships, signed tokens with the
roles of the moment they were made, comments, events and a clock. Each check
of `ClassScopeService` is an operator over what it reads, claims or tables;
`login`, the comment handlers, the event handlers and the admin operations that
change a role, a class or a user are their statements. History: which request
wrote a comment's words and which published them, which login made a token.

### Startup - cold containers and the schema

`Startup.tla` has containers with the promise of `lambda.ts`, invocations
that wait for it, and the tables as `SchemaService.initialize` finds them: an
empty database or one from before classes were shared. Each DDL statement is
an action, those that look and then write are two; statements fail,
containers are killed, and invocations come again. `was` remembers the year of each
member's class, and `idless` who is in an older `class_user` without `id`: such a table is dropped with
all its memberships by the first start that migrates (`schema.service.ts:229-231`),
right after the merge has carried them over (`:104-108`).

### Session - the browser's session

`Session.tla` has what `localStorage` keeps, the context and the path of each
tab, requests in flight with the token they carry, and tokens that expire.
Actions: loading a page, in a tab that is opened or that a 401 sends to `/login`; signing in, which names the user by the
answer; signing out; asking; the interceptor on a 401; the routes' redirects;
`updateCurrentUser` from a profile that was fetched or saved. Changing a photo (`ChangePhoto`) ends with fetching the profile again
(`FetchAgain`) as the closure of that click does: whose profile, and that it is one's own, are of the render of the click, the token is the one
stored when it leaves, which may be of a later session. No action closes a tab: one that was closed is
one that takes no more steps, though its requests may be answered, and a reload by the reader is another tab
opened while the first is used no more.

### Slideshow

`Slideshow.tla` is the effect of `SlideshowPage`: runs that may be cancelled at
any await, the queue, `preloadImage` with its timer, and the two layers. An
action is what runs between two awaits, timers or frames.

### WebPages - Lists, Selections, Drafts, EventTimes

The other pages come in four modules; `WebPages` opens one page of one of them
in each behaviour. All pages of a module share its actions, and operators say
in what they differ, which is where pages that look alike in the code go apart.

* `Lists`: nine pages that patch a list after each call (profile comments, own comments, pending comments, another user's page, gallery, directory, classes, schools, events). Some patch the list of the render that was clicked, others `prev`; some fetch again. On three of them (profile comments, another user's page, gallery) a then or now photo is changed as well, after which everything is fetched again under "Loading..."; a part of a fetch that fails leaves rows out (`FallBack`, `Kept`), which the history `cut` notes. Forms, dialogs and busy flags belong to it. A row is named by the click that made it.
* `Selections`: eight pages that fetch what is selected: school, class, page, search, order, user. An effect (`EffectsOf`, `Depends`, `Gate`) is asked again when what it depends on changes; `Cancels` and `Flagged` say whose late answers are dropped. Joining (`JoinPage`) and the users' manager restored from its stored state are pages of it.
* `Drafts`: twelve forms. What is typed, what is out, what disables what, what an answer, a refusal or a lost answer does to it, and the timers nobody clears.
* `EventTimes`: `utils/eventTime.ts` over whole hours and one change of the clock each way, and the form of the events' manager that uses it while the school's zone is still `null`.

The MC modules give the constants values and name the symmetries.

## 3. The runs

| Run | Instance | What it shows |
|---|---|---|
| `accounts` | 2 users, 3 requests, 4 spellings (an address, its capitals, blanks, empty); any initial table | who can open which account, under every interleaving and failure |
| `photos` | 2 users, 3 requests of one mix, or 2 (one may fail), 1 profile kind and the gallery, 2 classes of 1 school, limit 1, 3 milliseconds | rows, objects and memberships stay in step, up to the exceptions each property names |
| `database` | 2 calls (4 possible pools), 2 rotations, destroy | the pool's life, and that every call returns |
| `database_leak` | 2 calls, 1 rotation | **violated**: a lost creation that fails pushes out its successor |
| `email_queue` | 2 messages (a good one sent up to twice, one SES refuses), 2 containers, 3 receives | nothing lost, mails bounded, one holder per copy; the refinement of Delivery with its liveness |
| `roster` | 2 users, 2 schools, 2 years, any 2 requests, each may fail | memberships and links under every pair of requests |
| `access` | an administrator and a user, 2 classes, any 2 requests, 1 tick | moderation and rights under roles that change |
| `startup` | 2 containers, 3 invocations, 1 user, 2 schools, 2 years, 2 old classes, 1 fault | one application each, a whole schema, members in their year unless `class_user` had no `id`, and every container serves |
| `session` | 2 tabs, a user and a super admin, 2 requests, 2 sessions; one of them changes photos (`PhotoUsers`) | tabs match the session, and sessions end when they should |
| `slideshow` | 2 photos, 2 runs, all faults | what is on the screen, and that the show goes on |
| `pages` | 2 rows, 2 requests, 3 clicks; 2 schools that share a year, 2 pages, up to 5 changes; 2 users, 3 texts, 3 requests; 2 zones, 29 hours, 2 saves | lists, selections, forms and hours |
| `event_hours` | the same zones and hours, no other page | **violated**: near a change of the clock an event moves by an hour |

A run checks a type invariant, and its other properties are conjunctions of named
parts, each stated and commented in its module:

| Property | Parts |
|---|---|
| `LinksHold` | `LinkReplacesOlder`, `LinkOutlivesOlder`, `ResetSpendsLink`, `ClaimIsFinal` |
| `RowsAreSound` | `KeyHasOneOwner`, `LimitHoldsInTurn` |
| `NothingIsLeftBehind` | `GalleryObjectsAreListed`, `ReplacedPhotosAreDeleted`, `DeletedUsersLeaveNothing`, `ObjectsGoFirst`, `MembershipsNameSchools` |
| `DeletesAreOwn` | `ReplaceNamesFirst`, `OnlyOwnObjects`, `LaterMintsAreFresh` |
| `QueueIsSafe` | `NothingLostSilently`, `MailsAreBounded`, `HeldByOne` |
| `MembershipsHold` | `SecondClassNeedsOverlap`, `UnlinkedClassesAreEmpty`, `CreatedRowsAreWhole` |
| `StepsHold` | `EmptySchoolsStayEmpty`, `OnlyMembersAreSwept`, `OnlyUnlinkStrands` |
| `ModerationHolds` | `EditsAreModerated`, `ChecksAgree` |
| `RolesEnd` | `DemotionEndsModeration`, `ClaimsOutliveRoles` |
| `StartsHold` | `OneAppEach`, `ServesWholeSchema`, `MembersKeepTheirYear` |
| `TabsMatch`, `SessionsEnd` | `OneTabMatches`, `NamesAreOwn`; `LiveSessionsLast`, `RefusalSignsOut` |
| `ScreenHolds` | `SomethingIsShown`, `VisibleLayerStays`, `LateRunsAreSilent`, `EmptyHasCause` |
| `ListsHold` | `ListsAgree`, `RowsStayVisible`, `ButtonsGuard` |
| `SelectionsHold` | `SelectionsMatch`, `PhotosAreCurrent`, `RestoreBringsBack` |
| `FormsHold` | `DraftsAreKept`, `FormsAskOnce`, `ShownLinkWorks`, `HoursAreKept` |

Definitions that begin "Mutant:" are the same step with a plausible bug in it. PROJECT.json
pairs each property with one of them; the others break the remaining parts and
are kept beside the code they alter.

**Bounds, and why they are enough.** The races in the handlers are between two
requests; the third request of `accounts` and `photos` is the observer (the
reset after two mints, the claim after a claim, the delete under a mint). Two
users are one who acts and one who must not be touched. In `photos`, `Limit = 1` puts
the quota at the first photo, and three milliseconds allow equal, older and
younger keys. In `database` a call has at most two attempts, so two calls can
both find the password stale and discard each other's pool; the second rotation
catches the retry. In `email_queue`, `MaxReceive` is the deployed three, and a message
is sent again once. In `roster` and `access` any two requests meet over any
tables, the second also after the first. `startup` needs two containers that migrate at once and, with
one fault, a bootstrap cut short and begun again. In `session` the second session
is the one an old answer may damage, in two tabs. `slideshow` has a first run and
the one that replaces it; a queue of two wraps round. In `pages` two requests
cross and the third click follows them; a selection changes once more than it
takes to leave and come back; `ClicksOn` and `MaxMoves` are given page by page, smaller
where a page has more to choose. The zones lie on both sides of UTC, and the
hours cover both changes of the clock and the distance to UTC around them.
Requests, calls and clicks are used once each: those runs end, which is why they say
`CHECK_DEADLOCK FALSE`; `session` and `startup` never stop. Symmetry is used in
`accounts`, `photos`, `roster`, `access`, where no liveness is checked.

**Fairness.** `Accounts`, `Photos`, `Roster`, `Access` and `WebPages` have
none: a request may stop at any point, and nothing about it must happen.
`Database`: weak fairness of each call and of each secret fetch, since an
answer, or the error of a connection or of an SDK timeout, always comes.
`EmailQueue`: weak fairness of `Redrive` and of an invocation in progress (its
timeout ends it); strong fairness of receiving each copy, since a copy returns
to the queue again and again and SQS does not starve it; a request that
dispatches is not fair. `Startup`: statements and answers come, and a container that waits
for nobody is invoked again, as the warmer does on a schedule. `Session`: the
API answers or the request fails, and a browser told to load a page loads it;
nothing is assumed of readers. `Slideshow`: requests are answered, timers fire, a hidden tab is looked
at again; an image need do nothing, as its timer is what the code relies on.

**What TLC refuted** (findings in PROJECT.json): a pool can leak after all
(`NoPoolLeaks`; `LeakNeedsLostFailure` says that is the only way); and an hour
entered near a change of the clock is kept an hour off (`HoursAreShown`;
`HoursAreKept` says where it is right).

Refuted as well, and kept as definitions without a run (the passing runs check
what holds instead):

* `OneWorkingLink`: two mints that overlap leave two links that work; a link replaces those whose mint *had finished* (`LinkReplacesOlder`).
* `ClaimedOnce`: two claims of one entry both succeed; a claim is final for those that *start after* it (`ClaimIsFinal`).
* `GalleryRowsNameTheirOwn`: "every mint a fresh key" (`photos.service.ts:70`) is not so within one millisecond: two photos of one gallery are then kept in one object, which goes when the first of them is deleted. A key of a later millisecond is fresh (`LaterMintsAreFresh`), and photos that share one are one user's (`KeyHasOneOwner`).
* `PhotosStayFindable`: a class or school that is deleted takes photos of people who have left it and are kept.
* `EmptyMeansNone`: the slideshow can say that there are no photos although one can be shown, since attempts go on being counted across the reshuffle.
* `EventsOfSchool`: in the events' manager the effect that lists events depends on the class alone (`EventsManager.tsx:82`), and classes are shared: choosing another school with the same year keeps the first school's events on the page.

Also seen while modelling: the first start on a database whose `class_user` has no `id` drops every
membership, and the users are in no class (`MembersKeepTheirYear` excepts them by name); a publish that lands
after an edit publishes words that its moderator was never shown, as the UPDATE looks at nothing but the id
(`EditsAreModerated` says whose request may do so, not what was read); mints that overlap at the gallery limit pass it; an
upload that arrives after its key was displaced leaves an object no row names; an
e-mail of blanks is stored as the empty string by `updateProfile`; two moves of
one user that overlap leave two classes; a 401 about an old token signs out the
new session; a late answer re-lists a comment that was just approved (`AdminCommentsPage`);
a profile whose pending comments are refused lists the public ones as if they were all; a gallery that cannot
be fetched is shown as empty, and then seems below its limit; the profile fetched after a photo was changed may be asked for in a later session,
with that session's token and the earlier `isOwnProfile` (`NamesAreOwn` names what becomes of the answer);
a page past the end of a list says that there is nothing; text typed into the
feedback while it is sent is cleared; a photo changed while the profile is
edited drops the edits; the timer after an import closes a dialog opened
since; `/login` is shown three seconds after a reset wherever the visitor has gone; the events' manager cannot clear a
location or description, as the UPDATE coalesces; a pending class of one school
may be applied under another (`UsersManager.tsx:183`).

## 4. The theorems

Nothing is assumed but the named assumptions on constants
(`RawAssumption` and `NullAssumption` of Accounts, `AccessAssumption`, `DatabaseAssumption`,
`EmailQueueAssumption`, `PhotosAssumption`, `RosterAssumption`, `SessionAssumption`, `SlideshowAssumption`, `StartupAssumption`, `ListsAssumption`, `SelectionsAssumption`,
`DraftsAssumption` and `EventTimesAssumption`, `NullIsNothing`
of Photos and of Roster, and `NoUserIsNobody` of Session), which TLC evaluates in the runs: sets of users,
requests, calls, messages, schools, tabs, photos, rows and containers of any size, any spellings,
rotations, workloads, zones and limits. Most say that the marks for an absence (`Null`, `Nothing`,
`Nobody`, `NoZone`) are no value. The others are that
a page has a place for its first request (`1 \in Calls`), rows that clicks add are new (`Old` and `0..MaxClicks`
are apart), a form can be typed in (`MaxTyped > 0`), and a school's first year is one of its years. Fairness plays no part; all theorems follow
from `Init` and `Next`.

### AccountsProofs

| Theorem | Property | |
|---|---|---|
| `Invariance` | `Inv` | the inductive invariant |
| `TypeCorrect` | `TypeOK` | |
| `AddressesAreUnique` | `OneAccountPerAddress` | two accounts never hold spellings of one address |
| `PasswordsAreAddressed` | `PasswordNeedsAddress` | nobody has a password without an address to log in with |
| `LinksAreOwned` | `LinksHaveOwners` | a stored link is that of a user who exists |
| `MembersAreWhole` | `MembersHaveProfiles` | a member of a class has a profile |
| `NoTokenIsWasted` | `VerifiedBeforeSpent` | a verification token is spent only on a verified account |
| `InvitationsHold` | `InvitedOnlyByLink` | an invited account is opened by its link only |
| `HistoryInvariance` | `History` | the inductive invariant of what came before |
| `LinksStay` | `LinksHold` | a link replaces the older ones and sets one password, a claim is final |

None of the properties is inductive: each depends on what a request in flight learnt
from statements it has already run, after which other requests have run theirs.
`Inv` is `TypeOK` with three facts about rows and one about requests:

* `Row(u)`: addresses are stored normalised; a password has an address; profile, membership and tokens belong to users that exist;
* `Token(t)`: a stored link was minted by its request, for a user with an address;
* `UniqueEmail`: the UNIQUE column, on the strings as stored; with normalised rows this is uniqueness of *addresses*;
* `InFlight(r)`: past its lookup a request has a user, its address is normalised, and what it saw *still holds where the code needs it*: a mint or a reset is for a user who had an address, and no handler takes an address away; a create between profile and membership has its profile, unless the user was deleted; a claim never has a user with a random password, because a random password is only given together with an address.

`Grows` states which facts no step of *another* request can undo
(used ids stay used, the dead stay dead, addresses, profiles and verified marks
stay); `OthersInFlight` carries `InFlight` from it for every bystander at once,
so that each action's lemma only looks at its own request and at the rows it
wrote.

`LinksHold` compares a request with those that had finished when it began, and
`History` says what a statement leaves for the requests to come: from its `DELETE` on a mint has no open link of
an older mint beside it (`Replacing`; an older mint is over, and mints no more), a
link that is gone was taken by a request that was not over when it was minted
(`Removed`), a reset that succeeded has taken its link (`Resetting`), an entry
that was claimed has an address or is gone (`Claiming`). `HistoryLasts` proves that
any step which leaves removed links removed, addresses in place and other requests
alone keeps all of it, once the step's own request is in order; the lemma of each
statement checks that.

### DatabaseProofs

| Theorem | Property | |
|---|---|---|
| `Invariance` | `Inv` | the inductive invariant |
| `TypeCorrectness` | `TypeOK` | |
| `SlotStaysUsable` | `SlotIsUsable` | the cached promise is never rejected or ended |
| `LeaksAreExcused` | `LeakNeedsLostFailure` | a pool leaks only by the failure of a replaced creation |
| `RotationStaysInvisible` | `RotationIsInvisible` | one retry hides a finished rotation from `query()` |
| `NoTransactionIsLeftBegun` | `NothingLeftBegun` | no query runs in somebody else's transaction |

`Inv` adds `Fresh` (a call's pools do not exist before the attempt that creates
them, so creating one revives nothing), `OnOpenPool` (whoever runs is on a pool
that opened, and opened pools do not fail), `Clean` and `Answered` (what is
held, and what will be answered, where a connection is given back), `Retried`
(a second attempt is on the pool it created, whose credentials are at least as
new as the secret its call began with) and `Ordered` (pools' credentials <= the
secret <= the password). The retry argument is then arithmetic: refused twice,
credentials lie strictly below the password, so the secret at the call's start
did too.

Calls that run on their pool change one thing each: `Local` is what these
actions have in common and `LocalStep` proves the invariant for all of them;
`Creates` and `CreateStep` do the same for first attempts and retries that make
a pool.

### EmailQueueProofs

| Theorem | Property | |
|---|---|---|
| `Invariance` | `Inv` | the inductive invariant |
| `TypeCorrect` | `TypeOK` | |
| `QueueStaysSafe` | `QueueIsSafe` | nothing is lost silently, mailed without end or in two hands |
| `QueueRefinesDelivery` | | the initial states and the steps of the queue are those of `Delivery`, or stutters |

The worker deletes its batch as a whole, and that is safe only if each copy of it
was mailed: `Hand` says that a copy a container has ticked off is one SES has
accepted, and that what it holds is hidden and received to be held. With `OneHand`
and `HiddenIsHeld`, hidden copies and containers' batches are one partition, so
`HeldByOne` is a cardinality of one. The bound on e-mails is a count: `Spent(m)`
is the set of pairs of a copy and one of its receives that have had their attempt at mailing; each e-mail is
paid for by one of them (`PaidFor`), no step gives one back, and there are
`MaxSends[m] * MaxReceive` of them. The refinement maps a receive, a retry and
a failed send to stutters; what a mapped step of `Delivery` does to `owed` depends on
the *other* copies of the message, which is why both sets are images of the copies.

### PhotosProofs

| Theorem | Property | |
|---|---|---|
| `Invariance` | `Inv` | the inductive invariant |
| `TypeCorrect` | `TypeOK` | |
| `RowsStaySound` | `RowsAreSound` | a key answers for one user; the limit is passed only by overlapping mints |
| `NothingStaysBehind` | `NothingIsLeftBehind` | what no row names is excused by name |
| `DeletesStayOwn` | `DeletesAreOwn` | nobody's objects but the own are deleted, none a row names, and later keys are fresh |
| `YoungInvariance` | `Young` | for the last part: no key that a row, a request or S3 has known is of a later millisecond than the last that was built |

What a handler does to the tables and to S3 depends on what it read some statements
before. `Inv` is `TypeOK` and

* `Own(r)`: what the fields of one request say of each other, by the step it has reached: which keys it holds, whose they are, which of them S3 was told to delete;
* `Past(r)`: `earlier` is transitive and holds finished requests only, so that *overlap* is a fact that stays one;
* `Known(r)`: how stale what it has read may be: the row names what the request read, unless a mint that overlaps it has recorded another key since;
* `Displacing(r)` and `Orphaned(r)`: a key it is about to delete had been in its place before, and why its user is gone, if so;
* `Counted(r)`: those uploads that had finished when it counted the gallery are below the limit, so that of too many photos two overlap (the argument picks a request with the most before it, which needs the gallery to be finite);
* `PhotoRow`, `GalleryRow`, `Linked`: rows name keys of their own user and kind that were minted, memberships name schools there are;
* `Kept(k)`: of every object in the bucket, and of every URL that may still be used, one can say why it is named, or was deleted, or is excused.

`Kept` is about *usable* URLs too because an upload may come at any time
after the answer: `Upload` then adds nothing that was not accounted for.
`Forward`, `Moves` and `Loses` state what no step undoes (requests go forward, objects stay told to be
deleted, users stay dead), the lemmas `OthersOwn`, `OthersKnow`, `OthersDisplace`,
`OthersOrphaned`, `OthersCounted` and `KeptLasts` carry the bystanders over
any such step, and each action's lemma looks at its own request and rows only.

### RosterProofs

| Theorem | Property | |
|---|---|---|
| `Invariance` | `Inv` | the inductive invariant |
| `TypeCorrect` | `TypeOK` | |
| `MembershipsStay` | `MembershipsHold` | a second class, or a class that is not offered, comes only of the overlaps that are named; created rows are whole |
| `StepsStay` | `StepsHold` | an empty school stays empty, only members are swept, only an unlinking strands |

The handlers look, and write some statements later by what they saw. `Inv` says for
each request how what it saw may have been changed since, and by whom: the years
and schools it is about to link (`Linking`), the members of a class being unlinked
(`Vacating`), those it sweeps (`Sweeping`), the user of the row it imports
(`Importing`) and the memberships a move has locked or found (`Moving`). In each
the answer is "as it was seen, or by a request that overlaps this one", which is
provable because a step is taken by a request under way, and two requests
under way at one time overlap for good (`Meeting`).

`Good(r)` is what the lemma of each statement has to show: request `r` moved
forward, users, links and memberships change in the few ways there are, and
`r`'s own facts hold afterwards. `Lasting` proves the invariant for any good step,
with one lemma for each kind of fact a bystander relies on (`OthersLinking`,
`OthersVacating`, `OthersSweeping`, `OthersImporting`, `OthersMoving`), and
`GoodStepHolds` the three step properties.

### AccessProofs

| Theorem | Property | |
|---|---|---|
| `Invariance` | `Inv` | the inductive invariant |
| `TypeCorrect` | `TypeOK` | |
| `ModerationStays` | `ModerationHolds` | published words were let through by another request than the one that wrote them, of somebody who might; the checks agree |
| `RolesStay` | `RolesEnd` | a lost role is lost at once for comments, and within a token's life for events |

A right is checked in one statement and used in another, and may be gone by then. What
stays true is not the right, but that whoever lost it lost it to a request that had not
finished when this one began: `Permitted(u, t, r)` says that the caller owns the profile, has the
role or was `Demoted` by such a request, and, unlike the right, it lasts
(`PermittedLasts`). `Issued` says the same of a token and the login that made it, and
is what a request that goes by its claims may rely on (`IssuedLasts`). `Inv` is
`TypeOK`, `Issued` for every browser's token, and

* `Sending(r)`: whose token a request carries, that it had not expired, and that an event is about to be written by claims that allow it;
* `Reading(r)`: the comment it has read is still that comment, or is gone: a comment keeps its people, and its identifier is not used again;
* `Checked(r)`: which checks brought it to where it is: `Permitted` where it publishes, authorship where it only edits, one of the two where it deletes;
* `Shown(c)`: published words were let through by a finished request that wrote none of them and was `Permitted`.

`Good(r)` is what the lemma of each statement shows, and `Lasting` proves the invariant for any
good step. `RolesStay` then needs only who takes a step (`Actor`) and that a caller who
is `Permitted` and had lost the role before owns the profile (`Unpermitted`).

### StartupProofs

| Theorem | Property | |
|---|---|---|
| `Invariance` | `Inv` | the inductive invariant |
| `TypeCorrect` | `TypeOK` | |
| `StartsStay` | `StartsHold` | a container builds one application and serves on a whole schema only, and, until two migrating starts meet, nobody loses their year but the members of a `class_user` without `id` |

The statements of a start are no transaction. `Inv` holds because what a statement
establishes no later one of any start takes away, but for the `class_user` that two
starts may fight over:

* `Passed(i)`: what the statements behind bootstrap `i` leave for ever: its tables, one class a year without a school, every year offered, the pivot;
* `Held(i)`: an application is the one its container keeps, and only a migrating bootstrap is in the middle of a statement;
* `Alone`: before two starts have met one at most migrates, and what it read about `class_user` is still so;
* `OneClassAYear`, `PivotIsATable`, `MembersKeepTheirYear`: the tables agree with each other, and while `class_user` has no `id` its members are those of `idless`.

`Keeps` says what no step takes away, and `PassedLasts` carries every bootstrap's
`Passed` over a step that keeps it. Two statements need facts about sets of numbers: the merge, that of the classes of a year
there is a first, which is kept (`Least`, `KeptIsFirst`), and the seeding of the years,
that there are identifiers in increasing order for those that lack a class (`Increasing`, `Room`), by
induction on their number through the well-foundedness of `<`.

### WebProofs

| Theorem | Property | |
|---|---|---|
| `SessionInvariance` | `SessionInv` | the inductive invariant of `Session` |
| `SessionTypes` | `SessionTypeOK` | |
| `TabsStay` | `TabsMatch` | one tab shows the user whose token it sends; another's name is that of an earlier session |
| `SessionsLast` | `LiveSessionsLast`, the safety half of `SessionsEnd` | a good stored session ends by a sign-out, a sign-in or the refusal of another token |
| `SlideshowInvariance` | `SlideshowInv` | the inductive invariant of `Slideshow` |
| `SlideshowTypes` | `SlideshowTypeOK` | no run counts or looks past the end of its queue |
| `ScreenStays` | `ScreenHolds` | a loaded photo is on the screen, exchanged by the live run only, and gone only for a cause |
| `PagesInvariance` | `PagesInv` | the inductive invariants of `Lists`, `Selections`, `Drafts` and `EventTimes` |
| `PagesTypes` | `TypeOK` | |
| `ListsStay` | `ListsHold` | a list agrees with the API when all is answered, but for one's own new comment on another's page; no row is hidden but by a fetch that fails in part; no button asks twice |
| `SelectionsStay` | `SelectionsHold` | what is listed is of what is selected, photos always; a page come back to stands where it was left |
| `FormsStay` | `FormsHold` | nothing typed is lost but in four forms that are hurried, no form is sent twice, the link shown works, an event keeps its hour |

In all of them answers come to a page that has changed since the question.
`SessionInv` says what a request in flight and a stored record still tell:

* `AskSound(q)`: the token a request carries and the session it was asked in had begun; it has expired on its way only if it has expired where it is stored, so that a refusal that takes a good session carried another token; and `Knows(q)`: what it would name the user by is that user's name, or its tab shows a later session by now;
* `TabSound(t)`: the page fits the user, who bears the own name or got another late (`Own`), and, while only one tab has shown anybody (`Single`), `Followed(t)`: the token stored is that user's, or there is none and the tab leaves;
* `StoredSound`: the same of the stored user, whom a page load believes.

`ApiRequestSound` says it of a request as it leaves, for the page that is shown or, after a photo was changed, for one of an earlier session.
`CallsLast` carries the requests that a step does not take: their tab shows the same
session, a later one or nobody (`Succeeds`), and the stored token is the same, a new
one or none (`TokenSucceeds`). `OneTab` goes from the cardinality in `OneTabMatches` to `Single`.

`SlideshowInv` says of every run that its counters fit its queue (`Fine`), which is
not empty once it is drawn, and of the live run what it knows of the page (`Drawn`): `active`, its own copy of
the visible layer, is right once it has shown a photo, so that it writes the other, and
what its pending frame will show had loaded. A run that is over need know nothing but that. The
lemmas follow the code's calls: `ResumeStep` and `AttemptStep`, the two ways out of an
await, end in `QuietStep`, `SilentStep` or `EndsStep`, and each action uses one of them.
`Shuffled` and `QueuesAreShort` bound the queues, for which the photos must be finitely many.

The properties of the pages speak of a page when everything is answered, or compare
what it shows with what the API keeps. None is inductive: while requests are out, what will be
shown depends on them. `PagesInv` is one invariant per module, and a step of one leaves the others'
variables alone (`PagesKeep`).

* `ListsInv`. `InTune` says what a page shows while no requests have crossed: every row is as the API would give it (`Agrees`: on another's page one's own new comment is listed although it is not public yet), but for a row whose request is done and whose answer is on its way, or all of them while the list is fetched; `DoneSound` says what such a request did, so that its patch brings the page up to date (`PatchAgrees`); the copy a handler has closed over is the list that is shown; and two requests are out together only about different rows (`Alone`). Whatever crosses, `RowsSound` keeps every old copy, and every list on its way, from lacking a row that the API still lists, since a row that was there at first and has left the API's list does not come back to it; until a fetch fails in part (`cut`). `FetchSound` and, where a changed photo fetches again, `RefetchSound` are needed for it, as a click before the rows have come would close over an empty list, and one while they come again over the one before. `FlagsSound` gives every flag the one request that will take it down, which makes a disabled button a lock.
* `SelectionsInv`. `InStep`: a part that does not match what is selected has a request out which leads to it (`Before`: a save that is followed by a fetch, a profile by its gallery and comments). `WaitsSound` gives every "Loading..." such a request. `PhotosSound` needs no `smooth`: the photos' page drops every answer of an earlier selection. `RestoreSound`: until the years have come `pending` is the class that was left. `ClassSound` ties the year to the school, except at the events' manager, where it may be another's until the years come.
* `DraftsInv`. `OneOut`: a form that nobody hurried has one request out, with its button disabled; `SavesDraft`: the text of that request is the text in the form, so that clearing the form on success loses nothing; `ProfileKept`, `LinksKnown`: what is fetched, or comes as a link, is what is kept.
* `HoursInv`: the instant kept is that of the hour entered last, in the zone used then.

`SettleFacts` is shared by all that changes a selection, `ListsOver` by the two ends of
a request. `ViewFacts`, `MarksFacts`, `PatchedFacts`, `PageFacts`, `PartsFacts` and `KeyFacts` say
once, page by page, in what the pages differ.

### Only model-checked

Every invariant and every step property of the passing runs is stated by a theorem; the two runs that
expect a violation are TLC's.

Liveness (`EveryCallReturns`, `EveryContainerServes`, `RefusalSignsOut` of `SessionsEnd`,
`ShowGoesOn`, and that what `Delivery` owes is delivered in the end) stays with TLC: the
prover treats neither ENABLED nor weak fairness.

## 5. Abstractions, and what is not modelled

* *Cryptography and identifiers.* Tokens, hashes and passwords are named by
  the request that made them; collisions and guessing are out. A password is
  `none`, `random` (an invitation: nobody knows it) or chosen by a request.
* *Expiry* of a link is an action that may happen at any time, since the
  code compares times only in the lookup. Presigned URLs never expire in
  `Photos`, an hour being long for a request; more uploads than in reality are
  allowed, never fewer.
* *Reads* that change nothing (directories, statistics, login, lists) are left
  out; so are authorisation checks made before the first statement, except where a
  stale answer matters.
* *Transactions* of PostgreSQL are one step, but for the two statements of
  `moveUserToClass` in `Roster`; single statements are atomic, with
  constraints and cascades as the DDL of `schema.service.ts` declares them.
* *S3*: `deleteObject` is idempotent and may fail; `deleteFolder`
  (list and delete in pages) is one step that empties the folder or throws.
  `DeleteObjects` in quiet mode can report errors per key in a
  successful answer, which the code does not read: a hazard without a property.
* *pg*: idle connections are kept as the *states* they may be in, so that any
  number of them is covered; connection limits are left out. An error and a
  timeout are one outcome. The driver removes a connection that broke.
* *SQS*: a copy becomes visible again only when its batch did not end or its
  timeout passed; spurious second deliveries by SQS itself are left out. Lambda
  hands each copy to one container at a time. Message order is arbitrary.
* *Processes*: a Lambda that dies is `Fail`/`Crash` at any await. A container
  that is frozen is one that takes no steps.
* *Rights* are checked in `Access` only; the other modules leave out the checks
  made before the first statement, which read what no request changes there.
* *Startup*: columns added with `IF NOT EXISTS` come with their table. The deployed
  stack sets `RUN_MIGRATIONS` to `false` (`infra/template.yaml`), local and
  container deployments do not: `migrates` is any set of containers.
* *Lists*: one reader on one page, and nobody else changes its rows; `clean` says
  that no requests crossed, no answer was lost and no fetch failed, `cut` that a fetch which failed
  in part left rows out; neither is taken back when a later fetch succeeds. The directory's two
  dialogs are one.
* *Selections*: what the API would answer does not change while the page is open;
  `smooth` says that the reader waited for what was out and nothing failed. The years that the classes' manager patches after
  the school was changed are left out.
* *Drafts*: each form of the users' manager is a page of its own; a chain of
  requests is one. After leaving, the same page is not opened again. The
  checkbox for class admins in a profile is left out.
* *EventTimes*: whole hours, and one change of the clock each way.
* *Slideshow*: a photo's image can be loaded or not for the length of a
  behaviour; its display and fading times are one timer.

### Not modelled

`SeedService` is provided and called by nothing. Configuration, filters,
pipes, health, the registration link's encoding and shared types keep no state. Statistics
and directories only read. `deleteFolder`'s pages and per-key errors, S3 errors
inside a sweep, and `updateUserProfile`'s transaction over names have no
property that another step could break. That an event's class is linked to its school
is checked before the INSERT (`events.service.ts:161`), as for memberships in
`Roster`, and may be stale in the same way. Pages that fetch once and render (welcome, events, help,
terms) and the deployment scripts are left out; the queue's settings
in the template are the constants of `EmailQueue`.

## 6. Plan

What is left is smaller than what is done: the pages that fetch once and render, and the check
that an event's class is linked to its school (`events.service.ts:161`), as one more relation of
`Roster`. Liveness stays with TLC.
