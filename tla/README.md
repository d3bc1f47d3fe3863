# ToraChain in TLA+

A model of ToraChain, the election system in this repository: what is
specified, what TLC checks on small instances, and what TLAPS proves for every
value of the constants.

## The system

ToraChain runs elections. Voters cast ballots at a web frontend, a backend
records them in Postgres, and every recorded ballot is anchored on a small
chain network as a block carrying a commitment, so that a voter can check the
backend against copies of the chain it does not control.

| Part | Where | State it keeps | Operations |
| --- | --- | --- | --- |
| Blocks and chains | `apps/torachain-cli/src/blockchain` | one election's blocks, sorted by index | build, hash, link, append, accept, verify, load |
| Master node | `apps/torachain-cli/src/node/master-node.ts` | chains in memory, a serial queue of votes, rows in Postgres | `POST /api/vote`, `GET /api/chain`, start, stop |
| Worker node | `.../node/worker-node.ts`, `.../storage/json-store.ts` | chains in memory, a JSON file, a Pub/Sub subscription | sync over HTTP, subscribe, take blocks in, start, stop |
| Pub/Sub | `.../pubsub/client.ts` (the service is external) | messages not acked yet | publish, deliver, redeliver |
| Ballots | `apps/backend/app/votes` | votes, `has_voted` of each eligibility | cast, show, verify |
| Voters | `apps/backend/app/voters`, `.../integrations` | voters, eligibilities (soft-deleted), integrations | grant, revoke, self-enrol, patch |
| Elections, candidates | `apps/backend/app/elections`, `.../candidates` | status, window, content, candidates | create, edit, status transitions, delete |
| Audit reads | `apps/backend/app/audit` | none | results, chain download |
| API keys, auditors | `apps/auth/app` | keys, organisations and their approval | create, verify, revoke; approve, reject |
| Session | `packages/fe-common/src/token`, `.../auth` | token in `localStorage`, one exchange under way, the provider's state | get, refresh, clear; sign in, sign out, gate a page |
| Voting frontend | `apps/voting-fe/app` | what a tab shows and waits for, the receipt | look up, enrol, cast, keep the receipt, verify it |
| Auditing frontend | `apps/auditing-fe/app` | token and organisation status of the page, what it shows | mount, gate, read results and blocks |
| Admin frontend | `apps/admin-fe/src` | rows and view of a list, open dialogs, a form's draft | filter, page, reload, change, configure an integration |

How they interact: the voting frontend calls the backend; the backend commits
the ballot in one database transaction and then, without waiting, posts its
commitment to the master; the master persists, holds and publishes a block and
only then answers; workers read the master's rows once over HTTP and then
receive blocks through Pub/Sub. Auditors and voters read results from the
backend and blocks from the master or any worker.

What is hard in it, and the properties each part owes:

- **Master.** A commit is read-tip-then-write across awaits. Between them other
  votes arrive, storage fails, the process is told to stop or dies. It owes a
  stored chain that links at every instant, answers that stay true, rows that
  are never rewritten, no vote left waiting, and an agreement of memory and
  storage that everything else rests on.
- **Worker.** Blocks come from two sources, twice, out of order, altered or not
  at all, and every append is a file write that may fail or be cut short. Its chains
  are loaded by the first block of theirs, so after a restart some are on disk
  only. It owes that it holds nothing the master did not persist, that a gap in a
  chain it has loaded is never reported as valid, that it never forgets a block,
  and that a sync completes.
- **Ballots and eligibility.** Casting, granting, revoking, enrolling and
  changing an election's status are separate requests over the same rows, most
  of them read, check and then update without a condition.
- **Elections.** The status machine is checked against a row read earlier.
- **Anchoring and verification.** The backend does not wait for the chain, so
  votes and blocks may differ in number and order, and a voter's report reads row
  and chain at two instants. It owes that a report fails exactly when the stored
  ballot is not the one cast, and passes only with a block.
- **The voter's page.** Lookup, enrolment, ballot and cast are requests that fail
  one by one, in a page that may be reloaded between any two. It owes that what
  it shows as voted is counted and that a receipt opens the counted ballot.
- **Audit reads.** Caller's status, election, candidates and votes are read one
  after the other without a transaction. They owe results that add up and that
  the election had, to callers that were approved.
- **Sessions.** Exchanges that fail, are shared, outlive a sign-out; pages that
  keep a token. They owe that nothing waits for ever.
- **Admin pages.** Answers arrive late, superseded or after the dialog that will
  reload the list; others change the collection meanwhile. They owe rows that
  belong to the view, no voter listed twice, no change of an election that was
  decided by an outdated row of the screen.

The main places where this bites are the hazards of `PROJECT.json`, with the
properties that cover it or the reason why none does.

## Modules

| Module | Models |
| --- | --- |
| `BlockChain` | blocks, hashes, links, insertion in order, `accept`, `addBlock`'s next block, the storage port's append. Pure operators, shared by both nodes |
| `VoteLedger` | the abstract specification of the master: votes are received, recorded in order at most once, answered truthfully, dropped by a stop |
| `MasterNode` | the master process and its Postgres rows |
| `WorkerNode` | the workers, their files and subscriptions |
| `ChainNetwork` | master, workers, HTTP and Pub/Sub composed: instances of the two node modules over shared variables |
| `MCMasterNode`, `MCChainNetwork` | small instances for TLC |
| `Elections` | one election of the backend: status, content, candidates, deletion, and the administrators' requests |
| `Ballots` | casting, granting, enrolling and revoking over the rows of that election; takes `Elections` in as an instance over shared variables |
| `BallotBox` | the abstract specification of `Ballots`: a voter's ballot is counted at most once and the answers are true |
| `MCBallots` | small instances of `Ballots` for TLC |
| `ElectionStatus` | the statuses of an election and the backend's transitions between them |
| `Routes` | which kinds of token each route of the backend is open to |
| `VotingPage` | the election page of the voting frontend over an instance of `BallotBox` |
| `VoteVerification` | adds the verification page, the chain as the voter sees it, and damage to stored rows |
| `Session` | cookie, token store, exchanges, provider and authorised calls of one browser |
| `AuditPortal` | adds auditors' organisations, the audit routes of the backend and the portal |
| `AdminTables` | a page that lists a collection, its dialogs and forms, and the backend's pages of rows |
| `IntegrationForm` | the integration tab of an election |
| `AdminPages` | an administrator on one of the two |
| `MCVoteVerification`, `MCAuditPortal`, `MCAdminPages` | small instances for TLC |
| `BlockChainProofs` | lemmas about the operators of `BlockChain` |
| `MasterNodeProofs` | the theorems about the master's memory and storage |
| `MasterAnswersProofs` | on top of it: answers, publishing, and `MasterNode` as a `VoteLedger` |
| `ChainNetworkProofs` | the theorems about `ChainNetwork`, from those about the master |
| `BallotsProofs` | the theorems about `Ballots` and, within it, `Elections` |
| `VoteVerificationProofs` | the theorems about the voter's pages |
| `AuditPortalProofs` | the theorems about the portal and the audit routes |
| `AdminPagesProofs` | the theorems about the lists and the integration form |

Operators named for a fault (`ForgetAllButCommit`, `LoadStartsEmpty`,
`TakeInAtTheEnd`, ...) are not part of any specification. Each is a plausible
bug in the definition that follows it, and shows that a property notices it.

### MasterNode

| State | Code |
| --- | --- |
| `stored[e]` | the `blocks` table, one election's rows by index |
| `queue`, head included | the jobs in `SerialQueue`; the head is the one running |
| `pc` | the await the running job is suspended at: before `chainFor`, in `load`, in `storage.append`, after the row is committed |
| `loaded[e]`, `blocks[e]` | the cached promise of `chains.get(e)` and the chain it resolves to |
| `verdict[v]` | no request yet, request open, 202, 409, connection lost |
| `published`, `outbox` | blocks handed to `publishMessage` so far (a history), and those the client has not sent |
| `status` | running, told to stop and closing its server, not running |

`PostVote` is the request handler up to `votes.run`. `BeginLoad`, `UseChain`
and `UseFailedLoad` are `chainFor` with no, a resolved and a rejected promise;
`Load` and `LoadFails` end `BlockChain.load`. `Persist` is the insert taking
effect in Postgres, `Hold` everything `append` does after its reply: insert in
memory, publish, and either go on from the genesis block to the vote or answer.
`PersistFails` is an insert without effect, `LoseReply` one with effect whose
reply is lost. `Publish` is the client being done with a message. `Crash` may
happen in every state, `Exit` once every open request is answered.

The block a suspended commit is persisting is not a variable: only that commit
changes the chain it was built from, so it can be computed from it. The chain
of an election with no rows gets its genesis block by the same steps as a vote.

### WorkerNode and ChainNetwork

| State | Code |
| --- | --- |
| `phase[w]` | where `start()` is; `ready` once subscribed |
| `fetched[w]` | the blocks of the HTTP response `syncChain` has not reached |
| `opened[w]` | the keys of `chains`: the elections whose chain is in memory |
| `held[w]` | `BlockChain.blocks` of each of them |
| `cache[w]`, `file[w]`, `torn[w]` | `JsonBlockStore.blocks`, the file's contents, and whether it cannot be parsed |
| `inbox[w]` | messages of the subscription that are not acked |

Taking a block in is one action (`TakeIn`) because a worker's `SerialQueue` runs
one `accept` at a time and its store is synchronous: nothing else of that worker
runs between check and insert. It also loads the chain, if it is the first block of
its election the process is handed, from the store's array (`Loaded`); a rejected or
duplicate block loads it, too. `chainsValid` asks the loaded chains only, as the
viewer's status does. `TakeInFails` and `DieWriting` split it at the one
place where it can stop, the file write. `Deliver`, `DeliverAckLost` and
`DeliverFails` are the message handler, which acks in a `finally`. A failed write
outside the sync rejects a promise nobody handles; whether the process
goes on or dies then depends on the runtime, and both are behaviours of the
model (`DeliverFails` alone, or followed by `Halt`).

`Garble` alters a message in the election it names or in what it carries. The
hash covers neither the election nor, in a genesis block, anything, so the altered
block may still match its hash. `undetected` is an observation: it notes that one
did, and no action reads it.

`FetchChain` reads the master's rows in one step. The request can only be
answered while the master is up.

### Elections and Ballots

| State | Code |
| --- | --- |
| `status`, `deleted`, `content` | the election's row; `content` stands for title and description |
| `listed` | the `candidates` rows that are not deleted |
| `clock` | where the time is in the voting window |
| `adminAt[r]` | an administrator's request: before its read, between its checks and its `update`, done |
| `stale` | an observation: some `update` was made that its check, made at that moment, would have refused |
| `known`, `rows`, `votes` | the tables `voters`, `eligibilities`, `votes`; an eligibility is named by the grant that created it |
| `at[r]` | the database call a request is suspended at |
| `seen`, `row`, `hadVoted` | what a request read earlier and still acts on: the election's status, the eligibility's id and its `has_voted` |
| `told`, `anchored` | the answer of a cast; the votes handed to the chain node client |

Each action is the code between two awaits, so every database call is atomic
and anything may run between two of them. `RecordVote` is one action because
the code makes it one transaction: the guarded update locks the row. `Revoke`
and the administrators' `Write` have no condition, as their `UPDATE`s have none.
`WouldBeSecond` is the partial unique index: the write fails, the request ends
and nothing changes. `FindEligibility` takes any row of the voter, deleted or
not, since the query has `LIMIT 1` and no order. `enroll` writes as `grant`
does and shares its actions; account lookup and the external check may refuse
either. A crash of the backend ends every request under way; `Fails` ends one, whose
database call failed or took effect and lost its reply (a failure after the
call's own action), and is answered 500.

A vote row carries no voter, on purpose. `VoterOf` knows whose ballot each
cast is; the code does not, and no guard uses it to find votes.

### VotingPage and VoteVerification

| State | Code |
| --- | --- |
| `page[t]` | the `useState`s of `ElectionDetailPage` and the request its handlers await: `awaits` |
| `request[c]` | per sealed ballot (one key each): the candidate the dialog named, the one in the record, the one in the body |
| `counted`, `answer` | the ballot box that `Ballots` implements |
| `row[c]` | the `votes` row of a counted ballot |
| `saved` | receipts the voter copied or downloaded |
| `chain` | blocks after genesis as the chain node serves them; one of another voter is there already |
| `verify[t]` | the verification page: the receipt, the row it was sent, the report |

One action per continuation: a handler up to its `await` and what follows the
answer. `LookupFails`, `EnrollFails`, `CastFails` and `NewBallotFails` are the
`catch` blocks, which also end what the server did and could not say.
`confirmOpen` and `shown` are two variables because Escape closes the browser's
dialog without the page's consent. `Reload` and `Leave` drop everything a tab
holds while the backend goes on (`Counts`, `Answers`). `checks` is the list of
lines of the report and `overall` its verdict, in the page's order of precedence.

### Session and AuditPortal

| State | Code |
| --- | --- |
| `cookie`, `stored` | the session at the auth service, the token in `localStorage` |
| `exchange[t]` | `inflight` of the tab's token manager |
| `tab[t]` | `loading`, `tokenReady` and attempts of `AuthProvider`, and the gate `RequireAuth` |
| `call[t]` | one authorised request: its token, whether it was repeated, where the backend is with it |
| `org[u]` | `approvalStatus` of the newest organisation of an auditor |
| `context[t]` | what `AuditProvider` and `OrgGate` hold |
| `reading[t]`, `answer[t]` | what a read has seen so far; what the page shows |

A token's age is a flag: old tokens are renewed by the manager and may or may not
be refused by the backend. The tabs share cookie and store and have an exchange
each. `reading[t].approvedSince` and `.votesBefore` are history: they note, for
the properties, what was so while the request was under way.

### AdminTables, IntegrationForm and AdminPages

| State | Code |
| --- | --- |
| `item` | the rows of the backend's collection, by identity, with the class a filter selects by |
| `view` | the filter and page in the address bar (or state) |
| `table` | rows, the view they were asked for, cursor, `loading`, `error` |
| `load[s]` | requests for rows: the effect's (which is aborted), "load more", and those nothing aborts |
| `dialog[op]` | `toDelete`, `toApprove`, ...: what it was opened on, whether it is busy |
| `mode`, `draft`, `saving`, `deleting` | the states of the integration form of the same names |

Six pages (elections, users, organisations, candidates, voters, the auditors'
dashboard) differ in the record `site[kind]`: filters, operations, whether they
have pages, whether the view is in the address. On the server a removal, or a
change of an election or a candidate, is two steps: `Check` reads the row and may
refuse, `Write` updates it whatever became of it since. Another administrator's
request is split alike (`OtherChecks`, `OtherWrites`, with `other` in between).
Operations of one statement are `Perform`. Any answer may be lost. `lately` is an
observation, for elections: the statuses the election has had since a request was sent.
`crossed` and `since` are history: whether a reload and a further page were under
way together, and, for each request that is answered and for the table, who was
there ever since its rows were read. `InOrder` is `ORDER BY`. Rows are compared by identity; which of their
fields a column shows is left out, and a row is forgotten when it leaves the
screen.

## Runs

| Run | Question | States |
| --- | --- | --- |
| `master` | Do chain, memory, answers and publications agree through stops, crashes and failed calls, and does the master implement the ledger? | 21 087 |
| `master_any_fault` | What holds whatever fails? | 17 955 |
| `master_lost_reply` | *violated:* may an insert be applied and reported as failed? | |
| `network` | What can a worker come to hold, do its file, memory and viewer agree, does it forget nothing, and does a sync complete? | 534 088 |
| `network_late_joiner` | *violated:* does a late worker keep up when nothing fails? | |
| `ballots` | Do the tables agree, is the election a ballot box, and which votes lose their candidate, however casts, revocations and administrators' requests interleave, crashes included? | 619 370 |
| `ballots_lifecycle` | *violated:* do two administrators' requests at once keep to the table of transitions? | |
| `ballots_overlapping_grants` | *violated:* one ballot per voter when two grants overlap? | |
| `voter` | Is what the voter's pages show, keep and report true, and does every request end? | 208 906 |
| `page_guard` | *violated:* does the election page open for a voter? | |
| `audit` | Are only approved auditors answered, with results the election had, and does everything settle? | 563 905 |
| `admin` | Do lists show what was asked for, and do dialogs and forms not undo each other? | 594 474 |

What each property says is in the comment above it. Deadlock is not checked:
once every vote is answered and the bounds are used up the model has nothing
left to do, as the system has when no request comes in.

**Bounds.** Two elections and three votes for the master: a vote that opens a
chain, one that extends it and another chain in between; two stops, so that a
chain is loaded, extended, loaded again and found extended; one failed storage
call, at any of the places one can fail. One more of any of them repeats a
situation that is already there, since the master keeps nothing from one commit
to the next but the tip. Two votes of one election and one worker for the network:
three blocks (genesis and two votes) are enough for a block to overtake its
parent, fill a gap and be the end of a shorter chain. Workers do not talk to
each other, so one is enough; each kind of fault (stop of the master, stop of the
worker, failed write, altered message, lost publish) happens at most once, and
all of them in the same behaviour. A second election, which gets
no votes, is there for an altered message to name. The bounds are `Max...` constants
in the guards of the faults. Nothing else is bounded.

One voter for the ballots, because requests for different voters share no row
but the election's. `Together` names the sets of requests one behaviour may
contain: two casts (the race), two grants (the first, and the one that revives or
duplicates) and a revocation, in an election that is activated and ended; or a
cast and a grant in one that is activated while it is ended, paused and deleted; or
in one that is activated while it is paused and edited and candidates come and go.
One crash or failed call. One assumption separates the passing run from what the
code allows and is a constant of the model: `GrantsOverlap = FALSE` (two grants or
enrolments of one voter are not under way at once). The code does not enforce it;
finding 3 shows what happens without. Everything else overlaps with everything.

One tab and two ballots for the voter: a reload leaves a ballot under way and
starts over, which is what a second tab does too. One stored field may be damaged
(`MaxAlterations`). The passing run has `GuardedRoutes = FALSE`, that is, the
election page's requests are open to voters: with the guards as they are nothing of
the page could be reached (`page_guard`). One browser, two users and the three
frontends for the sessions; one candidate and one vote for the results, which is
enough for a vote to fall between two statements. One item per list, two for the
dashboard and three voters (three keyset pages of one); `MaxChanges` counts changes of
the collection and failed loads together (a checked change and its write count once),
`MaxDialogs` is one dialog under way besides the list's own loads, elections are
drafts or enrolling voters (`StatusesUsed`: one legal move, and one back that is
not), and `MaxSaves` counts writes of the integration, whoever makes them.

**Fairness.** The master's commit steps are weakly fair: the event loop
runs every continuation that is ready, and storage answers or fails each call.
A master that stopped is started again and finishes a stop it began (the
platform keeps one instance). A worker's own steps are weakly fair, and so is
its HTTP request, which the code repeats every two seconds for ever. Nothing is
assumed of faults, of requests arriving, or of the Pub/Sub client sending. `Ballots` states safety only and assumes no fairness. In
the frontends the answers of requests are weakly fair (each is answered or
fails), and so is what a page does without being asked (the provider's attempts,
redirects, the effects of the portal). Nobody has to click, and nothing is assumed
of sign-ins, tokens ageing, administrators, other tabs or blocks being anchored.
`AdminWaitsEnd` and `NothingHangs` therefore exempt behaviours in which the user
clicks for ever.

## Disagreements between the code and what it says of itself

1. **An insert applied but reported as failed** (`master_lost_reply`).
   `BlockChain.append` persists before it holds, and comments in
   `block-chain.ts:157-158` and `master-node.ts:98-100` conclude that memory and
   storage agree. If Postgres commits the row and the reply is lost, memory is
   one block behind. The next vote's row is dropped by `ON CONFLICT DO NOTHING`
   while its block is held, published and confirmed, and the block after it
   links to a hash that no stored row has. The voter of the lost row got a 409
   although the vote is stored, the next one a 202 although it is not.
2. **A block between the sync and the subscription**
   (`network_late_joiner`). The worker reads the rows first and subscribes
   after that. A block committed in between is in neither, though
   nothing failed. The test in `node-network.test.ts:139-154` expects a
   late worker to keep up.
3. **Two ballots of one voter** (`ballots_overlapping_grants`). Two grants both
   find no eligibility and one creates it. The voter casts while a revocation
   that read `hasVoted = false` is under way, so the row ends up used and
   soft-deleted (although `voters/controller.ts:135` promises a 409 then). The
   second grant creates a fresh row, which the unique index admits, and the
   voter casts again. The guard in `recordVote` is one ballot per eligibility,
   as its comment says; `votes/controller.ts:69` promises one per voter.
4. **Two administrators at once** (`ballots_lifecycle`). `patch`, `replace` and
   `remove` check a row read earlier and update without a condition, so that a paused
   election becomes active, or an active one is deleted. `elections/utils.ts:4-8`
   and `46-50` say what the checks are to exclude. Candidates are edited in the same
   way, although `candidates/utils.ts:4` says only before the election is active: a
   candidate may be removed after a ballot for them was cast, and the tallies then
   do not add up to the votes.
5. **The voter's page and the backend's guards** (`page_guard`). The page loads
   election, candidates and integration together; the integration is open to
   administrators only, so the page fails as a whole and Retry fails again.
   `docs/sequence-diagrams.md:45-46` shows the voter being answered. The lookup of
   the voter, which follows, is guarded the same way.

More are behaviours of the model without a run of their own; the properties of the
passing runs are stated so as to hold with them:

- A crash between persisting and publishing leaves a durable block that no
  subscriber is sent; `block-chain.ts:26-28` says every committed block reaches the
  workers exactly once. Workers find it when they sync.
- `computeHash` leaves out the election id, and for a genesis block everything
  (`block.ts:72-81`). A message altered there is taken in and written, and the true
  block of that index is then a duplicate, after a restart, too; `block.ts:84-85` and
  `docs/architecture.md:81` say that re-hashing detects tampering. What is left is in
  `ReplicasGenuine`: a vote's block keeps the index, vote and predecessor the master
  gave it.
- After a restart no chain is loaded, so `chainsValid` is true of none, while `GET
  /api/chain` of the viewer serves the file with the gaps it has; `worker-node.ts:90-91`
  says every block the worker holds is re-hashed. Once the worker is ready every
  stored chain is asked (`ViewerTellsGaps`).
- `JsonBlockStore.append` pushes before it writes. If the write throws, the retried
  sync finds the block in the array, writes nothing and holds it, so it is not on disk
  until another block is written; `block-chain.ts:157-158` says blocks are persisted
  before they are held.
- `cast` checks the election's status first and does not look again when it
  records, so a vote may be recorded just after the end.
- One failed exchange while the auditors' portal mounts leaves it without a token;
  its pages return early (`dashboard/page.tsx:57`) and their spinner is never cleared.
  `Settles` says only that the gate before them opens.

And an exchange that was minted before a sign-out stores its token after it
(`token/manager.ts:125`), so that logout need not leave the store empty.

## Proofs

Every safety invariant, action property and refinement that a passing run checks is
also a theorem: it holds for every value of the constants that meets the
assumptions the modules state of them. Those assumptions are about data only: sets
do not overlap, functions have their types, bounds are naturals, collections are
finite. Where a theorem needs more, its table says so, and a run or a note shows
that it does.

Hardly any property below is inductive as it stands. Each proof has an invariant of
its own, which every action keeps; TLC agrees with each on the runs' instances.

### The master

`MasterNodeProofs` and `MasterAnswersProofs`, for all sets of elections and votes, any
assignment of votes to elections and all bounds:

| Theorem | States | Assumes |
| --- | --- | --- |
| `TypeCorrect` | `Spec => []TypeOK` | |
| `StoredGrows` | `Spec => StoredOnlyGrows` | |
| `StoredChainsStayLinked` | `Spec => []StoredChainsLinked` | `MaxLostReplies = 0` |
| `MemoryStaysInStep` | `Spec => []MemoryAgreesWithStorage` | `MaxLostReplies = 0` |
| `AnswersStayTrue` | `Spec => []AnswersAreTrue` | `MaxLostReplies = 0` |
| `PublishingStaysInOrder` | `Spec => []PublishedOnceInOrder` | `MaxLostReplies = 0` |
| `MasterImplementsLedger` | `Spec => ImplementsLedger` | `MaxLostReplies = 0` |

The assumption is the one finding 1 shows to be needed: the run
`master_lost_reply` violates the first of the five with one lost reply.

`TypeOK` is not inductive: that an insert lands at the end of the rows (which is
what keeps rows from being rewritten, and blocks in index order) depends on
chains without gaps and on the rows never being shorter than memory. `TypeInv`
adds that as `Shape`. `StoredChainsLinked` says nothing of memory, from which the
next block is built. `SyncedInv` adds `MemoryAgreesWithStorage`, and then the block
a commit persists is built on the last stored row, by `NextBlock`, and links to it.
The lemmas of `BlockChainProofs` say what inserting a block does to a gapless chain
and that `BlockFor` extends a valid one.

`AnswersInv` adds where each vote is: waiting once in the queue (`QueueInv`), at most
once in the rows and in those of its election (`RowsInv`), and, once it is in a row,
answered 202, dropped by a crash, or the running commit between insert and answer
(`VerdictInv`). `PublicationInv` adds that the loaded chain is past every block it
handed to Pub/Sub. With `AnswersInv` each step is a step of the ledger or a stutter:
`Persist` of a vote is the ledger's recording, the answer its answer.

### The network

`ChainNetworkProofs`, for any number of elections, votes and workers:

| Theorem | States | Assumes |
| --- | --- | --- |
| `NetworkTypeCorrect` | `Spec => []TypeOK` | |
| `HeldStaysOnDisk` | `Spec => []HeldIsOnDisk` | |
| `HeldGrows` | `Spec => HeldOnlyGrows` | |
| `ReplicasStayGenuine` | `Spec => []ReplicasGenuine` | `MaxLostReplies = 0` |
| `GapsAreTold` | `Spec => []ViewerTellsGaps` | `MaxLostReplies = 0` |

The master's invariants come from `MasterAnswersProofs` (`MP`): a step of the
network is a step of the master or leaves its variables alone. `DiskInv` says of a
worker that is down what it starts from, and of one that runs, until a write has
failed, that cache and file agree and with them every chain in memory. `ReplicaInv`
says of everything a worker has, also of what it fetched and what is on its way, that
it is among the blocks it may have, except messages that no longer hash to
themselves, and that held, cache and file are sorted. Those blocks are a parameter,
and the invariant is used twice: as long as no altered message kept its hash they
are the ones the master stored, and after that the blocks that hash to themselves and
have the index and hashes of a stored one, which is why a vote's block stays
genuine and a genesis block need not. Sorted stored blocks of one election link
exactly when no index is missing, and a worker that is ready was handed a block of
every election its store has blocks of: `ViewerInv` and `GapsAreTold`.

### Ballots and elections

`BallotsProofs`, for all voters, candidates, requests of every kind, any assignment of
requests to voters and all bounds:

| Theorem | States | Assumes |
| --- | --- | --- |
| `TypeCorrect` | `Spec => []TypeOK` | |
| `BallotsStayIn` | `Spec => VotedForGood` | |
| `CountsAgree` | `Spec => []VotesMatchFlags` | |
| `ElectionIsBallotBox` | `Spec => ImplementsBallotBox` | `~GrantsOverlap` |
| `OneBallotEach` | `Spec => []OneBallotPerVoter` | `~GrantsOverlap` |
| `VotesStayTallied` | `Spec => []TallyLostOnlyToStaleWrites` | |

The run has one voter and six requests of the voter's kinds; the theorems have
any number. The assumption `~GrantsOverlap` is the one the run
`ballots_overlapping_grants` shows to be needed. Nothing is assumed of the
administrators.

`TableInv` adds to `TypeOK` how far a request has come (`Progress`): a cast whose
vote is in has passed `RecordVote`, so it is recorded once; a grant that has created
a row is over, so no row is created twice and none is overwritten. From it,
`StepKeepsRows` says what no step does to a row, and that gives `BallotsStayIn`.
`CountInv` adds that both sets are finite and equally large; `StepUsesOne` shows
that a step changes neither set or adds one element to each. `BoxInv` adds what
`TableInv` cannot give, that a voter has one eligibility (`OneRowEach`). It needs
`OneGrantEach`, since between a grant's read, which found none, and its insert
another grant would insert too. With one eligibility its flag says whether the
voter has voted (`FlagsTellVotes`), and every step is then a step of `BallotBox` or
a stutter: a vote that is recorded is a `Count`, an answer a `Reply`, a lost
process or call a `Crash`.

`VotesStayTallied` says what the administrators' races leave. Until a write is made
that its check would have refused at that moment (`~stale`), the status moves along
the table and a locked election's list of candidates only grows (`Lifecycle`).
`TallyInv` says of a cast that once it has read `active` the election is locked for
good (`LockedForGood`), so the candidate it found stays on the list although
everything it read is old when the vote is recorded: a cast's own reads never
cost a vote its candidate.

### The voter's pages

`VoteVerificationProofs`, for any number of tabs, ballots, candidates and damaged
fields, with or without network failures and the guards of finding 5:

| Theorem | States |
| --- | --- |
| `PageTypesCorrect` | `Spec => []TypeOK` |
| `VotedIsShownTruly` | `Spec => []ShownVotedIsCounted` |
| `OneReceiptThatOpens` | `Spec => []ReceiptOpensCountedBallot` |
| `ReportsAreTrue` | `Spec => []ReportTellsTruth` |
| `PassedBallotIsAnchored` | `Spec => []PassedIsAnchored` |

`PageInv` says that a ballot names one candidate three times (in the dialog, in the
sealed record, in the body, unless the last was never sent) and that a tab which
waits for a seal or an answer still knows its ballot. Most steps are `Quiet`: they
change what one tab shows and nothing a ballot depends on. `VerifyInv` adds the
chain, which only grows and whose blocks of the voter are of counted ballots, and
what a verification has established so far (`ViewTells`).

### The portal

`AuditPortalProofs`, for any number of tabs, users, votes and frontends, and any
finite set of candidates:

| Theorem | States |
| --- | --- |
| `PortalTypesCorrect` | `Spec => []TypeOK` |
| `ResultsAlwaysAddUp` | `Spec => []ResultsAddUp` |
| `OnlyApprovedAreAnswered` | `Spec => AnsweredOnlyApproved` |
| `ResultsStayCurrent` | `Spec => ResultsAreCurrent` |

`PortalInv` has two parts besides the types. `CallFits`: a request whose caller is
approved now was approved since it began, so the backend's check, which looks at
the caller in the token, is noted by `approvedSince`. `ReadingFits`: between the
statements of a read, candidates that were entered stay entered since the
election is no draft, and a candidate who is not entered has no votes
(`ElectionTypes`); so the votes of the candidates read are all votes.

Sums of votes are folds, and what a fold gives for every finite set is an induction
over data. The induction is possible here in another form: among the subsets that
violate a claim there would be a smallest one (`SmallestSubset`, from the
well-foundedness of the naturals), and removing a candidate from it leaves one that
does not.

### The administrators' pages

`AdminPagesProofs`, for any finite collections, page size, configurations and
bounds, any extra requests that nothing aborts, and whichever page is open:

| Theorem | States |
| --- | --- |
| `PagesTypesCorrect` | `Spec => []TypeOK` |
| `SupersededStaysAway` | `Spec => []SupersededNeverShows` |
| `VotersStayListedOnce` | `Spec => []VotersListedOnce` |
| `StatusMovesAreRecent` | `Spec => MovesFromRecentStatus` |
| `CardHoldsItsDraft` | `Spec => []EditStartsFromCard` |
| `SaveExcludesRemove` | `Spec => []SaveAndRemoveExclude` |

`LoadsInv` says whose view each request under way has: the effect's and "load more"
have the one chosen, and only reloads may have another. `VotersInv` describes rows by
where they start and end (`Reads`): they are in order, they have everybody between
the two who was there since, and, while no reload has crossed a further page, an
answer of "load more" starts where the table ends, so the two together read like one
longer page. That a page of the backend reads so is what `InOrderLists`
and `KeysetReads` say of `ORDER BY` and the cut after `PageSize` rows. `FormInv` says why `handleDelete` of the card need not
look at `saving`: a form that is saving is not left for the card before its answer,
and drafts are typed only in an open form. `WritersInv` says of every request that has
been checked and not written, this administrator's or another's, that one of the
statuses its election had since it was sent allows what it is about to write.

The proof of `VotersStayListedOnce` did not go through at first, for a good reason.
`since` was one variable, so with two reloads under way (`Extra` of two requests, which
no run had) it mixed two reads, and the property as stated was false of a model whose
table was right. It is now kept for each answer, and TLC agrees with two requests, too.

### What is only model-checked

- Liveness, which is out of the prover's reach (so is `ENABLED`): `EveryVoteAnswered`,
  `SyncCompletes`, `NothingHangs`, `Settles`, `AdminWaitsEnd`.
- The violated properties: a theorem cannot say that they fail.

## What is abstracted

- SHA-256 never collides; a hash is the list of what was hashed.
- A vote is one valid request. Requests with missing fields are answered 400
  before anything happens and are left out; so are status and viewer pages.
- Timestamps: two votes built in the same millisecond are told apart by their
  contents.
- The master stores in Postgres, its production store, where an insert is
  atomic and durable. A master on a JSON file has the worker's file hazards.
- One master process at a time; deployments that overlap two are not modelled.
- A message is altered in the election it names or in its data, which stands for
  everything a block carries besides its index and hashes: in a vote's block it is
  hashed, in a genesis block it is not. An altered index or hash no longer matches,
  as altered data does not.
- A worker's subscription id is random per process, so what an earlier process
  left in its subscription is gone.
- Requests to the backend are valid and authorised; receipt data that does not
  match, unknown ids and missing fields are answered before anything is written.
- Two reads of one request that follow each other directly are one step where
  only one of them reads what the request acts on (a candidate's request reads
  the election and the candidate, a revocation the election and the eligibility).
- One election; its window is not edited; a candidate is its identity.
- A voter's account id and changes of the email are left out, so a voter is
  identified by the email for good.
- Sealing, the commitment and the receipt: what is sealed under a ballot's key,
  and its hash, are named by the ballot. Nothing else opens or fits it.
- The external eligibility service answers anything.
- Between the voter's page and the tables stands `BallotBox`, which `Ballots`
  implements for grants that do not overlap.
- The chain a voter reads has one ballot of another voter before and any number
  of blocks of this voter after it, in any order: what `ChainNetwork` promises a
  reader of a valid chain.
- Sign-in and sign-up are a library's: the result is a cookie. Auditors' members
  and invitations are left out; an auditor is in one organisation.
- Text, layout, icons and colours of the pages; search fields (a filter like any
  other).

Not modelled at all:

- **API keys** (`apps/auth/app/core`). One `SELECT` decides whether a key is good and
  one statement changes it; nothing a request does depends on an earlier step.
- **Chain viewer**, **shared configuration**, **example voters database**,
  **infrastructure, evaluations, documentation**: static pages, set-up at start,
  demonstrations and text.
- Of the modelled components: changed emails and account ids of voters, edits of
  the voting window, the title check across elections, candidates' texts,
  statistics the audit pages show next to the blocks.

## Plan

Done: the chain network, the ballots and elections of the backend, the voter's pages
and verification, audit reads and sessions, and the administrators' lists and forms,
each with its runs, and proofs of all their safety properties. Left, in this order:

1. The composition on paper: `VotingPage` takes `BallotBox` as its backend and
   `VoteVerification` a chain as its source; theorems that a reader of a worker sees
   such a chain (`ViewerTellsGaps` and `ReplicasGenuine` are its parts).
2. Theorems for what is left when an assumption fails: what the master still owes when
   a reply is lost (`StoredOnlyGrows` is one), and what a voter with two eligibilities
   cannot do.
3. Edits of the voting window in `Elections`, changed emails in `Ballots`.
