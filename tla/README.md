# Circuit Bench: specifications and proofs

Circuit Bench is a registry of exact scientific records: decoder versions,
circuit revisions, machines and results of running one on the other.  Accounts
submit records, admins approve them, and everything that happens to a record is
kept in an append-only history.  This directory models the registry in TLA+, checks it with TLC
on small instances and proves the safety properties of its services, pages and forms with
TLAPS for registries of any size.

## 1. Inventory

Components, the state each keeps, its operations, and what makes it correct.

| Component | State | Operations | Correct when |
| --- | --- | --- | --- |
| Submission service, `registry/services/submissions.py` | the rows of the four record tables: state, lineage, references, owner, history, timestamps | `create_submission`, `create_successor_submission` (with or without withdrawal of the source), `update_pending_submission`, `withdraw_submission`, `approve_submission` | public records never change, lineages are acyclic and unbranched, what awaits reapproval revises a withdrawn record |
| Policy, `registry/submission_policy.py` | none | `approval_decision` | only machines are published unreviewed, and never as successors of withdrawn ones |
| Histories, `registry/services/histories.py` | `RecordHistory`, `ModerationEvent` | `history_for_new_record`, `append_history_event`, views of a history | numbers are 1..n per history; replaying the events gives the row |
| History validation, `validate_histories` | none | replay of every history | it accepts whatever the service writes and the migrations leave |
| History migrations, `0006_record_histories`, `0007_repair_legacy_histories` | all histories, once | grouping, numbering, inferring and repairing events | nothing recorded is lost or reordered; the validator accepts the outcome |
| Forms, `registry/forms_submissions.py`, `submission_specs.py` | none | schema and form of a payload, canonical payload | references published, lineage public, what is accepted can be stored |
| Submission views, `registry/views_submissions.py` | previews in the session of the browser | editor, preview, commit, withdrawal, approval | what is stored was validated against the registry as it is then |
| Submission presentation and pickers, `submission_collections.py`, `submission_presenters.py`, `submission_form_layout.py`, `record_pickers.py` | none (reads) | rows with their buttons, selected records of a field | what a page offers the service grants; an unchanged page stores what it shows |
| Accounts and identities, `accounts/` | `Account` flags, `ExternalIdentity`, allauth's `SocialAccount` | sign-in, connect, unlink, admin flags | an identity is not handed from one account to another; nobody unlinks the last one |
| Artifact store, `registry/services/artifacts.py` | objects on disk or in R2, `Artifact` rows | upload, verify, open | a row names an object with its digest |
| Schema releases, `load_schema_releases` | `SchemaRelease` rows | load | all or nothing, and a frozen release never changes |
| Result query and comparison, `registry/result_query.py`, `result_request.py`, `result_comparison.py`, `explorer.py` | none; the state is the address of the page | normalise, filter, sort, page, link | every link answers what it says; a script that fails does not lose the last good one |
| Tables and plots, `registry/result_tables.py`, `result_plots.py`, `plot_controls.py`, `static/js/explorer.js` | none | columns, headings, axes, marks | what is drawn is what is listed, on a scale that can be read |
| Catalogues and record pages, `registry/services/decoders.py`, `circuits.py`, `results.py`, `result_detail.py` and their views | none (reads) | lists, pages of exact records, links | no link leads nowhere; every public record is described |
| Curation, `registry/curation.py` | none (reads) | order of a catalogue | deterministic; moved by published results only |
| Benchmarks, `registry/services/benchmarks.py` | manifests and attempts, written by nothing but demonstration data | summary of attempts | a complete attempt stays complete |
| Filter grid and dialogs, `static/js/filter-grid.js`, `filter-query.js`, `related-record-picker.js`, `explorer.js` | form, overlay, dialog, timers, requests in flight, address | open, edit, commit, cancel, search, select, submit | what is shown answers what was asked; committed edits are queried |
| Templates, demonstration data, settings | none of their own | rendering | not modelled |

The parts interact as follows.  A view parses a request, keeps a validated
payload as a preview in the session, and on the final POST calls one service
function.  The service function is one database transaction: it asks the forms
whether the payload is acceptable, the policy what state it enters, writes the
record and appends to its history.  Several processes serve requests, so service
functions run concurrently and meet only in the database: on row locks, on the
unique index of a lineage field, and in what their unlocked reads return.  Public
pages, the account pages and the explorer only read what the service has written.
Artifacts live in a store outside the database and are tied to it by their digest.

Hard behaviours: concurrent transactions at READ COMMITTED (unlocked reads that
go stale, unique-index waits, deadlocks, rollbacks); long sequences of legal
calls over one lineage; flags of accounts that change between calls; session
state overwritten by a second request of the same browser; crashes between an object
and its row; a query that travels through addresses, links and scripts; numbers at the
limits of their columns; histories written before there was a history.  The hazards are
listed, with their lines, in `PROJECT.json`.

## 2. Modules

| Module | Models |
| --- | --- |
| `RecordLifecycle` | abstract: what the registry promises about an exact record, without accounts, histories, references or forms |
| `Submissions` | the service operations, each as one atomic action, with histories, references and account flags; implements `RecordLifecycle` |
| `SubmissionTransactions` | extends `Submissions`: the statements of the same operations as interleaved transactions |
| `Previews` | extends `Submissions`: previews in the session of a browser, and their commits by the service operations |
| `SubmissionForms` | the numbers of a candidate from the typed form through schema, session and columns and back |
| `Catalogue` | extends `Submissions`: catalogues, record pages and their links, the completeness of a benchmark attempt |
| `Workspace` | extends `Catalogue`: the rows of the account pages with their buttons, the selected records of the editor |
| `HistoryMigration` | extends `RecordLifecycle`: the release without histories, the two data migrations and the validator |
| `Identities` | sign-up, sign-in, connecting, unlinking and disconnecting over allauth's table and the public one |
| `Artifacts` | uploads and schema releases: temporary file, object, row, read-back; crashes, damage and changes of settings |
| `ResultQuery` | operators: parsing, canonical text, filters with nulls, order and pages of the public result query |
| `Explorer` | extends `ResultQuery`: the address of a page of results as the state, and everything a reader does to it |
| `ResultPlots` | the plot beside the results: form, points, ranges of the axes, marks |
| `RecordPicker` | the dialog that searches records, its timer and its requests, and the JSON that answers |
| `FilterGrid` | the filters of a table in the browser: overlays, tag dialog, Autoquery and the next page |
| `RecordLifecycle_proofs`, `Submissions_proofs`, `SubmissionTransactions_proofs`, `Artifacts_proofs`, `HistoryMigration_proofs`, `Explorer_proofs` | theorems about the module of that name |
| `Views_proofs` | theorems about `Catalogue`, `Workspace` and `Previews` |
| `Pages_proofs` | theorems about `Identities`, `SubmissionForms`, `RecordPicker`, `FilterGrid` and `ResultPlots` |
| `MCSubmissions`, `MCSubmissionTransactions`, `MCPreviews`, `MCIdentities`, `MCArtifacts`, `MCExplorer`, `MCHistoryMigration`, `MCCatalogue`, `MCPages` | small instances for TLC |

### Submissions

Variables are columns: `state`, `fields` (lineage, references and one value for
everything else), `owner` (`submitted_by`), `history` (`history_id`),
`publishedAt`, `withdrawnAt`, the set `events` of `ModerationEvent` rows, and the
account flags `active` and `admins`.  A time taken from an event is represented
by that event's sequence number, which is what the validator compares.  The id of
a new history is the id of the record it is created for.

Actions are the service functions: `CreateSubmission`, `CreateSuccessor` and
`ReplaceWithSuccessor` (the two modes of `create_successor_submission`),
`UpdatePending`, `WithdrawSubmission`, `ApproveSubmission`; `SetAccountAdmin` and
`SetAccountActive` are the command `set_account_admin` and the account admin.  An
operation that raises rolls back, so a refused call is a false guard.  What an
operation writes is in a `Store...` operator that takes the latest sequence
number as an argument, so that `SubmissionTransactions` commits by the same
definitions after reading that number earlier.  `Lifecycle` is the instance of
`RecordLifecycle` that the service implements, `state` and `fields` standing for
themselves.

Abstracted: formats, slugs, tags, credits, artifacts, notes; scores and counts are
in `SubmissionForms`.  Noise models, evaluator releases and schema releases have no
operation in the service.

### SubmissionTransactions

Every request runs the `Program` of one service function: `lockRow`
(`select_for_update` of the record and the checks on it), `validate` (unlocked
reads), `insert` (entry in the unique index), `lockHistory` (`select_for_update` of
the history and reading of its maximum), `commit`.  PostgreSQL is modelled from its
use: waits for row locks and index entries, the share locks of deferred foreign
keys at commit, the abort of one request of a cycle, rollback at any point.

### Previews and SubmissionForms

`session` is the stored session of one browser, signed in as `User`.  A request reads
it (`Open`), then either makes a preview (`PostEditor`), commits one (`CommitPreview`,
which contains the whole service operation), or only looks (`Close`; a refused POST
is the same).  A commit names its preview by its position in the session, as its key does.
A request that changed its copy of the session writes all of it back
(`SaveSession`), over what another request has written meanwhile.  A request that
dies is one that never goes on.  `Others` are approvals and withdrawals in between.

`SubmissionForms` follows the numbers of one candidate.  `Post` is one of the two
modes of the editor, with the schema before or after the form; `preview` is the
canonical payload; `CommitPreview` stores rows that the constraints of the database
accept (`Storable`), and the next editor shows `PayloadForRecord`.  A decimal carries
its sign, which zero may have as well, and the way it is written, because the schema
refuses exponents where `str` of a stored decimal produces them, and signs in a text, and
columns round.  The limits of the columns are constants of which
`FormsAssumption` asks only that the decimal ones are multiples of the last digit; `ByDefinition`
is the order in which stored scores are listed.

### Catalogue and Workspace

Pages keep nothing, so a page is an operator over the stored records: `Links(r)` are
the records that the page of `r` leads to, `Shown(x)` says whether that page answers.
`Ordering` chooses the terms of a catalogue's order, from the sort and the search of the
address or as the featured policy has them, and `Before` applies them, the id last; a sort may
name the number of published results.  `Visited` walks from a version
along its lineage until one has a description.  `CatalogueInit` starts with any first versions
that the forms accept, the instance with some of them.  One benchmark with one
attempt is chosen at the start, since nothing but demonstration data writes
benchmarks, and `IsComplete` is computed as the summary of attempts does.  `Workspace`
adds `Offers`, the buttons of a row, and `Accepted`, what the views and the service
then say to them; `RenderedFields` is what an unchanged edit page posts.

### HistoryMigration

`LegacyStep` is a step of `RecordLifecycle` that was recorded as a moderation event or
was not.  `Backfill` is 0006: grouping by union, numbering, and the inferring of what
is missing.  `Repair` is 0007: publications get a cause, and approvals move in front of
them.  `Complaints(r)` is what `validate_histories` reports of the outcome.  The release
before 0006 is not in the repository; what it recorded is read off the cases the
migrations distinguish.

### Identities

`social` and `external` are the owners of the rows of `SocialAccount` and
`ExternalIdentity`.  A callback of a provider checks for a merge (`LoginCallback`,
`ConnectCallback`) and goes on in steps: connecting is `InsertSocial` by allauth and then
`sync_external_identity` by a receiver, signing in is `Authenticated` and the same,
disconnecting is `DisconnectForm`, `DeleteSocial` and `RemoveExternal`.
`sync_external_identity` is a transaction of two steps, because what it checks may be
a row that does not exist and cannot be locked: `SyncCheck` reads, and locks the account
(`AccountLocked`) and the projection if there is one (`RowLocked`); `SyncWrite` is
`update_or_create` and the commit.  `SignUp` and `Join` are the same two for a new account.
`Unlink` is the transaction of the application's own page, which locks all it reads.
`Abandon` ends a request at any step.  What allauth does is modelled from the adapter
and the receivers it calls, and from the two settings that matter (`SOCIALACCOUNT_ONLY`,
no `ATOMIC_REQUESTS`).

### Artifacts

`req[t].phase` is where an upload or a load stands: received into a temporary file,
looked up, persisted, inserted, read back.  `Step(t)` is the next statement of a request
or its failure, `Crash` the end of its process between two of them, `Deploy` a restart
with another backend or with edited contracts, `Damage` the loss of bytes in a store.
Rows of an open transaction carry their request in `txn`: two inserts of one digest wait
for each other in the unique index.  A load is one transaction over all its files, an
upload one of its own.

### ResultQuery, Explorer and ResultPlots

A filter is a sequence of tokens.  `ParseQuery` parses and checks the options of a
query, `Canonical` is the text that links carry, `Matches` is what `_compile_filter` selects,
with the three-valued logic of nullable columns, and `Answers` and `PageOf` are what an
order and a page leave to the database.  The recursion of the parser is a function of what is
read (`or`, `and`, `not`) and from where; what walks a tree is a function on `FilterTrees`, the
trees no deeper than a text may be long.  `Explorer` has the address of
the page (`url`) and the text in the script area (`box`).  `Type` adds tokens,
`RunScript`, `SetFilters`, `Click`, `ShiftClick`, `FollowHeading`, `ResetSort`,
`ChooseColumns` and `Visit` lead to the next address.  `Fails(url)` marks the addresses
that the view answers with an error.  `ResultPlots` reads the plot form as
`_plot_options` does, and computes the points, omissions and axis ranges in integers.  `Logarithm` is
any function that does not decrease, since logarithms are rounded to fifty digits and may
agree for numbers that differ; the instance has two such numbers.  It has a table of digits, linear between them,
which the marks of logarithmic axes also use.  A declaration is refused for its limits
(`AxisRefused`) or because they and the values leave a range empty (`RangeRefused`).  The
linear map to the pixels of the frame is left out.

### RecordPicker and FilterGrid

A script runs between events, so each event is one action: a click, a key, a timer, the
answer of a request.  In `RecordPicker` the variable `requests` holds the requests that
were neither answered nor aborted, and `dialog.buttons` what was drawn last, which is not
always what the page number says.  `Found` lists the records that the server finds for each
text.  In `FilterGrid` the inputs of the form, the active
overlay (which a retracting one stays until its timer fires), the tag dialog, the
preference `autoquery`, the timer and the page under way are variables; `Load` replaces
all of them but the preference.

## 3. Runs

| Run | Instance | Shows |
| --- | --- | --- |
| `sub_decoders` | 3 decoder versions, two edits of each, one account whose flags toggle | replay of histories, lineages of candidates for reapproval, refinement of the lifecycle |
| `txn_all` | 3 requests of all six operations on a published version, a candidate and two new ones | every interleaving, rollback and deadlock: numbering, atomicity of what locks its record first, frozen records; every request ends |
| `previews` | 2 overlapping requests, 2 previews, a candidate result, a new one and the records they refer to | stale previews are revalidated and respect withdrawals |
| `identities` | 2 accounts, 2 GitHub identities and 1 ORCID identity, 2 overlapping requests | no SocialAccount is handed over, a projection only by a first sync that looked before it was there; only a disconnect takes the last way to sign in |
| `artifacts` | 2 uploads or loads of 2 contracts, both backends, one upload too large, one object that may be damaged | rows have their objects, equal bytes one artifact, loads are atomic; every request ends |
| `explorer` | 4 results with null columns, filters of up to 12 tokens, 6 addresses, 6 scripts; then the plot forms | canonical text, pages, links, fall-back, headings; points and axes |
| `migration` | 3 records, 3 recorded events | the migrations leave what the validator accepts, with one exception, and keep what was recorded |
| `catalogue` | 3 decoder versions, 2 circuits, 2 machines, 2 results, a benchmark of 2 circuits | links, descriptions, order, completeness; buttons that do what they say, unchanged edits, review of successors of withdrawn records |
| `pages` | one candidate with drafts at the boundary of every check; 3 records in pages of one; one filter of each type | numbers that can be stored, and a history that shows what the editor shows; the dialog shows what was asked; no filter edit is lost, all are queried |
| `lineage_edit`, `txn_approval_race`, `reapproval_edit` | | counterexamples, see below |

Bounds.  `MaxEdits` of `Submissions` bounds the edits of each candidate, the only
operation that repeats for ever; everything else is finite because a record enters once
and is withdrawn at most once.  Three records make lineages of length three, two
candidates for one source, and an edit that moves a candidate between two sources; three
requests make a cycle of waits of any shape the program allows, since it takes at most
three locks in two orders.  One account that is an admin suffices where authority is not
in question; who may manage a foreign record is in the guards and in no run.  `previews`
has a limit of one preview instead of eight, so that two requests already evict.
`catalogue` stops after `MaxSteps` events, which is a withdrawal and a revision of
everything a result refers to, and edits each candidate once at most; `SortTexts` are
the sorts that addresses ask for, by most and by fewest results among them, and
`ColumnValue` the other columns.  In `pages`, 9 and 5 stand for the largest values of the
two integer columns, 40 is the decimal 1 and `Fine` 4 its last digit; drafts meet and
miss every check by one.  `MaxEdits` of `FilterGrid` is the number of committed edits,
two of which suffice for one to come while the page of the other is under way;
`MaxOpened` and `MaxTyped` let the timer of a closed dialog fire in the next one.  The
three pages do not interact, and the run explores one of them at a time; likewise the
plot of `explorer` changes only on a page that is otherwise untouched.  Records of one
kind and records not stored yet are interchangeable, which is the symmetry used; runs
with liveness use none.  `txn_all` numbers its requests by `RequestCount` and begins them in
that order.

`CHECK_DEADLOCK FALSE`: a registry all of whose records are withdrawn, a page whose bound
is used up and a store all of whose requests have ended have nothing left to do, and after
failed connections two accounts may hold each other's identities so that every sign-in
is refused.

Fairness.  `FairTxnSpec` assumes that the database runs some statement while there is one
that has nothing to wait for, or aborts a request of a cycle of waits.  `Artifacts!FairSpec`
assumes the same of each request, since uploads wait for no user; a crash may end it.
`FairPageSpec` assumes that timers of the browser fire and that a page asked for arrives.
Nothing is assumed of users, of admins, or of the arrival of requests.

## 4. Disagreements between code and documents

Checked, each by a run that finds the counterexample:

- `lineage_edit`: editing a `pending_review` candidate may change its lineage
  field, but not its history, nor is a `revision_created` event written.  The design
  document says event and field change together, and `validate_histories` reports
  the result as corrupt.
- `txn_approval_race`: approval rereads the references of a result without locking
  them.  A withdrawal that commits first is not seen.
- `reapproval_edit`: the editor forces the lineage of a candidate for reapproval to
  the candidate's own id, which its form never offers, so that no such candidate can
  be edited in the browser.  The governance document says it can.

`ReferencesNeverPrivate` and `LineageWellFounded` are unaffected by these races: they
ask for public records, not for published ones.

Met while modelling, and part of the models as the code has it; where a property would be
false for one of them, the property names the exception:

- A first-class submission that names a lineage has the same weakness as an approval:
  if what it names is withdrawn before it commits, a machine is published by policy
  although it revises a withdrawn one.
- The disconnect page of allauth, which the site serves, validates without locking the
  account: with an unlink or a second disconnect it removes the final identity, which the
  data model document excludes (`UnlinkKeepsSignIn` says it is the only way).
- Two first syncs of one identity, or a sync and a sign-up, both find no public row, and
  the slower one takes over the row that the faster one made: `accounts/services.py:137`
  locks a row that is not there.  The data model document says that merging is never
  automatic (`docs/data-model-0.1.md:190`); `IdentitiesKeepOwner` names the case.
- A duration entered as the number -0.0 is previewed, and its canonical text "-0.0" is
  refused by the schema at the final POST (`ZeroRefused`); the history of an edit keeps the
  sign of a zero score, which the column does not (`KeptExactly`).
- Two limits of a logarithmic plot axis that differ by less than the fiftieth digit of their
  logarithms fail the declaration of the plot, which has no handler (`LimitsMerge`).
- `services/artifacts.py:284` reads an object back after its row was committed, so that a
  failed upload keeps its row, against the docstring at line 28.
- The links of a page keep noise models that do not exist (`LinksAnswerPage`).
- Migration 0006 infers a missing publication behind the withdrawal that was recorded
  (line 203), and `validate_histories` rejects the history, against
  `docs/submission-history-design.md:486` (`MigratedValidates`).
- `static/js/explorer.js` sorts a new column in ascending order whatever the default of the
  column, against `docs/interface-design-plan.md:493`.
- The same script reads the sort parameter raw: a key without a column, which the page passes
  over, counts as the primary one when a heading is clicked.
- A page fails outright for a literal `&` in a filter, for more than five sort keys, and for
  a scripted order on a column that is missing.
- The edit page drops a predecessor that was withdrawn since the submission
  (`UnchangedEditKeeps`), and the successor shown of a machine is the one created first, even
  if it is not published.
- Confidence levels that round to 0 or 1, and integers beyond their columns, pass the forms and
  fail at the final POST, which does not catch the error (`PreviewsStorable`); a tiny duration
  read back is written with an exponent that the JSON editor refuses (`RepostUnchanged`).
- A limit of the range filter that is no whole number makes the hidden input invalid, and
  Autoquery then submits nothing, without a message, against `docs/development-plan.md:213`
  (`QueryFollowsForm`).
- An edit committed while a page is under way is lost if that page arrives before the timer
  of the edit; tags ticked in the open tag dialog are submitted if the timer of an earlier
  edit fires then, even if the dialog is cancelled afterwards (`EditsNotDropped`).
- An overlay of the filter grid that is opened while another one retracts loses its frozen
  grid when the timer of the first fires (`static/js/filter-grid.js:158`), against
  `docs/interface-design-plan.md:293`; the freezing itself is layout and not modelled.

## 5. Proofs

`RecordLifecycle_proofs` proves type correctness, `LineageWellFounded`,
`OneSuccessor`, `ReapprovalFollowsWithdrawal` and `PublicFrozen` of the abstract
lifecycle, for every set of records and every assignment of kinds, from
`LifecycleAssumption`.  `LineageWellFounded` is not inductive alone: a step that sets
a lineage could close a cycle if some record already named the one that changes.
The invariant adds `LineageIsPublic`: only candidates and new records change their
lineage, and nothing names those.

`Submissions_proofs` proves, from `SubmissionsAssumption`:

- `TypeCorrect`;
- `HistoriesContinuous`, by the invariant `HistoryInv`: per history the numbers are an
  interval from 1 (which makes the `CHOOSE` in `Latest` a maximum) and used once;
- `ServiceImplementsLifecycle`: every operation is a step of the abstract lifecycle or
  leaves it unchanged.  The lemma `NextOperations` lists the operations with the types of
  their inputs, for all proofs by cases;
- `LineagesWellFounded` and `SuccessorsUnique`, carried over from the abstract proofs
  through the refinement;
- `PublicRecordsFrozen` and `NoPrivateReferences`, from the same step lemmas;
- `HistoriesReplay` (`HistoryProjectsState`), by the invariant `ReplayInv`: each row is in the
  history of its record, and `Replays` relates the rows of a record to its state and its
  times.  What the command recomputes is not inductive: an approval is right only because
  a candidate has no publication or withdrawal behind it, and a withdrawal because the
  rows before it have smaller numbers (`MineBounded`, from `HistoryInv`);
- `ReapprovalInLineage` (`ReapprovalKeepsLineage`): a candidate is one already, with the lineage it
  had, or has just been stored after its source was withdrawn (`NextCandidateStep`);
- `WithdrawnSourcesReviewed` (`WithdrawnSourceNeedsReview`), with `PolicyInv`: what policy approved
  is public, so its lineage is final, and shares a history with the record it revises.

`SubmissionTransactions_proofs` proves, from `TransactionsAssumption`, what the locks guarantee for
any number of requests under every interleaving, abort and rollback:
`TransactionsTypeCorrect`, `ConcurrentHistoriesContinuous` (`SequencesContinuous`) and
`ConcurrentRecordsFrozen` (`PublicRecordFrozen`).  `TxnInv` says of each running request what
the statements it has passed still guarantee: the locked row has the state the operation
asked for (`RowInv`), a lineage validated without a lock is at least still public
(`LineageInv`), the sequence number read under the lock of the history is still its largest
(`NumberInv`), and no other request stores the same new record (`FreshInv`).
`OtherRequestKept` says what a step has to leave alone for the others, `Effect` what a commit
does to the tables, and `ProgramOrder` which statements come before which.  Without the
assignment of `historyLock` in `LockHistory` the proof fails at that statement.

Two more theorems are about the operations that lock the record they are about first.
`CommitsSerialise` (`CommitsAreOperations`): their commits without references are operations of
`Submissions`.  `SerialInv` says what a request still knows when it commits: the state and the
fields of the row it has locked (`HoldsOwn`, `Admitted`), what it validated and nobody can take
back (`Validated`), and an entry of the unique index that no record or other request shares
(`IndexFact`).  With references it is false, which `txn_approval_race` shows.
`DeadlockFreedom` (`DeadlocksNeedUnlockedLineage`): `WaitsOn` says whom such a request can wait
for; a circle of them would have to lock rows after histories, or wait at a commit for a row
of a kind that no result is.

`Pages_proofs` proves of `Identities`, from `IdentitiesAssumption`: `TypeCorrect`, `OneSubject`
(inductive with it: whoever signs up owns nothing yet, and a synchronisation checks under
the lock of the account), `LockedRowsStay` (what a sync has found stays until it ends),
`IdentitiesStay`, which needs that of the syncs that found a row and names the others, and
`UnlinkIsSafe`, a step property under the type invariant.

`Artifacts_proofs` proves, from `ArtifactsAssumption`: `ArtifactsTypeCorrect`, `RowsAreBacked`
(`RowsHaveObjects`), `OneArtifact` (`UploadsAgree`) and `LoadsAllOrNothing` (`LoadsAreAtomic`), for
any number of requests, contents and contracts.  None of them is inductive: whether a
row has its object depends on what a request saw before it came to the insert, and whether a
load is complete on what it did for the contracts it has passed.  `ArtifactsInv` adds
that: `PhaseInv` and `CourseInv` say of each request what its phase promises, `OwnerInv`
that uncommitted rows belong to running loads, `ReleaseInv` that the artifacts of a release
are visible wherever the release is.  Each step is split into what it leaves to the
others (`Keeps`, lemma `OthersKeep`), what it does to the tables (`ExtendsTables`,
`RollBackTables`, `ObjectsKeep`) and its own request.  `FirstIn` takes the first contract
of a set from the well-foundedness of the naturals.

`Views_proofs` rests on `RegistryInv`: the invariants of `Submissions_proofs` that concern what is
public, and `Formed`, which says that the fields of a stored record have the shape the forms
accept.  `KeepsFields` and `TakesFields` are the two things an operation does to a record.  It
proves, from `SubmissionsAssumption`, `WorkspaceAssumption` and `PreviewsAssumption`:

- `PagesAnswer` (`PagesResolve`), with `BenchmarkInv`: the constraints on memberships hold for good;
- `DescriptionsPublic` (`DescriptionsFound`): the walk along the lineage ends, because the lineage is
  well founded (`DescriptionReached`), and where it ends is public;
- `OrderOnlyFollowsResults` (`OrderFollowsResults`), a step property: only an approval or a withdrawal
  of a result changes which results are listed (`ResultsMove`).  The first term on which two
  entries differ decides (`FirstPosition`), and if their order turns, a term by results comes no later
  than it and the counts have moved (`FirstResultsDecide`);
- `CompleteAttemptsStay` (`CompletenessKept`), a step property under the invariant;
- `OffersAreHonoured` and `UnchangedEditsKeep` of `Workspace`;
- `PreviewsTyped`, `PreviewsRevalidated` and `PreviewsRespectState`: every commit of a preview, however
  old and whatever another request has saved over it, is an operation of the service.  The
  invariant `PreviewsInv` says that the previews of sessions and requests name records (`Kept`).

It also proves, of what happens in the browser, from `PickerAssumption` and
`FormsAssumption`:

- `EditsSurvivePages` (`EditsNotDropped`), by `UnderWay`: a page under way says what the form says,
  as long as no submission is due;
- `DialogSettlesOnItsAnswer` (`SettledDialogAnswers`), by `SettledInv`: with no search due, the one
  request under way asks what the dialog says, or its answer is shown with its own buttons;
- `PreviewsStored`, `HistoryShowsRecord` (`SnapshotMatchesEditor`) and `RepostsChangeNothing`, by
  `CandidateInv`: a preview is in the canonical form of the payload (`PreviewInv`), a stored row is
  what the columns make of one (`RowInv`).  Payload and row part at the columns, and the editor
  comes back to the payload by three conversions, so that the second theorem has to say
  exactly when nothing is lost.  The lemmas before them say what rounding keeps: limits that are multiples of
  the last digit, and whatever has no more digits than the column.

About `ResultPlots` it proves, from `PlotAssumption`, `EveryPlotDeclared`: the repair of the plot form
leaves nothing that the declaration refuses but two limits whose logarithms are equal (`LimitsMerge`).
A limit is dropped before it can be one that a logarithm does not have, and no other range is
empty, because both scales keep the order of numbers where they tell them apart
(`TransformIncreases`) and padding is positive (`EdgeSpanPositive`).  Numbers so large that decimal
arithmetic overflows, such as a limit of 1E+5000000, are outside the model.
`PointsAreThePage` (`PointsShowPage`): every result of a page is a point inside the frame, in the
order of the page (`InOrderLists`), or left out for one reason, and its whisker reaches it
after it is cut to the frame (`WhiskersReach`).

`Explorer_proofs` proves, of the query language and its pages, from `QueryAssumption`,
`WordsAssumption`, `DefaultsAssumption` and `ExplorerAssumption`:

- `SpecTyped`, the type invariant `Typed`: whatever a reader clicks, the next address is well formed;
- `DraftsSplit` (`DraftsDivide`), for filters of any length, any finite set of results, and pages of any
  size.  A recursive function exists because it is built up depth by depth (`TreeRecursion`), or
  position by position from the end of the text (`DownTo`, `AllRead`), each stage agreeing with
  the one before (`CombineAgrees`, `ChainAgrees`).  A node takes a token more than its depth
  (`Reached`), so what is parsed is a tree (`FilterRead`).  By induction over depth (`FilterDivides`),
  under either parity of negations a filter without scores is never unknown and is true exactly when its
  negation under the other parity is not.  The identifier makes the order total (`KeyDecides`), so the
  database has one answer (`OneAnswer`) and neighbouring slices of it join (`SlicesJoin`);
- `DraftsMeanSame` (`DraftsKeepMeaning`), for filters of any length and nesting.  A parsed tree is not
  the one that is read of its canonical text, since "or" in "or" and "and" in "and" lose their
  parentheses: the two are `Normal`, alike in text and value, the second no larger or deeper.
  A text is read alike wherever it stands: `One` says so of one operand, `Chain` of operands that an
  operator joins, whatever comes behind them.  Both go up the tree (`OneNegated`, `ChainEnclosed`,
  `ChainsJoin`), so that each tree the parser returns is `Settled` (`LeafSettled`, `NotSettled`,
  `LogicSettled`, the last by joining the `Flattened` operands of the children).  The canonical text is
  accepted because it is no longer than what was parsed: parentheses that `Render` writes stood there
  (`Widths`, `AllFits`, by induction from the end of the text).  Lengths are counted in tokens;
- `LinksKeepAnswer` (`LinksAnswerPage`).  Under the keys of a sort and the identifier the results are
  strictly ordered (`PrecedesOrders`), so that every set of them has one that may stand last (`SomeLast`)
  and a query has an answer (`SomeAnswer`), and only one (`OneAnswer`).  The link is the canonical text of
  the query of the page, whose fallbacks are all well-formed (`QueryAsked`), so it reads as that query
  (`MeaningKept`), over the same population if the page drops no noise model;
- `ClicksGoByMarks` (`ClicksFollowMarks`) and `LastValidStays` (`LastValidSurvives`), step properties
  under the type invariant.  The proof of the first needs that the sort parameter, which the page's
  script reads raw, has no key that the page passes over; the property says so.

`HistoryMigration_proofs` proves `HistoriesAreLineages` (`OneHistoryPerLineage`) from
`LifecycleAssumption` and `MigrationAssumption`, for any finite set of records.  `RegistryInv` is the
invariant of `RecordLifecycle` together with "the rows are the records that were created", so a
lineage field always names a row.  After n rows of `_components` the parents never climb to a larger
number, so every record has one root (`RootsExist`); a set that is closed under lineages holds a record
exactly when it holds its root (`LinkedCloses`), and the two records of a row that was read have
one root (`LinkedJoins`), which later rows keep since `Union` gives all records of both parts the smaller
root (`UnionRoots`).  Together, equal roots are chains of lineages (`RootsAreLineages`).

`NothingRecordedIsReordered` (`RecordedOrderKept`) follows the table of events through both
migrations.  Its invariant is `TableInv`: every row is about a record that was created, and from 0006 on
the table is `Sound`, each row in the history of its subject with a number that no other row of
that history has.  Uniqueness is needed because `Reorder` shifts a range of numbers by one and puts the
approval in the gap: with two rows of one number the order of others could collapse
(`ReorderKeeps`).  `NumberedInOrder` and `AppendAllKeeps` give 0006: rows are counted within a
history, and inferred events go behind its last number.  0007 is a chain of tables that each
`Keeps` the order of the one before (`StoredKeeps`, `WithApprovalKeeps`, `ReorderKeeps`), whatever
sequences the list of publications was read with; that list is an enumeration of its keys
because a finite set under a strict total order has one member of each rank (`Ranked`,
`InOrderMembers`).

`MigrationsValidate` proves the whole of `MigratedValidates`, from these assumptions and
`NullAssumption` (a null column is no state and no name): `validate_histories` finds nothing in any
registry after both migrations, except that it replays a record whose withdrawal was recorded
and whose publication was not to "published".  Beside `TableInv`, with `CausesFirst`, the invariant is
`ContentInv`:

- before 0006 the table tells what `Occurred`: the actions recorded of a record fit the state it is in
  and may follow each other (`Fits`, `MayFollow`), with the columns of `LegacyEvent`;
- after it the numbers of a history have no gap (`Chained`), each row reads well on its own
  (`Readable`), and the story of every record is `Finished`: all that it went through is told, no edit
  comes after a publication, and the last row that shows a state (`LastShown`) shows its own, or
  "published" when its withdrawal came first (`Outcome`, `Unannounced`);
- after 0007 an entry or edit without a snapshot says that there is none (`SnapshotsTold`).

0006 completes one record after another.  `Telling` is the invariant of that: a record is `Pristine`, as
it was recorded, or `Finished`, and what is inferred of one leaves the others alone (`OwnSame`).  What
`MissingEvents` infers comes in the order of a lifecycle (`Told`, `MissingTold`) and goes behind what is
there (`Continues`), which makes a pristine record finished (`PristineFinishes`).  The
approval and the publication inferred are written next to each other (`Paired`, `InferMissingKeeps`).
In 0007 a moved approval only moves forward, so no other publication that names it loses it
(`ReorderExplains`), and the numbers remain without gap (`ReorderChained`); every publication is in the
list (`Listed`) and is left with a cause (`Explains`); rows keep what they tell, and approvals, which
show no state, are all that is added (`Retells`, `RepairFinishes`).  The replay is a fold of
the community modules.  Its recursion is written out as a function on sets of numbers
(`Replays`), which exists and has one value at the whole stream, that of the last row that shows a
state (`ReplayExists`, `Replayed`, `ProjectedShown`).

Only model-checked:

- `AxesReadable`, which depends on the table of digits and on a bounded number of decades;
- liveness under fairness: `EveryRequestEnds`, `JobsEnd`, `QueryFollowsForm`.

## 6. What is left, and what is not modelled

Not modelled: templates, formatting and public pages without records, demonstration data,
deployment and settings have no state of the program's own whose steps could go wrong.
Columns that migrations add or drop, catalogue filters (which narrow a list), writers of
benchmarks (there are none but the demonstration data), the searched fields of the record
dialogs, the placing of overlays, the focus, and the scroll position and open panels that the
browser remembers are left out of the modules that touch them.  Edits of records through the
Django admin bypass the service and can break any of its invariants by design.
