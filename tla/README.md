# Verification of the ADT orchestrator

ADT keeps a project's backlog as markdown files in a local cache,
`.claude/adt-cache/<lane>/<slug>.md`, and mirrors every ticket to a GitHub Issue and to a card on
a GitHub Projects board. Several agent sessions edit the cache of one machine; several machines
share the Issues; a timer on each machine runs a reconciliation pass every minute. Nothing locks
GitHub, every process is short-lived, and any of them may be killed. This directory states what
that system promises as TLA+ modules, checks them with TLC on small instances and proves some
of the promises with TLAPS for instances of any size.

Paths below are relative to the repository root without the leading `src/`.

- [Inventory](#inventory)
- [Modules](#modules) and how they correspond to the code
- [Runs](#runs): what each shows, with which bounds and which fairness
- [Disagreements between code and documentation](#disagreements)
- [Proofs](#proofs)
- [What is not modelled](#not-modelled)
- [Plan](#plan)

## Inventory

### The parts and how they meet

```
 sessions (agents, humans)                 github.com users
   | edit, mv between lane folders            | relabel, close, reopen
   v                                          v
 cache <lane>/<slug>.md  <--- pass --->  Issues, stage: labels, comments
   ^        ^                  |                 ^            |
   |        | frontmatter      | card, column    | comments   | pull
   |     render (build_kanban) v                 |            v
   |        ^              Projects board     checkpoints   cache of another machine
   |        |                                    ^
 adt_watch tick (one process a minute)       token ledger <--- hooks of the sessions
   pass lock, backoff, breaker
 .adt-sync-state.json (sidecar): file_hashes, pull state, board_index, project_ctx, watch
```

| Component | State it keeps | Operations | What makes it correct |
|---|---|---|---|
| Reconciler, `tools/adt_sync.py` `reconcile_all`, `reconcile_one`, `pull_all`, `_relocate_to_stage` | `file_hashes` in the sidecar, by path; the pass's listing and fetched Issues | push of a changed file (fetch, edit, close/reopen, card), pull (relocate, write back, reconstruct), save | skipping a file leaves no work behind; a pull never undoes a local move; a machine never reverts another's change without news of its own; one file per Issue; passes come to rest; machines agree |
| Pass lock, `pass_lock` | the flock on `.adt-sync.lock` | take, contend, fail open, release, kernel release | one pass at a time; never wedged; a broken lock never stops the sync |
| Board caches, `_project_ctx`, `_board_index`, `ensure_on_board`, `_board_write`, `_invalidate_board_caches` | `board_index` and `project_ctx` in the sidecar and in the process | resolve, trust, add card, set column, invalidate, persist | no write stuck on a stale id; a card left alone because of the index is where the machine put it; cards end in their lanes |
| Watcher, `tools/adt_watch.py`, `lib/watcher.sh` | `watch` in the sidecar: fingerprint, quiet count, next due | skip, contend, breaker, pass, save, render | no change waits longer than the cap; a quiet board goes quiet; days of quiet never kill the watcher |
| Ticket serializer, `tools/ticket_serializer.py` | none; the Issue body carries the Definition of Done and the slug | `to_issue`, `from_issue`, `emit_md`, `parse_md` | the Issue alone rebuilds the ticket; no prose is lost; machines that edit nothing change nothing |
| Renderer, `tools/build_kanban.py` | the frontmatter it repairs | `sync_stage_frontmatter`, then HTML | rewrites only files whose frontmatter lags, from text that is still current |
| Pull watermark, `pull_all` 1749-1926 | `last_pull`, `last_full_pull` | incremental list, hourly sweep, clamp, filing claim, grace | every remote change is seen; an Issue being filed here is not rebuilt |
| Token checkpoint, `checkpoint_tokens`, `restamp_closed`, `checkpoint_stamp` | cursors, register and stamp comments | post the sum, advance cursor, correct the cost, publish the stamp | no reader sees more than was spent; a closed ticket is reported in full; one stamp, which settles |
| Token ledger hooks, `defaults/hooks/adt-token-*.sh`, `adt-reattribute.sh` | ledger rows, a cursor per transcript | bill the own transcript at a Stop, sweep the transcripts of dead sessions, re-attribute rows | every turn billed, twice only by accident; every row on one card |
| Cost of the ledger, `tools/adt_cost.py`, `Item` of `build_kanban` | none | price rows, fold registers into cards, what no card claims | a card shows its rows and what other machines posted, each once; "measured" only if all of it is |
| Machine reports, `tools/adt_machines.py` | the install Issue, one comment per machine, `machine-report.json`, `machines.json` | find or create the Issue, update or post the comment, read the others | every installed machine is listed once; duplicates come from accidents only |
| Phone home, `tools/adt_phone_home.py`, `build_kanban.machine_id` | `install-id`, a stamp per day and name | stamp the day, mint the id, ping | an install pings under one id |
| Definition-of-Done grader and plan gate, `tools/adt_dod.py`, `adt-done-guard.sh` | verdict blocks in the body; `gate_effects`, `dod_snapshot` in the frontmatter | grade, gate, record a verdict, derive its effects, guard the done lane | no build on stale verdicts; what fails is reported; gates are credited with edits they caused; all readers read the same |
| Ticket pages, `md_to_html` of `build_kanban` | the scan position, per quotation level | one block per step | it ends, and every line is on the page |
| Usage collector, `collector/` | a Durable Object: budgets, dedup keys | admit, count, store | not modelled |

The parts without state worth following (guards that match one command line, reports, HTML,
installers, agent prose) are listed in `PROJECT.json` with the reason they are left out.

### What is hard to test here

The list with its lines is `hazards` in `PROJECT.json`; the threads through it are:

1. *Read, await, act.* A pass lists the cache, then spends minutes on `gh` calls, then records the
   hash of what is on disk *now*. Sessions are not locked out.
2. *Keys that outlive what they name.* Hashes are keyed by path, and a ticket returns to a folder
   it left; index entries are keyed by Issue, and another machine moves the card.
3. *Two machines, differences of label sets.* Each computes `add`/`remove` from an Issue it read
   earlier.
4. *A pulled change that looks like local news*, is pushed, is pulled elsewhere and so on for ever.
5. *Half a pass*: failing calls, an exhausted quota, `kill -9`, a lost sidecar.
6. *Backing off* without starving somebody, and without overflowing.
7. *Effect, then note of it*: ledger row, then cursor; comment, then its id; Issue, then its number.
   A process that dies in between does the effect again.
8. *Several readers of one text*: the gate, the recorder, the guard and the serializer each scan
   the ticket's markdown with rules of their own.

## Modules

| Module | Models | Composed with |
|---|---|---|
| `AdtSync` | sidecar, pushes, pulls and the render's frontmatter repair, for every machine, with sessions, users and accidents between any two steps | the render of `adt_watch`; the Issues join the machines |
| `IssueText` | what pushes, pulls and rebuilds do to the text of a ticket | the same passes as `AdtSync`, each one step; `AdtSync` takes the text for one value |
| `PassLock` | which passes of one machine overlap, and what that does to creation and hashes | its mutual exclusion is why `AdtSync` gives a machine one program counter |
| `BoardIndex` | the cards, the field ids and the two caches of them | its pass is `AdtSync`'s, reduced to "push label, then card" |
| `WatchTick` | when a machine runs a pass | its pass is atomic in its effect at `Finish`; `AdtSync` has the inside |
| `Mirror` | abstract: what the cache lacks is absorbed in the end | |
| `PullWatermark` | which Issues a pull gets to see, and when it rebuilds a file | implements `Mirror`; stands in for the full list of `AdtSync` |
| `LedgerCost` | operators: pricing a ledger, adding it up into cards | |
| `TokenLedger` | the hooks that write the ledger, the script that rewrites it | extends `LedgerCost`: the cards are checked on every ledger the hooks can produce |
| `TokenCheckpoint` | register, cursor, correction and stamp of one ticket | the middle of `AdtSync`'s pass; what `TokenLedger` bills it posts |
| `DodGrade` | operators: grading a list of conditions, its dependency defects | |
| `PlanGate` | the life of a plan: edits, reviews, records, the gate, the build, the done guard | extends `DodGrade`: the grader is checked on every list of the run |
| `DailyReport` | machine reports and pings, one watcher per machine | runs after `WatchTick`'s pass; shares the install id with the render |
| `TicketPage` | the block scanner of ticket pages | runs inside the pass that `PassLock` lets in |
| `PassLockProofs`, `AdtSyncProofs`, `PullWatermarkProofs`, `DailyReportProofs`, `PlanGateProofs`, `TokenCheckpointProofs`, `TokenLedgerProofs` | the [theorems](#proofs) about these modules; `PlanGateProofs` has the grader's too | |
| `WatcherProofs` | the theorems about `WatchTick` and `BoardIndex`: what a machine's watcher and its board caches guarantee | extends the first, instantiates the second as `Board` |
| `MC*` | values for the constants of a run | |

### AdtSync

All tickets of the module share one slug, so that a ticket's path *is* its lane folder; this is
the only way two tickets can meet in a cache (`_cache_path_for`, `_relocate_to_stage` guard 4).
A file is a record of its ticket, the `stage:` and `state:` of its frontmatter, and a number that
stands for its title and body; its push hash is the record itself (`_push_hash` drops the fields
GitHub owns, so two files hash alike exactly when these fields agree).

| Code | Action |
|---|---|
| `reconcile_all` up to the listing | `Start`, then `Walk` |
| hash test and duplicate test | `Skips`, `PushSkip` |
| `reconcile_one`: `gh issue view` / `edit` / `close`, `reopen` | `PushFetch`, `PushEdit` (`Edited` is the label difference), `PushState` |
| `new_state[path] = _push_hash(...)` after the calls | `PushRecord` |
| a failing call; `RateLimited` | `PushError`; `RateLimited` |
| `pull_all`: list, index | `PullFetch`, `Walk` |
| `_relocate_to_stage`: guards; rename; rewrite | `Relocates`; `PullRename`, `PullDies`; `PullRewrite` |
| `_write_back`, nothing to write, `_cache_path_for` | `PullWrite`, `PullSkip`, `Reconstruct` |
| re-keying, `_persist_state` | `Rekeyed`, `Persist` |
| `sync_stage_frontmatter` | `Walk` (of `load_items`), `RenderFix`, `RenderDone` |
| a tick under the floor | `BreachedTick` |
| a killed process; a deleted sidecar | `Crash`; `LoseSidecar` |

`sent` and `worked` are history variables: what a machine last exchanged with an Issue, and which
tickets its sessions worked on since. No step's guard reads them; they let the properties speak of
"unpushed work". A push settles a ticket's work when the file is still what it pushed and lies as
its frontmatter says; after a move the frontmatter is still to be rewritten and pushed once more, so
the work goes on. A behaviour lives in one of the
`Worlds`: a set of machines and tickets, the hard behaviours its environment has (`Env`) and how
many events of each kind it may see. Without `"midpass"` sessions act only between passes, and a
walk is one step; with it they act between any two steps and a walk reads folder by folder in any
order.

### IssueText

A text is the sequence of its lines, reduced to the kinds the codec tells apart: the heading of the
Definition of Done, another heading, an opening and a closing fence, the two lines that mark a
fence as generated, a condition, a slug trailer, a blank line, prose. What the regular expressions
of `ticket_serializer` do to it is spelled out on the lines: `Section`, `Fences`, `Rendered` (the
generated block goes in, is replaced or taken out), `DodOn` (it is read back), `WithTrailer` and
`SlugOn`, `Reread` (a file ends in one newline, which the reader takes off). `Create`, `Update`,
`PullWrite`, `Rebuild` and `Render` are the reads and writes of a pass that use them, each whole;
`stale` says that the Issue changed under a file, which is what makes a pull rewrite it. How YAML
quotes a value and the fields no label or body carries are left out.

### PassLock

`Begin` is `pass_lock` yielding `True`; a contended pass changes nothing and is no step. `flock`
says whether locking works on the directory: where it does not, `pass_lock` fails open (adt_sync.py
382-390) and the passes overlap, which the model allows. `Create`, `Bind` and `LookupError` are
the creation branch of `reconcile_one`; `Save` is the wholesale replacement of `file_hashes`.
`Kill` is `kill -9`: the kernel drops the flock, nothing else is cleaned up.

### BoardIndex

`FindContext` is `_project_ctx` and `FindIndex` is `_board_index`: the process's value, else the
sidecar's, else GitHub's. `NoProject`, `AddCard`, `AddUnheard`, `FindCard` and `SkipCard` are the
ways through `ensure_on_board` and `_board_write`, `SetStatus` and `SetNothing` the two of
`_set_status` (the second is its silent no-op for a lane without an option, after which the index
records the lane all the same), `Invalidate` is `_invalidate_board_caches`, `Save` is
`_persist_state`. Both reads are outside of the `try` that invalidates, so `ReadFails` drops
nothing and `WriteFails` drops both caches.

An administrator may delete a card or a column, or recreate the Status field with some of the
columns (which changes its id); a call may fail, answer nothing (`"blank"`) or hit the quota; a
process may be killed. The lanes a pull brings change files without a word to the board, as in
`pull_all`. Two history variables hold what the properties have to tell apart. `knows[t]` is who
wrote the column of t's card last, or has read it since: another machine's write takes it away from
everybody else, a kill from the killed machine, since its sidecar did not hear of the write, and
`SetNothing` from the machine that takes for written what is not. `adrift` is the tickets whose
last push left the card where it was, crossed another machine's push, or was cut short.

### WatchTick

One `Minute` is one launchd interval, and at most one process runs in it (`StartInterval` does not
start a second). `touched` stands for "the fingerprint differs from the saved one": the
fingerprint is the newest mtime, which a write raises and a rename leaves alone. `Backoff`,
`Exponent` and `Overflows` are `_backoff_due`; a float overflow ends the process after the pass
and before the save, so it is a branch of `Finish`. The pass itself is atomic at its end; work
that arrives after the listing stays out of `batch`.

### PullWatermark and Mirror

`Begin` and `ListPage` are the two ends of `_list_issues_rest`, a request each; the last one also
builds the index. Issues are numbered as GitHub does and listed newest first. `Update`, `Defer` and
`Reconstruct` are the three ways through the loop of `pull_all`, `Finish` the clamp and the save.
`Create`, `WriteFile` and `Release` are a filing: the Issue, its file, and the push that takes the
claim off. `current` stands for "every field of `_PULL_OWNED` agrees", `fresh` for the returned
Issues that have not changed since they were returned. `Asked` and `Place` are the list as GitHub
has it at the moment of a request, so a page is cut from a list that may have moved since the page
before. `slipped` is a history variable: the Issues that changed while a list was being fetched.

`Mirror` is what a pull promises whichever way it lists. An Issue whose changes the cache lacks is
pending; one that the next request will not return is acknowledged. Nothing may be acknowledged
while it is pending, unless it is excused (left to the sweep), only a deletion by hand and a change
during a listing excuse one, and every pending Issue is absorbed in the end. `Implements` maps
`pending` to `Pending` (no file, or outdated fields), `acked` to `Acknowledged` (what a request
from the saved watermark leaves out) and `excused` to `removed` and `slipped`. A watermark that
goes past a deferred Issue, or past one that changed while the list was handled, takes a step that
is none of `Mirror`'s. The steps, `Safety`, are proved; the fairness is checked.

Two assumptions: a pass is over within `PassTime`, and a session that files an Issue writes its
file while the Issue is put off, or not at all; the code has both in prose only (1682-1695).

### TokenCheckpoint

One ticket, and how the spend on it reaches the Issue. The three phases of a pass are
`checkpoint_tokens` (`Begin`, `Realign`, `NotDue`, `Upsert`, `SaveCursor`), `restamp_closed`
(`Leave`, `Rescan`, `Restamp`, `Degraded`) and `checkpoint_stamp` (`UpToDate`, `LookUp`, `Publish`,
`SavePublished`); sessions spend between any two of their steps. `Total` is what
`adt-token-total.sh` prints: the larger of the own ledger and the own register, plus the highest
register of each other machine. A call may fail after it took effect, and a killed process may
leave a checkpoint file empty. Tokens and micro-dollars are one unit, so a row that costs something
and counts no token is not seen by the due test either.

### TokenLedger and LedgerCost

A hook is a process of its own: `Stop` resolves the ticket and sums the session's transcript,
`AppendRow` writes a row, `Advance` the cursor, `Find` and `Sweep` go through the transcripts of
sessions that have been silent, and any number of hooks run at once. `newer`, `cold` and `recent`
are the comparisons of file times the script makes (transcript against cursor, transcript and
cursor against the session window). `Rewrite` and `Replace` are the `awk` and the `mv` of
`adt-reattribute.sh`. Rows carry their id as it was spelled, which is what `canon_tix` undoes.

`LedgerCost` prices rows and folds registers into a card as `Item` does: the larger of own ledger
and own register, plus every other machine's register. The stamp of a closed ticket is not part of
it (`TokenCheckpoint` has it).

### DodGrade and PlanGate

A condition is the command it names, its lane, id, dependencies and pin; a tree says what each
command does now and did at the pinned commit. `Check` grades a slice and then goes over the
dependencies once, in the order of the list; `DependencyDefects` is the structural half of the
gate. `PlanGate` lets an author edit, reviewers answer, sessions record verdicts, start the build
and move the ticket to done in any order; `GateReads`, `BlockVerdict` and `Reopened` are three
readers of the same blocks. The hash of the graded text is the text itself: texts that differ in
their graded parts are different values. `started` and `turned` are history variables.
What the guard asks of a close besides the grades (a cost stamp, recurring cost, links, a fresh
board, a Definition of Done that stands only in the body) is an input, `Closings`.

### DailyReport

One process per machine goes through `report()` (`Find`, `Create`, `Close`, `Update`, `Post`,
`Save`, `Read`) and then through `run_once()` (`RunOnce`, `Mint`, `Send`); every `gh` call may fail,
and every one that writes may take effect and lose its answer. `RenderReads` and `RenderMints` are
the two halves of `machine_id` in a board rendered by hand. `NextDay` ages the comments; a day that
passes before every machine has reported is an event (`"asleep"`). A machine that leaves is stopped
before its state folder is removed; what its comment then tells others ages out.

### TicketPage

The stack of `md_to_html` calls (a quotation is a call), each with its lines and its cursor, and one
action per branch of the loop, in the order of the code. A line is its kind and the number of `>`
before it; a list that goes on after a blank line, an unclosed fence and a table's second line are
decided as in the code. Inline markup is left out.

## Runs

All bounds are constants of the MC modules. The number of distinct states is in brackets.

| Run | Instance | Shows |
|---|---|---|
| `reconcile` [1.3 M] | seven worlds, 3 lanes: (1) 1 machine, 1 ticket, failing calls, killed passes, a lost sidecar, 1 edit, 2 moves, 2 faults; (2) the same with 2 tickets of one slug, 1 move and 1 fault; (3) 2 tickets of one slug, no faults, 1 move, 2 actions on github.com; (4) 1 ticket, failing calls, an exhausted quota, a tick under the floor, 1 edit, 2 moves, 1 action, 1 fault; (5) as (1) with 1 fault and 1 action; (6) 1 ticket, every hard behaviour, sessions in the middle of passes, 1 move, 1 action, 1 fault; (7) 2 machines, 1 ticket, 1 move, 1 action | `SkipIsSafe`, `TicketsKeepTheirFile`, `RelocationKeepsMoves`, `PushCarriesWork`; once everybody stops, `IssueMirrorsFile`, `LanesAgree`, `WritesCease` |
| `roundtrip` [1.3 M] | 2 machines, 1 Issue; bodies of up to three pieces people write or paste, every label and state; 1 revised Definition of Done, 1 lost cache | `IssueCarriesTicket`, `ProseSurvives`, `UneditedPushKeepsWords` |
| `accidents` [473 k] | 2 passes, 3 tickets, 2 accidents, with and without a working flock | `OnePassAtATime`, `HashesKept`, `SurplusIsAccidental`, `EveryTicketSynced` |
| `repaired` [2.2 M] | 2 tickets, 2 lanes, cards on the board or none: (1) 1 machine, 2 moves, 2 deletions on the board, 1 failing call; (2) 1 machine, 2 moves, 1 deletion, empty answer, quota and kill; (3) 2 machines, 2 moves, 1 deletion; (4) 2 machines, 2 moves, 1 failing call, empty answer and kill; (5) 2 machines, 3 moves | `WritesLand`, `KnownCardsAreRight`, `NoCardMisleads` |
| `backoff` [316 k] | 2 tickets; cap 5 minutes reached after 3 + 3 quiet passes; 1 edit, move, remote change, obstacle, kill | `NoChangeWaitsLong`, `EveryChangeLands`, `BoardGoesQuiet` |
| `watermark` [1.3 M] | 2 Issues, pages of 1; grace 2, claim 3, sweep every 2 seconds; 1 change, deletion or failure | `NothingSkipped`, `OneFilePerFiling`, and `Implements`: the incremental pull does what `Mirror` promises |
| `checkpoint` [705 k] | 2 machines, one of which closes the ticket; 2 units spent, a drift of 2; 2 accidents out of failing or unanswered calls, kills, prunes, deleted comments | `NeverOverstated`, `StampIsFound`, `EverythingReported`, `StampSettles` |
| `ledger` [994 k] | 2 sessions, one bound to a ticket and one that takes the shared lane's; 2 models, one without a price; 2 messages with a kill, a lost ledger or a rewrite, or 1 with a kill and a crash or a late message | `DoubleBillingIsAccidental`, `EveryTurnBilled`, `CardsCarryTheirRows` |
| `gate` [4.5 M] | a fresh plan with 2 edits, 2 reviews under an exact heading or one with a suffix, 3 records, 1 rebuild, 1 change of the build; and every list of up to 3 out of 13 conditions with every tree, whose reviews are over | `RestsAreCurrent`, `CreditIsEarned`, `ReadersAgree`, `ApprovalSurvives`, `FailureSurfaces`, `ApprovedIsSatisfiable` |
| `daily` [514 k] | 2 machines, comments age out after a day; 2 lost answers, or a departure and a missed day, or an upgrade and a deleted comment, or one other accident | `DuplicatesAreAccidental`, `IdsAreAccidental`, `EveryMachineListed` |
| `text` [530 k] | every body of up to 4 lines out of 16 kinds, two levels of quotation | `EveryLineIsRendered` |
| `late_edit` | 1 machine, 1 ticket, 2 edits, sessions in the middle of passes | the first [disagreement](#disagreements) |

`TypeOK` of every module holds on the same instances; it is not among the properties of the runs,
where a mutant of the code would say nothing about it. It is proved for `PassLock`, `AdtSync`,
`WatchTick`, `BoardIndex`, `TokenLedger` and `PlanGate`, in the last only proved: its snapshots
range over a set TLC cannot enumerate.

### Why these bounds

- *Three lanes*, one of them done: a done lane, a lane to leave and a third one for the other actor.
  In `BoardIndex` two columns do: the moves of two machines bring a card away and back.
- *One ticket per cache* where slugs differ: a pass treats tickets independently, and the tickets
  of `AdtSync` share nothing but the slug. Worlds (2) and (3) have the second ticket; three tickets
  of one slug meet no differently, because each meeting is of two paths. (The safety properties are
  [proved](#proofs) for any number of tickets, machines and lanes.)
- *Two machines*: the Issue is the only thing they share, and every race is a read on one side and
  a write on the other.
- *Moves and actions*: two moves bring a ticket back to a folder it left, which is what path-keyed
  hashes get wrong; with a move on one machine and an action on github.com, the push of the move,
  the action and the pull of the other machine cross in every order. Two machines have no edits in
  `AdtSync`: a body travels only from file to Issue and from Issue to a rebuilt file, worlds (1), (2),
  (4) and (5) follow it there, and `roundtrip` follows it between two machines.
- *Accidents*: two in `reconcile`, `accidents`, `checkpoint` and `daily`, so that one may hit the
  recovery from another.
- `backoff`: `Cap`, `Grace`, `MaxShift` and `MaxExp` keep the order the code's 300 s, 3 ticks, shift
  of 24 and largest float exponent, 1023, have, with the cap reached before the shift is, and
  `QuietTop` beyond the exponent at which the code's float would overflow without its clamp.
  `AgeTop` is larger than what `NoChangeWaitsLong` allows.
- `repaired`: a stale entry takes one machine that wrote the column and one event after it (a
  deletion, a kill, an empty answer, another machine's write); the push that trusts it is the second
  move. The third move of world (5) brings a card back behind the other machine. The worlds keep
  kinds of events apart that would only multiply: with all of them at once two machines are out of
  reach.
- `watermark`: the constants keep the order of the code's (a pass < 120 s < 3600 s, a sweep of an
  hour); clock ticks are the only unit, so two changes may share a second. The clock stops at
  `Horizon`, and an Issue or deletion comes early enough for its window or the next sweep to end
  before. Pages of one make a list of two Issues three requests long, so that an Issue
  can be created or change between any two of them; pages of two pass too, with two events as well.
- `checkpoint`: two units on either or both machines give every order of spending, posting and
  closing, and a drift of two makes both an undue and a due tail. Three units with one accident
  pass too (695 k states).
- `ledger`: a double billing takes one message and two hooks; a lost turn one message, one death and
  one later Stop of another session. The second message makes the row of a sweep differ from the
  row of the Stop. The two sessions have the two ways of finding a ticket.
- `gate`: a verdict goes stale in two edits at most (one to leave the text, one to come back), and
  three conditions make every shape of dependency the single pass over the list can meet: forward,
  backward, a cycle of two, a chain. The plans whose reviews are over are not edited, which keeps
  grading and reviewing apart: no reader uses the outcome of the other.
- `daily`: two machines create the Issue at once and meet at the lower number. Numbers and days are
  bounded by the events, and a comment older than `MaxAge` does not get older.
- `roundtrip`: under a heading, in front of it or without one stand a legacy block, a pasted
  generated block, a fence without its end, an example; the codec looks at the first section only,
  so three pieces give every order of two fences and a heading. The machines are interchangeable
  (`SYMMETRY`; the run has no liveness property).
- `text`: no branch looks further than one line ahead, except for a list at blank lines; four lines
  give every pair of neighbours in every context a branch tells apart.

### Fairness

- `AdtSync`: weak fairness of a machine's steps: the timer starts passes again and again, and a
  pass that is not killed goes on. `Persist` has two continuations, rendering (the watcher) and not
  rendering (the command line); strong fairness of the first says that runs on the command line
  cannot keep out the timer's for ever. Sessions, users and accidents have none.
- `PassLock`: weak fairness of "some pass makes a step". No single pass is promised the lock:
  `flock(LOCK_NB)` has no queue.
- `BoardIndex`: weak fairness of a machine's steps, for the same reason as in `AdtSync`.
- `PullWatermark`: the clock runs to its end, and the timer's pulls go on.
- `TokenCheckpoint`: a machine's passes start and go on, and its pull brings the done lane. Nobody
  has to spend, close or wait for the window to end.
- `WatchTick`: minutes go by, and a process that was started goes on until it ends or is killed.
- `TokenLedger`: a hook runs to its end, a live session's turn ends in a Stop, and the keeper goes on
  having turns after the others have been silent for the window. Strong fairness of the last two,
  since new messages and hooks can put both off again and again, but their number is bounded.
- `DailyReport`: processes start every minute and go on, days pass, and somebody makes a read-only
  folder writable again.
- `TicketPage`: a sequential program takes its next step.
- `IssueText` and `PlanGate` have safety properties only.

Deadlock is checked where a timer always has a next step. `gate`, `text` and `roundtrip` set
`CHECK_DEADLOCK FALSE`: a closed ticket stays closed, a rendered page is rendered, and two machines
that agree about a text have nothing left to do once the events are used up.

## Disagreements

`late_edit` is a run that TLC ends with a counterexample, against the comment at adt_sync.py:1948
("A ticket whose .md is byte-identical to last time is already converged on the push side"): the
hash recorded after a push (adt_sync.py:1984) is of the file as it is then, not as it was pushed. An
edit that a session saves in between is skipped as unchanged until the next edit.

Modelling turned up more. Each of these was a counterexample of TLC against a stronger form of a
property, whose present form names the exception.

Reconciler and board:

- `_board_write` (adt_sync.py:764) compares a card's lane with this machine's own index entry. After
  another machine moved the card, a push skips it and nothing repairs it, although
  adt_sync.py:697 says "so a stale persisted index is safe". `KnownCardsAreRight` therefore speaks
  of the cards a machine knows; without that guard it fails in `repaired`.
- The fingerprint (adt_watch.py:98) is the newest mtime, which `mv` leaves alone, so a stage move
  does wait for the backoff; docs/backlog-sync.md:330 has it reach the board "without waiting out
  the cap" (the term `used["move"]` of `NoChangeWaitsLong` and its cap).
- A tick under the rate-limit floor renders without syncing, and so does a pass whose quota ends. The
  render rewrites the frontmatter of a file that was moved, and when the sidecar still has the hash of
  the ticket from an earlier stay in that folder, the push skips it and the pull moves the file away
  (`PushesFirst` is the guard of `SkipIsSafe` and `RelocationKeepsMoves`).
- A file relocated by one pass leaves its hash under the folder it left until the pass saves. A pass
  that is killed before that, or whose sidecar is lost, pushes a ticket no session worked on
  (`PushCarriesWork` excludes both; failing calls, an exhausted quota and renders without a sync it
  allows).
- `gh issue create` succeeds, the lookup of its number fails, and the next pass creates a second
  Issue (`SurplusIsAccidental` counts these).
- An Issue that changes after its page of the list was fetched, in a pull whose later page brings
  a newer update, is behind the watermark until the next sweep (adt_sync.py:1651). `NothingSkipped`
  exempts the Issues in `slipped` for it and fails in `watermark` without that; `Implements`, in the
  same run, shows that the sweep absorbs them.
- `_write_back` recreates a file that was moved in the middle of a pass (allowed for by
  `LanesAgree`). With a second ticket of the same slug such a move can even be overwritten;
  `TicketsKeepTheirFile` therefore keeps sessions out of passes, and asks for
  exactly one file whatever else happens.
- The quota ending between label edit and close leaves a done label on an open Issue until the file
  changes again, since `RateLimited` keeps the file's earlier hash (`IssueMirrorsFile` therefore
  excludes the quota; after a failing call the hash is forgotten and the next pass repairs it).
- Two tickets of one slug that are relabelled into each other's lanes block each other for ever
  (guard 4 of `_relocate_to_stage`, reported on every pass).
- A killed process between card write and save leaves an index entry behind. A lane without a
  column makes `_set_status` a silent no-op that the index records as done; the comment at
  adt_sync.py:664 has the TTL of the field ids bound that, but the entry stays when they are read
  anew. A call that answers nothing ends a push as if it had landed. After all of these the card
  stays where it was until the ticket moves again (`adrift`, whose tickets `NoCardMisleads` leaves
  out).

Text:

- Each write-back takes one trailing newline off a body, so a pull that brought nothing of the body
  re-arms the push; `_push_hash` (adt_sync.py:510) says of a pull "f = 0 by construction".
- A body that ends in a generated fence gains a newline; of two generated blocks in one section
  clearing the list removes the first only; deleting the key `done_evidence`, rather than the
  entries, leaves the block on the Issue, and a rebuild resurrects the list.
- A file just rebuilt has no hash, is pushed by the next pass and reverts what another machine
  pushed in between.
- A cancelled ticket outside of a done lane that is rebuilt from its Issue loses
  `status: cancelled`; the render then opens it and the push reopens the Issue
  (docs/backlog-sync.md:48 has cancelled tickets closed).
- A slug that is renamed and nothing else is never pushed; the "(no body)" stand-in of an empty body
  is pushed away by the next push of the unedited ticket.

Tokens:

- "Repeated or interrupted Stops therefore never bill a message twice", says the header of
  `adt-token-log.sh`. A hook that dies between rows and cursor, or two hooks on one transcript, do
  (`DoubleBillingIsAccidental` counts these).
- A message that lands while a sweep works on its transcript, of a session that then dies, is older
  than the cursor and never swept. A parallel session without a cursor yet does not count as active,
  and its neighbour takes the shared lane's ticket.
- Rows appended between the `awk` and the `mv` of `adt-reattribute.sh` are lost (line 94).
- After a lost ledger the card shows this machine's own register, and calls its cost measured though
  the register says estimated (`RegisterIsBehind` is the guard of `CardsCarryTheirRows`).
- After a prune the next checkpoint overwrites the larger register with the smaller sum of the
  ledger, although the comment in `checkpoint_tokens` has the register keep the total (`Realign`,
  then `Upsert`; test_token_checkpoint.py asserts the smaller number).
- Spend that another machine reports after the close never moves the stamp, because only the
  closing machine's own ledger triggers the correction; two machines that both close a ticket may
  leave the earlier figure (`StampSettles` fails with two `Closers`).

Gate and grader:

- `check` replaces the grade of a condition whose upstream is not met by "can't verify", also where
  it failed, and `verdict` then warns instead of denying; the done guard lets a warning through. An
  edge to another lane names nothing in the slice, with the same effect. The docstring of `verdict`
  (adt_dod.py:511) has a failing condition deny (`FailureSurfaces` names both exceptions).
- The edges are gone over once, in the order of the list: a condition listed before the one it
  depends on stays green when that one is blocked later.
- Conditions pinned to the plan, and pinned ones that only look at a ref, can be approved and never
  turn green. Two conditions with one id hide a cycle or a failure.
- A warning of the grades ends the done guard before its other questions are asked.
- `coverage_review` and `plan_review` want an exact heading and read on to the end of the file, the
  recorder accepts "(round 2)" after it and stops at the end of the block: the two read different
  verdicts where the newest round's heading has a suffix (`LastIsExact` in `ReadersAgree`).
- A verdict that is recorded late, twice or after a rebuild carries the hash of a text nobody
  reviewed, and hides a stale dependency (`Faithful` is the guard of `RestsAreCurrent`).
- "The same checks `--gate` refuses on", says the docstring of `authoring_defects`
  (adt_dod.py:1283). It also reports headings that drifted, on which `--gate` never refuses
  (`UngradedSections` in `ReadersAgree`).

Machines:

- The PATCH that closes the install Issue fails once, and the Issue stays open for ever.
- A board rendered by hand mints an install id, so an install that never reported says goodbye under
  it when it is removed. The lists of Issues and comments are not paged.

Pages:

- A rule directly under a list item is taken for its continuation, and shown as text.

## Proofs

`PassLockProofs` proves, for every number of passes, tickets and accidents, from
`PassLockAssumption` alone (the value `Nobody` is no pass and no ticket):

| Theorem | States |
|---|---|
| `TypeCorrect` | `Spec => []TypeOK` |
| `MutualExclusion` | `Spec => []OnePassAtATime` |
| `LockFreed` | `Spec => []NoWedgedLock` |
| `HashesAreBound` | `Spec => []HashedIsBound` |
| `NoHashIsLost` | `Spec => HashesKept` |
| `NoSecondIssue` | `Spec => []SurplusIsAccidental` |

`TypeOK` is not inductive: `Bind` adds `at[p]` to the bound tickets, and only a pass that is at
`"created"` has one. `LockInv` adds that fact and ties `held` to the program counters; the first
three theorems follow from it. The others each need one more invariant on top:

- `HashInv`: what a pass knows a hash of is bound, and what is about to be bound has an Issue.
- `KeepInv`: where flock works, the running pass carries every recorded hash along. This is what
  mutual exclusion buys: nobody adds to the sidecar while the pass holds its copy.
- `BirthInv`: where flock works, the running pass's list of unborn tickets is current, and a ticket
  has at most one Issue per accident, plus one if it is bound or about to be. The disjunction is
  what makes it inductive: creating needs "not bound", binding needs "about to be".

`WatcherProofs` has the theorems of two specifications. `WatchTick` is extended; `BoardIndex` is an
instance (`Board`) over constants and variables of its own, of which only `Tickets` is shared. Every
theorem is about the behaviours of one of the two.

About `WatchTick`, for every number of tickets, every grace, base, cap and shift, and any number of
events, from `WatchTickAssumption` and `PowerAssumption` (a power of two is a natural
number, which the prover's library does not know):

| Theorem | States |
|---|---|
| `TypeCorrect` | `Spec => []TypeOK` |
| `NothingWaitsLong` | `Spec => []NoChangeWaitsLong` |

How long a change has waited is not inductive: `WaitInv` bounds the time waited and the time still
to wait *together*. A minute moves one unit from the second to the first; when nothing is left, this
minute's process must run (`Stalled`), and it fails to push only at the price of an obstacle or a
kill, which `Patience` has. `BackoffIsCapped` and `NeverOverflows` are the facts about the doubling
it rests on. A move is seen one minute late, because the pass that would push it renders it first:
the bound has one minute per move, which the attempt to prove it without brought to light.

About `BoardIndex`, for any number of machines, tickets, lanes and events, from `CardAssumption`
(the value `None` is no card, no id, no index and no context) and `BoardIndexAssumption` (the starts
and limits have their types), which are hypotheses of each, being assumptions of the instance:

| Theorem | States |
|---|---|
| `BoardTypes` | `Board!Spec => []Board!TypeOK` |
| `SkipsAreRight` | `Board!Spec => Board!KnownCardsAreRight` |

`KnownCardsAreRight` speaks of the moment a push leaves a card alone. `CacheInv` says what makes it
true at all times before, for every machine that knows a card: the entry of the index that the
machine goes by (`Own`: the process's or else the sidecar's) names the column the card is in, or the
card has none (`Right`). And the process's index has an entry wherever the sidecar's has
(`Covers`), because an empty one is not saved over a full one. What a machine wrote last it knows
only if its process can save it, and only until another machine writes: the two cases the theorem
leaves out are no assumptions on the instance but are in `knows`, step by step.

`AdtSyncProofs` proves, for every number of machines, tickets, lanes, worlds and events, from
`AdtSyncAssumption` and `NoneAssumption` (the lanes are folders and labels alike, and the value
`None` is none of them nor a file):

| Theorem | States |
|---|---|
| `TypeCorrect` | `Spec => []TypeOK` |
| `FilesAreKept` | `Spec => []TicketsKeepTheirFile` |
| `SkippedIsConverged` | `Spec => []SkipIsSafe` |
| `RelocationsAreAgreed` | `Spec => RelocationKeepsMoves` |
| `PushesCarryWork` | `Spec => []PushCarriesWork` |

Every invariant is about one machine, and the lemma `Elsewhere` says that a step of another machine,
or on github.com, leaves it alone: none of these properties asks what an Issue holds. `TypeInv` adds
to `TypeOK` that what a pass has in its hands is there (`Held`). On top of it:

- `KeptInv`, where sessions keep out of passes: every ticket has one file and a folder holds nothing
  else (`Complete`), what a pass has read is still what is on disk (`Known`), a file the pull moved
  lies where it was put (`Relocated`), and no text is newer than the last edit (`NothingNewer`). The
  file between rename and rewrite is the one that `Known` and `Relocated` have to leave open. From
  here on duplicates, missing files and occupied destinations are out of the way, and the lemmas
  named `...Does` say what a step does then.
- `SafeInv`, where pushes come before renders: a file that has the hash of its stage's folder was
  sent as it is (`Exchanged`). That is not inductive: a render puts stage and folder together, and
  would do so under an old hash. `Drafts` says that a file a render will rewrite has its own hash
  or none, which is what the push just before leaves behind. Where a tick renders without a push it
  is false, and TLC has the counterexample (see the disagreements).
- `WorkInv`, where no pass is killed and no sidecar lost: what no session worked on lies settled in
  its folder under its own hash whenever a push looks at it, or is among what the pull has moved and
  will re-key when it saves.

`PullWatermarkProofs` proves, for every number of Issues, every page size and horizon, and every
grace period, claim age and sweep interval that `PullWatermarkAssumption` allows:

| Theorem | States |
|---|---|
| `OneFileEach` | `Spec => []OneFilePerFiling` |
| `NothingIsSkipped` | `Spec => []NothingSkipped` |
| `PullMirrorsGitHub` | `Spec => Absorbing!Safety`: whatever the watermark passes over the cache has, or it was deleted by hand, or slipped during a listing |

The assumption that carries it is `PassTime < Grace <= MaxAge`, which the code's constants satisfy
as long as a pass is over in two minutes. The danger is a pull that acts on what it read before the
session wrote its file, so the invariant `FilingInv` relates the two readings to the clock:

- `RebuiltIsLate`: a rebuilt file means that the window of the filing is over.
- `UnseenIsYoung`: a file written after the running pass built its index is one of an Issue that
  the pass puts off at whatever moment it gets to it. It rests on `Timely` (the pass is over by
  `start + PassTime`) and on `ClaimsAreOld`: a label may only come off, so the copy of the Issue in
  the batch puts off at least as long as the Issue itself.
- `FoundIsAll` and `OneKind` then say that a pass updates the one file there is.

`MarkInv` is behind the other two. It follows an Issue that is owed (`Owed`: the cache lacks its
changes, nobody deleted its file, it did not slip): while the list is fetched a page has brought it
or its place is still ahead (`Awaits`; places only grow, since nothing the list asks for leaves it,
and a page that is not full has nobody behind it: `FullPage`); while the list is
handled it is newer than all that was seen, still in the batch, or put off (`Minds`); and at the end
the watermark is no newer than it. An Issue returned twice is what made this hard: the older copy
must be handled first (`FreshIsLast`), and the pull must not take an outdated copy for current
(`StaleIsSafe`). The map to `Mirror` rests on
`MarkInv`: the watermark that is saved acknowledges nothing that is owed (`Ack`), and a file that is
written from a copy older than its Issue is of an Issue the next request returns (`Rewrite`). It
needs two more facts, `MirrorInv`: only Issues have files (`Filed`), and a copy older than its Issue
is of one whose file is outdated (`StaleIsOutdated`).

`TokenCheckpointProofs` proves, for any machines, any spend and any number of faults, from
`TokenCheckpointAssumption`:

| Theorem | States |
|---|---|
| `NothingOverstated` | `Spec => []NeverOverstated` |
| `StampsAreFound` | `Spec => []StampIsFound` |

Every register, whichever of a machine's comments it is and whatever became of the others, is at
most what its machine has spent (`RegistersAreSpent`), and so is what a pass has read of the ledger.
`Total` takes one register or ledger per machine, so it is at most the sum (`SumGrows` and
`SumSplit`); a cost that was computed earlier is at most a smaller sum. For the stamps,
`StampsAreOwned` counts the comments together with the machines that are about to post one: each
of those has closed the ticket and saw no comment, and posts once.

`TokenLedgerProofs` proves, for any numbers of sessions, tickets, models and machines, transcripts
of any bounded length and any number of accidents, from `LedgerCostAssumption` and
`TokenLedgerAssumption` (finitely many sessions, tickets and machines, prices and token counts are
natural numbers, registers are other machines', and `None` is no value of these kinds):

| Theorem | States |
|---|---|
| `TypeCorrect` | `Spec => []TypeOK` |
| `BillingIsBounded` | `Spec => []DoubleBillingIsAccidental` |
| `CardsAddUp` | `Spec => []CardsCarryTheirRows` |

`LedgerInv` adds to the types that the ledger stays a finite bag, that cursors and hooks keep within
their transcripts, and that a hook's rows are different ones of the session it bills. The bound on
billing compares two sums and is not inductive for three reasons, which `BillInv` answers:

- rows a hook has read but not yet appended are as good as billed: `Owed` adds up what all hooks
  that hold a transcript still have to append, and the bound is on bill and debt together;
- it must be sharp to survive the next reading, which adds the messages after the cursor: beyond
  one whole transcript for each accident there is no more than the messages up to *each* holder's
  stop, or up to the cursor when nobody holds it (`Bounded`). A hook that takes up a transcript
  that another one holds, or dies over it, costs an accident, which pays for a whole transcript;
- `adt-reattribute.sh` puts back a copy made earlier, which lacks what was appended since: all is
  said of the copy as well (`Within`), and an id that is rewritten changes no session's bill
  (`Reattributed` merges rows that become alike, `SumFibres`).

`CardsAddUp` is one fact about the operators for every ledger that `LedgerInv` allows: the rows
of the tickets with a card and those off the board partition the ledger, so their sums add up
(`SumUnion`, `SumFibres`), and the tier is "measured" only if no row lacked a price
and no register did.

`DailyReportProofs` proves, for every number of machines, days and accidents:

| Theorem | States |
|---|---|
| `OneIdEach` | `Spec => []IdsAreAccidental` |
| `OneCommentEach` | `Spec => []DuplicatesAreAccidental` |

`IdInv` counts along what will be used: the id in the file, the one a process has drawn, and the
one a render that found none will mint. It says further that a machine without an id has *already
paid* for the next one: it has none yet, or an accident took the last. It uses no assumption about
constants; the second theorem uses that the value `None` is no record of a state file.

The comments of a machine on an Issue do not suffice either. `Balance` counts with them the one it
will still post there when nothing else goes wrong (a pass that is at it, or a state file that does
not remember one), and the one that a folder gone read-only in the middle of a report will make it
forget; an accident adds one to the bound whenever it adds one to what is owed.

`PlanGateProofs` proves, for a DoD of any length and any texts, files, reviews and limits, from
`PlanGateAssumption` (tickets start well-formed) and `DodGradeAssumption` (`None` is no id):

| Theorem | States |
|---|---|
| `TypeCorrect` | `Spec => []TypeOK` |
| `FailuresSurface` | `Spec => []FailureSurfaces` |
| `ApprovalsCanBeMet` | `Spec => []ApprovedIsSatisfiable` |
| `ApprovalsSurvive` | `Spec => []ApprovalSurvives` |
| `CreditEarned` | `Spec => []CreditIsEarned` |
| `ReadersAgreed` | `Spec => []ReadersAgree` |
| `RestsStayCurrent` | `Spec => []RestsAreCurrent` |

The pass over the edges is a function that refers to itself: `PassExists` shows that there is one,
by the least length for which there were none. After that the order of the list plays no part: a
failure that did not surface would have been taken for "unknown" by an edge, which leads to another
place that did not pass, and so on, and the ids on the way are the cycle that `DependencyDefects`
refuses. That a DoD can be met goes by the first place that is held back.

`RecordInv` ties the records to the history. A gate that has said no either saw the text move
since, or all its later rows carry the hash of the text as it is (`CreditInv`); its refusal is still
in the body, so the next edit counts as an answer (`SaidInv`); and the DoDs on record together with
the present one are at most one more than the edits (`SnapInv`; counting the present one is what
makes it inductive, since it may be recorded at any later time). `ApprovedInv` speaks of the text
the build started on, because the ticket may be edited away from it and back. `ReadersAgreed`
holds for whatever headings the reviews have. What the gate reads stands under the last exact
heading or below it, and a verdict that passes a gate only that gate's reviewer gives
(`PassIsTheNewest`); where the newest heading is exact, the recorder reads that block too
(`SameVerdict`).

`RestsStayCurrent` needs no more than the types: it is about the two readers. `Faithful` says that
the records of a gate tell its blocks one by one in order, by a map from the ones to the others; the
last record that rests on files then tells the last such block (`LastIsTold`).

Each step lemma splits `Next` into its actions. The few facts about numbers, places in a list and
sums that the library lacks stand at the head of the module that needs them: least and greatest
elements by well-founded induction, and sums by splitting off a term, because an induction theorem
over an operator is out of the provers' reach. The sum of the community modules picks its terms in
an order of its own; `SumFunctionIs` reads it as a function on the parts of the domain, and `SumFacts`
says that any term may be split off first.

Model-checked only:

- all liveness (`EveryTicketSynced`, `LanesAgree`, `WritesCease`, `IssueMirrorsFile`, the fairness of
  `Implements` and their like), which is out of the prover's reach;
- `IssueText` and `TicketPage`: their properties are about what a scan of a sequence of lines returns,
  an induction over data.

## Not modelled

- The usage collector (`collector/`): a Cloudflare worker no part of the orchestrator depends on.
  Whether its budgets hold is decided by the input gates of the Durable Object runtime, which the
  repository neither contains nor describes.
- The wording of a ticket, how YAML quotes it, the body cap; HTML, inline markup and log lines.
- Creation of Issues inside `AdtSync` (all its tickets have one): `PassLock` has it, where it is
  the overlap of passes that matters.
- Pulls with a watermark inside `AdtSync`: it lists every Issue in every pass. That an incremental
  pull sees what a full one does is what `PullWatermark` is for.
- Issues that are not tickets (`NON_TICKET_LABELS`), which a pull without a file of them skips.
- Running a condition's command, and parsing the list of conditions: outcomes of the environment.
- What the ping's payload counts; subagent transcripts, which have one writer each.
- Log rotation, the rate-limit probe's own failures, and the board's header.
- Clock differences. One modelled decision compares two clocks: `_created_within_grace`
  (adt_sync.py:1744) subtracts GitHub's `createdAt` from the machine's time. `PullWatermark` has one
  clock for both. A machine that is ahead puts an Issue off for that much less than `Grace`; to one
  that is behind a new Issue comes from the future, and it does not put it off at all until its clock
  has caught up, by design ("FAIL-OPEN" in the docstring). `OneFilePerFiling` is a claim about
  machines whose clock is right. The watermark itself only ever holds GitHub's times.
- Issues that were deleted on GitHub or made archives after a ticket had them, at which
  `reconcile_one` returns early (adt_sync.py:864); in `AdtSync` no ticket is cancelled either
  (`status: cancelled` is in `IssueText`).
- Guards that match one command line, one-shot migrations, installers, reports over files nothing
  else writes, experiment scorers, playbooks: `PROJECT.json` has them with the reason.

## Plan

What would come next, in this order:

1. Abstract specifications: for `PassLock`, a register per ticket that goes from "no Issue" to "one
   Issue" once (it holds while no accident happens); for `AdtSync`, a lane per ticket that sessions
   and users write and every machine eventually shows.
2. `TokenLedger` composed with `TokenCheckpoint` of two machines, through one ledger each.
