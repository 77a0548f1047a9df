# A TLA+ development of Swarm

Swarm runs coding agents ("workers") in terminals on one machine (a *Hive*), lets
operators watch and type into them from several browsers, and coordinates Hives.
This directory models the part of it whose correctness depends on the order in which
things happen, checks it with TLC on small instances, and proves the central claims
with TLAPS for all values of the constants.

Paths below are relative to the repository. `PROJECT.json` maps every definition to
the lines it stands for.

## 1. The system

Three long-lived processes, and agents that are none of Swarm's code:

- the **worker engine** (`crates/swarm-terminal-host` over `crates/swarm-terminal`):
  owns the PTYs. Each request of its socket runs on a blocking thread of its own
  (`swarm-terminal-host/src/lib.rs`, `dispatch`), so every shared object is guarded by
  mutexes. It survives restarts of the API and dies only when it is replaced;
- the **API** (`crates/swarm-api` over `swarm-application`, `swarm-domain` and
  `swarm-persistence`): HTTP, WebSockets, one SQLite file, and a supervisor loop that
  starts workers, delivers messages, and updates the engine;
- the **browser client** (`web/`);
- the **package** (`packaging/linux/swarm-package`): installs and restarts services;
- **Claude Code**, one per terminal, which reports through hooks
  (`swarm-terminal-host/src/provider_session_start.rs`).

### Inventory

| Component | State | Operations | What is hard | What makes it correct |
|---|---|---|---|---|
| Terminal control policy `swarm-domain/src/terminal_control.rs` | owner (view, generation, lease end), generation | acquire, take over, authorize, renew, release | stale grants, leases that shrink, the end of u64 | a generation names one owner for ever |
| Terminal control gate `swarm-terminal/src/control_gate.rs` | the control under one mutex, a stop mutex, a stop flag | claim, input, resize, renew, release, takeover and legacy input, stop, maintenance | a write may block for ever; stop must not wait for it; an effect may outlive its process | who writes owns; success is never claimed for a dead process |
| Session registry `swarm-terminal/src/process.rs` | sessions by id, takeover leases, write audit | all host requests | four mutexes taken one at a time; look-ups that go stale | a Keeper's takeover and a local owner exclude each other; nothing outlives a stop |
| Turn ledger and maintenance admission `turn_ledger.rs`, `provider_turn.rs`, `process.rs` `maintenance_settled` | open and last closed prompt, queued count, write counters, last report, observed turn, screen | observe a hook, count a write, check | hooks are lost, late, unnamed; three locks read one after another | an admitted session has nothing to lose |
| Maintenance stop `maintenance.rs` | guards on all sessions of a set | begin and cancel a drain, stop a set | partial kill | all or nothing, nothing spawned meanwhile |
| Engine update when idle, and from the card `swarm-api/src/idle_engine_update.rs`, `maintenance.rs` | attempt, history rows, request file | settle, drain, record returns, ask the package, wait | lost answers, restarts between steps, drains without owner | a worker it stopped is owed a return |
| Returns `worker_engine_returns.rs`, `worker_runtime.rs` | intents, attempts | record, claim, complete, recover | crash between start and confirmation | one start per promise |
| Spawn and continuation recovery `process.rs`, `startup_failure.rs` | session slot, recovery claim | spawn, detect a failed resume, replace | requests arrive while a session is replaced | at most one process per session |
| Provider lifecycle gate `provider_lifecycle_gate.rs`, `conversation_selection.rs` | startup evidence, selected conversation | observe, select, confirm | evidence of an earlier process | only evidence of this process counts |
| Conversation recovery and rotation `conversation_recovery.rs`, `conversation_rotations.rs` | ladder of attempts, fork claims | attempt, fail, fork | crash between fork and record | a conversation is not lost or used twice |
| Tasks `tasks.rs`, `task_prerequisites.rs`, `task_waits.rs`, `check_gate.rs`, `task_dispatches.rs` | tasks, edges, waits, dispatches | create, start, block, complete, dispatch | cycles, abandoned prerequisites, waits read before they are acted on | every waiting task can be released |
| Message delivery `message_delivery.rs`, `coordination_delivery.rs` | outbox, delivery attempts | write into a terminal, confirm, retry | uncertain writes | no duplicate, no silent loss |
| Queen `queen_*.rs` | conductor, review rounds, recovery circuit, grants | review, recover, trip, reset | retries that loop | bounded recovery, one review at a time |
| Decisions `decisions.rs`, `decision_clarification.rs` | questions and answers | ask, clarify, answer, withdraw | answers to a superseded question | an answer is applied once |
| Federation and Apiary `federation*.rs`, `apiary*.rs` | memberships and epochs, handoffs, takeovers, Jira claims | enroll, renew, hand off, take over | lost acknowledgements between Hives | one owner of a task across Hives |
| Relays and browser sockets `takeover_*.rs`, `watch_*.rs`, `terminal_*socket.rs` | cursors, attachments | attach, replay, reconnect | reconnect and replay overlap | no byte lost or shown twice |
| Outboxes `support_outbox.rs`, `email.rs`, `jira.rs`, `notifications.rs` | rows and attempts | send, mark, retry | not studied | at least once, in order |
| Terminal output `state.rs`, `history.rs`, `journal.rs` | bounded buffers and files | append, replay, retain | limits | replay equals what was shown |
| HTTP, auth, persistence schema, CLI, release tool, support bundle | | | sequential or pure I/O | |

How they interact: browsers and the supervisor send requests to the engine; the engine's
registry looks a session up, checks takeover leases, and goes through that session's gate
to the PTY; Claude's hooks come back as requests of their own, which need no control of
the session; the update path asks every session whether it is settled, under the gate's
mutexes, and then stops the set.

## 2. The modules

| Module | Models | Instances, runs |
|---|---|---|
| `TerminalControl` | the policy, as operators on the guarded value | used by `ControlGate` |
| `ControlGate` | one session's gate, threads, stop and maintenance | `MCControlGate`: `gate` |
| `OwnedInput` | abstract specification: what the gate promises | refinement `KeepsPromise` in `gate` |
| `ControlGateProofs` | theorems about `ControlGate` | TLAPS |
| `SessionRegistry` | all requests about existing sessions, the engine's mutexes | `MCSessionRegistry`: `registry`, `registry_ends` |
| `SessionRegistryProofs` | theorems about `SessionRegistry` | TLAPS |
| `EngineUpdate` | replacing the engine: Swarm's own update, the card, the package, and the returns of whoever was stopped | `MCEngineUpdate`: `engine_update`, and one violation |
| `OwedReturn` | abstract specification: what an update promises to whom it stops | refinement `KeepsReturns` in `engine_update` |
| `EngineUpdateProofs` | theorems about `EngineUpdate` and the refinement | TLAPS |
| `TurnLedger` | ledger, observed turn, admission checks, and Claude | `MCTurnLedger`: `ledger`, and one violation |
| `TurnLedgerProofs` | theorems about `TurnLedger` | TLAPS |
| `TaskBoard` | tasks: lifecycle, assignment, prerequisites, waits, one decision, and the pass that brings tasks back | `MCTaskBoard`: `board` |
| `TaskBoardProofs` | theorems about `TaskBoard` | TLAPS |
| `MessageDelivery` | messages about tasks: their rows, one pass over the terminals, and what the terminals do | `MCMessageDelivery`: `delivery`, and one violation |
| `MessageDeliveryProofs` | theorems about `MessageDelivery` | TLAPS |
| `ClaimHandoff` | shared Jira issues: the Keeper's claims and handoffs, the members' journals and passes | `MCClaimHandoff`: `handoff`, and one violation |
| `SharedHome` | abstract specification: what the Keeper's tables promise of an issue | refinement `KeepsHome` in `handoff` |
| `ClaimHandoffProofs` | theorems about `ClaimHandoff` and the refinement | TLAPS |

Operators named `...Unchecked`, `...Unseen`, `...Blind` and the like, introduced by
"Mistake:", are no part of a model. Each is a plausible error in the definition after it,
and is used to make sure that the property named beside it in `PROJECT.json` notices.

### TerminalControl and ControlGate

`control` is the `Mutex<TerminalControl>`, `controlLock` its holder, `stopLock` the holder
of `stop_effect`, `stopped` the atomic flag, `killed` the process's fate, `now` the
engine's monotonic tick. A call is three steps: *admission* (mutex taken,
`require_running`, authority checked on a copy, which becomes `proposed`), *landing* (the
write to the PTY, which may take for ever or fail) and *return* (`complete_effect` looks
at the flag again, the copy is committed, the mutex let go of). A fallible operation of
`TerminalControl` is the set of values it may leave behind; the empty set is a refusal.
Refusals change nothing and are not steps. Stops take `stop_effect`, set the flag, kill;
a failed kill lifts the flag. Maintenance try-locks both mutexes, asks for an owner once,
and kills while it holds both.

### SessionRegistry

Adds what is around the gate: `sessions`, `takeovers` and `write_audit`, each with its
holder, and the requests as programs over them. The gate appears with the four facts other
components see (a live owner, whether it was ever claimed, the stop flag, the mutex).
Generations and ticks are left out: leases and owners may lapse at any moment, and
a request that names a generation may be refused at any moment. An expired lease is
removed by the next request that meets it; the model removes it at once, since no request
tells the two apart.

A session is an `Arc`: `stop` takes it out of the registry before it kills, and whoever found it
before (`Holds`) keeps it. The last one to let go drops it, and `Drop` tries the kill once more,
ignoring a failure (`process.rs:1232-1239`). That is `LetsGo`, a part of every action with which
a request lets go; `abandoned` are the sessions whose last kill failed too. Attachments of
browsers and other brief looks, which keep an `Arc` as well, are left out: they only delay it.

### TurnLedger

`ledger` and `turn` are the two Rust structures, field by field; `Submitted`, `Ended`,
`Failed` and `Counted` are the arms of `TurnLedger::apply` and `observe_write`.
`check` is how far `maintenance_settled` has come: observed turn, ledger, screen, in this
order, each under its own lock, while the control guard keeps writers out but not hooks.
What Claude does is *external*: it is modelled only as far as
`turn_ledger.rs:8-19` and ADR 0156 record it as measured. `Manners` are the kinds of Claude
an instance has, of which a behaviour picks one: its habits (fail turns, ask, be denied,
leave work behind, lose hooks, send them late or without a prompt id) and whether hooks and
redraws may land between two checks (`slow`).

Assumed of Claude: hooks are command hooks, fired in order and waited for; a turn does not
fire its Stop before it has read the input already written to it and before its footer has
been drawn. If the second were false, a message could be unread on a screen that rests.

### EngineUpdate and OwedReturn

`task` is whoever holds `worker_lifecycle`: an attempt, the card, a return being started, or
`lift_stale_drain`; its `pc` names the next request or write. A start by the supervisor's
autostart or by the operator holds the lock for one step only. `session`
is what a worker's profile is bound to (`dead`: the process has ended and the next
reconcile lets go), `strays` are sessions whose start was carried out and never answered.
`promise` is the pair of rows `worker_revival_intents` and `worker_revival_attempts`: no
intent, an intent without attempt (`owed`), and an intent with an attempt in each of its
states. `row` is the outcome of the latest history row of this update, `request` the
request file, `package` how far `reconcile_host` is under the package lock. Everything but
`task` and `restarted` outlives the API.

Each way out of `attempt` is a value of `task.then`: `giveup`, `partway`, `abandon`, and
`refuse` for the two that cancel the drain and do nothing else. An engine's refusal is
nondeterministic wherever it rests on a session's screen or turn (that is `TurnLedger`);
the set it must match and the drain are not. A fault is a lost request, a lost reply to a
request that was carried out, a failed stop, start or write, or an engine that does not
come up and is started as it was.

What the model joins: the host status `advance` reads and the lock it then tries for, with
no `await` in between; the listing of sessions and the card's records; the three writes
that release a stopped session together with the history row. A start outside a return has
no lost reply, and a start refused for a reason of its own (capacity, presence, a
recovery in progress) just does not happen. Withdrawals do not fail.

`OwedReturn` is what a stopped worker is promised, without engines, drains, lost answers or
restarts: it is owed a return, is started for it at most once, and once that start failed, or
nobody knows whether it did, only somebody else brings it back. `DueOf` maps the update to it:
what the rows say of whoever an update stopped and that has not come back (`taken`), and nothing
of the others, whose rows may come and go with attempts that did not stop them.

### TaskBoard

`tasks` is the table of tasks with the block each is in: the activity entry it came from and
its row of `task_waits`. `prerequisites`, `pending` (a decision that is open), `owed` (a
prerequisite was just added to active work, which is then blocked) and `due` (what
`resume_cleared_waits` has read and not yet moved) are the rest. An action is one transaction of
`swarm-persistence`; where a request is two of them (a prerequisite added, then the block it
owes; the reading of cleared waits, then the return of each task) it is two actions, and a
restart may come in between.

`Transition` is `transition_task_guarded` with all its conditions: the lifecycle, a draft's
wait, prerequisites, the worker's other active task, and what it writes (the state, the
block, a withdrawn command request). The words of a note are the kind
of wait that is read out of them.

### MessageDelivery

`rows` are `task_message_deliveries`. `pass` and `job` are the one pass that holds the delivery
lock and its group for each terminal; `terminal` what the prompt shows, whether the session is up,
busy or held by an operator; `stray` the requests whose answer nobody waits for any more and
which may still arrive: the answer given up after ten seconds does not take the request back.
`written` and `taken` are history. A group is written as one text, its marker is that of its
first message, and it is submitted by at most three Enters, each followed by a look. Results
are stored only when every group has one; a caller that gives up, or a restart, leaves
claims in `dispatching`, which the next pass turns into doubt (`Recover`), and Queen alone
resolves doubt, once she has seen it (`Notice`, `Reconcile`).

### ClaimHandoff and SharedHome

`claims`, `lapsed` and `handoffs` are the Keeper's tables: a request of a member is one
transaction of `federation.rs` or `federation_handoffs.rs`. `rows` and `journal` are the two
journals of a member, written before each outside effect, and `pass` the passes
of `reconcile_federation_pass`. Nothing keeps two passes of one Hive apart, so a pass has a
*copy* of the row it works on, and each move asks for the intent and the phase of the copy, which
is all the code compares: the claim may by then be that of another attempt. `Moves` and
`Attention` are those conditional updates; a move that finds the row elsewhere fails the pass.
`GiveUp` is a pass cut off between two steps, and `AnswerLost` one cut off after its request
was carried out; between them they cover a restart, a timeout and an unreachable peer.
`Person` is somebody who assigns the issue in Jira itself. `refused` are the Hives whose account
Jira refuses, `missing` the issues it does not show, from any moment on until somebody sets it right
(`Withhold`, `SetRight`). A claim then asks for an operator (`Withheld`); so does a handoff whose
issue is missing, while one whose account is refused is tried again in every pass
(`HandoffWithheld`). A pass reads and assigns an issue of a handoff in one step: that Jira changes
its mind in between is a pass cut off.

`SharedHome` is what a reader of the Keeper's tables is promised: an issue has at most one home, a
home that agreed on an heir keeps it, and only the heir takes over. `HomeOf` and `HeirOf` map the
tables to it; reservations, journals, passes and Jira are stutters.

## 3. What the runs show

| Run | Question | Bounds |
|---|---|---|
| `gate` | Is what is in flight always entitled to be? Does maintenance kill only the unattended? Does a stop return? | 2 views, 3 threads, u64 up to 3, leases of 1 and 2 ticks |
| `registry` | Do takeovers, owners and stops exclude each other across the engine's mutexes? Is a process whose kill failed killed once more? | 1 session, 2 views, 3 leases (two revisions of one id, and another id), 3 threads, every request |
| `registry_ends` | Is there a circle of mutexes? Does `stop_retained` wait for a writer? | 1 session, 1 view, 1 lease, 3 threads, one request per lock order |
| `ledger` | Does admission lose anything, though the ledger may be wrong? Does the ledger account for everything when all hooks arrive? | 3 prompts, 4 writes of five kinds, 2 in flight; a busy Claude, one that is not reported in full, one whose reports land between checks |
| `ledger_admission` | Does admission lose nothing, whatever Claude does? (It may.) | the same, the third Claude only |
| `engine_update` | Is whoever an update stopped owed a return until it runs, and started for it once (`OwedReturn`)? Does a return start a second process? Does every drain end, and is every return tried? | 2 workers, one of them started by the supervisor whenever it is down; 1 fault; 1 restart of the API or kill of the package |
| `engine_update_swap` | Can the package's restart end a session? (It can.) | the same |
| `board` | Can tasks need each other in a circle, be completed out of order, or share a worker's only active place? Does what waits come back? | 2 tasks that may need each other, 1 worker, 1 decision, 1 removable task, 1 restart |
| `delivery` | Is a text written again unasked? Is a superseded one queued again? Does every claim end, and do free terminals get their messages? | 2 messages for 1 terminal, 1 review, 1 retry, 1 fault |
| `delivery_group` | Was everything delivered that is recorded so? (It need not be.) | the same, without the operator |
| `handoff` | Has an issue one home, which only an heir takes? Is nothing imported that was not owned? Do claims and handoffs end? | 2 Hives, 1 issue, 2 claims, 2 handoffs, 2 passes of the target and 1 of the source, 1 disturbance: a lost answer, a cut-off, a person in Jira, a refused account or a hidden issue |
| `handoff_swap` | Does an accepted handoff finish or ask for an operator? (It need not.) | 2 Hives, 2 issues, no fault |

Why the bounds are enough. In the gate two views give every pair of competing owners, and
three threads a writer, a stopper and a second stopper or maintenance at once; with u64 up
to 3 the runs go through a claim, its release, another claim and a refusal at the limit.
Smaller limits hide wrapped generations. In the registry a race of two requests with a
third that changes what both looked at needs three threads, and two lease ids with two
revisions distinguish "another lease", "this one, newer" and "this one". One session is
enough for what the registry promises of one; requests for different sessions meet only in
mutexes. In the ledger three prompts are the least that has one running, one
queued and one closed, which is when a wrong id can be taken for a right one.

For the update two workers are the least that lets the engine refuse one and stop the
other, stop one and fail on the other, or give one back while the other still runs, and
that lets Swarm set aside both, or one. One fault and one restart give every single failure in
every step, and a failure followed by a restart. The releases are two: the one running and
the one wanted.

On the board two tasks are the least that can need each other, compete for a worker, or be
completed in the wrong order; longer circles are left to the proof (`NeverCircular`). In
delivery two messages for one terminal are the least that form a group, or of which one stands in
the prompt while the other waits; the review is the one that can be superseded and retried.
Two Enters are as good as three: what matters is one that is not the last. For handoffs, the Hive
that receives has two passes, so that one acts on a copy the other has moved, and may claim the
issue itself; two claims let a reservation run out and be taken by the other Hive or by the same
one anew; two handoffs let an offer be withdrawn and made again. When handoffs go both ways
`HandoffsEnd` is false: that is finding 4. One disturbance at any moment, and Jira set right at
any later one or never, gives each phase of a claim or handoff each way in which Jira can fail it.

`MaxU64`, `MaxPrompts`, `MaxWrites`, `MaxInFlight`, `MaxFaults`, `MaxCrashes` and `MaxRetries`,
the identities of claims and handoffs, and the sets that say what operators, people and
terminals do in an instance (`Asked`, `Linked`, `Removable`, `Reviews`, `Closable`, `Engaged`,
`Claimants`, `Offers`, `Persons`, `Refusable`) are the only bounds; those of the ledger appear in
guards and merely end a behaviour early, and a system whose engine is current and whose workers sleep has
nothing left to do, which is why the runs of these two modules, and only they, do not check for
deadlock.

### Fairness

`FairSpec` of the gate asks for strong fairness of entering a stop, since the mutex of
stops is released by every failed kill and retaken, and weak fairness of a kill's outcome and of
maintenance's next step. Nothing is asked of `Land`: a PTY whose reader does not read
blocks its writer, and the properties must survive that. `FairSpec` of the registry asks
for strong fairness of every thread's work (the Rust mutex does not queue, but a
thread that is offered it infinitely often gets it) and that a write to a *killed* process
ends. `EveryRequestEnds` has the further premise `AllWritesEnd`, stated in the property,
since without it the code does hang: `stop` waits for the takeovers behind a write to any session.

`FairSpec` of the engine update: whoever holds the lifecycle lock takes its next step (each
is a request with a timeout, or a write), and so does the package, whose timer starts it
again and again. Strong fairness is asked of the supervisor's look for a stale drain and of
its returns: both give up when the lock, or the package's, is taken at that moment, and come
round with every pass. Nothing is asked of autostart, the operator, or a new attempt.
`MaxFaults` makes failures finite, without which no promise of this kind holds.

`Fairness` of the board is that the coordination pass comes round: weak fairness of `Read` and of
each `Resume`. Of delivery: the same pass claims, recovers and ends, each terminal's
group takes its next step (every wait of it has a timeout), and results are stored; a message's
landing late, the operator, Queen and the provider are asked nothing. `FairSpec` of handoffs asks
that some pass of each Hive takes its next step, and one begins again, which the timer sees to;
another pass of the same Hive may stand still for ever. Nothing is asked of operators, of the two
minutes, of people in Jira, or that Jira is ever set right. `MaxFaults` makes faults finite.

### Findings

1. `maintenance_settled` reads the turn, the ledger and the screen one after another, and hooks
   may land in between: a second Stop of a continued turn, which tells of background work, is
   unseen, and the session is admitted with that work running. `process.rs:806` speaks of "whether
   stopping this session now can lose nothing", and ADR 0156 asks for all the conditions at
   once (`ledger_admission`).
2. The engine's drain has no owner. `swarm-package` counts sessions under its drain and
   restarts the engine some steps later (`packaging/linux/swarm-package:1921-2061`); an
   attempt of the API that gives up meanwhile, or `lift_stale_drain` after its look at the
   lock, cancels that drain, a worker starts, and the restart ends it, contrary to
   `swarm-package:1983` and to `idle_engine_update.rs:436-439` (`engine_update_swap`).
3. A group of messages is known by the marker of its first. When that one still stands unsent in
   the prompt, and Queen retries it together with a later one, the prompt is taken to hold both:
   Enter is pressed, and both are recorded as delivered (`delivery_group`).
4. A pass fails on an accepted handoff that its own Hive offered, since it tries to journal that
   too. Two Hives that accepted from each other never finish, and nobody is asked
   (`handoff_swap`). One such handoff alone delays whatever the Hive is to receive.

Seen while modelling, and without a run of their own:

- `stop` waits for `takeovers`, which `write_controlled` holds while the PTY blocks
  (`process.rs:1581`, `1780-1791`): one unread terminal holds up the stop of all, contrary
  to the purpose stated at `control_gate.rs:69-70`. `stop_retained` does not (`StopRetainedEnds`).
- A reclaim verifies and removes under two acquisitions (`process.rs:1661-1662`) although
  it is described as atomic (`process.rs:1642`).
- Finding 1 is one of four ways in which an admitted session loses something. A whole short turn
  between the checks is another: what it leaves in the background, or the answer it is denied, is
  lost with the session. Two more need a lost hook that would have told of either. `Sound` in
  `TurnLedger`, the restriction of `AdmissionLosesNothing`, rules out these, and only these.
- A stop whose kill fails has already taken the session out of the registry (`process.rs:1578`). The
  session's `Drop` tries the kill once more, but a request blocked in a write to it puts that off for
  as long as it blocks, and no request finds the session meanwhile; a process that survives the
  second kill too belongs to nobody (`abandoned`).
- After a lost submit hook a queued message is taken for the turn itself
  (`turn_ledger.rs:109`), although `turn_ledger.rs:4-6` says the ledger never guesses; and a
  message typed while a Stop hook continues a turn is closed by that turn's second Stop. In both
  cases the screen, asked last, still refuses (`AdmissionLosesNothing`).
- `resume_cleared_waits` moves what it read one acquisition earlier (`task_waits.rs:488-538`): a task
  blocked anew in between comes back although its wait is not clear, contrary to its comment and to
  ADR 0119.
- An answer that parks a draft writes an activity entry without the state it came from
  (`decisions.rs:1999-2012`), so that Done makes a draft ready that never was
  (`task_waits.rs:104-107`).
- A Hive that is handed an issue it has itself queued a claim for never gets past that claim: the
  Keeper answers with the confirmed claim, whose two minutes are over, and the answer is taken
  for invalid (`Unclaimable`, named as the exception in `ClaimsEnd` and `HandoffsEnd`).
- A handoff for whose target Jira refuses the account is tried again in every pass and asks for
  nobody (`lib.rs:10378-10386`, `10410-10418`), where a claim asks for an operator; ADR 0032 expects
  attention for a handoff that cannot finish. `HandoffsEnd` names the outcome.
- A handoff that asks for an operator before the Keeper confirmed it stays accepted there, so the
  passes of its source go on failing at the listing, as in finding 4.

## 4. What is proved

`ControlGateProofs` proves for any views, threads, leases and width of the counters
(assumptions: the lengths are positive naturals, the model values `NoOwner`, `Free` and
`"engine"` are no views, threads or grants):

- `Invariance`, the inductive invariant; `TypeCorrect`, `EffectsAuthorized`,
  `MaintenanceSafe`;
- the action properties `GenerationsAdvance`, `LeaseOnlyGrows`, `SuccessIsReal`,
  `DeadStaysUnowned`;
- `GateKeepsPromise`: the gate implements `OwnedInput`.

The properties are not inductive alone. `EffectAuthority` says that a blocked writer still
owns its session. That holds since whoever could change the owner needs the mutex the
writer has, so the invariant says which thread holds which mutex in which phase (`Locks`,
`Shapes`). What a call will commit was computed when it was admitted, so the invariant
says how a proposal relates to the control now (`Proposals`: the same owner with a lease
at least as long, or the next generation). Maintenance looks for an owner once, so what it
saw must stay true until it kills (`Unattended`: leases only run out, and nobody else can grant
one). And a killed process stays fenced (`Fenced`), so that what landed after can only be
reported as interrupted. The proof has one lemma per action, and one step per conjunct
that the action can disturb; `AuthorityAdvances` and `TypingProtected` then follow from a
classification of the steps that write `control`. They are theorems but no properties of a run:
the former is implied by `KeepsPromise` (in `OwnedInput` the holder changes only with the
generation), and the latter only says that a renewal, which is computed and committed under
one mutex, takes the longer of two leases.

`SessionRegistryProofs` proves for any sessions, views, leases and threads, and any mix of
requests (assumptions: requests are well formed, the model values are no views, leases or
threads):

- `RegistryInvariant` and `RegistryTypes`; `LeasesEndWithTheirSession`;
- `NobodyForgetsAProcess`: a process that still runs is in the registry or in the hands of a
  request, unless the kill of its session's drop failed as well;
- the action properties `OwnersExcludeTakeovers` and `StopsThatSucceedKill`;
- `NeverWaitingInACircle`: while anybody is busy, somebody is busy and not waiting for a mutex.
  It is what liveness needs of the order of the mutexes, for any number of threads. `Waits` is
  written out, since ENABLED cannot be reasoned about; TLC found it equal to "no step of this
  thread is enabled" in all states of two threads;
- `EffectsNeverOverlap`: one write to a session at a time, and one entry of the audit.

A thread's operation and phase say which mutexes it holds, and the mutexes say so too
(`BusyWithRequest`, `LocksHeld`); what it saw under a mutex then stays true until it lets go. An
admitted effect that excludes takeovers holds `takeovers`, so no lease arises before it commits
(`NoLeaseWhileArbitrating`). `NoLeaseForStopped` is kept by an install because it looks at the
registry again under that mutex, while `stop` takes a session out before it waits for it. A stop
waits for the kill of another before it trusts the flag, and a flag that is set means a dead
process or a kill under way (`StoppedIsDead`). Whoever removes a session has it in hand, and every
step that ends a request lets go of what the request held, so the last one kills
(`LetsGoKills`, `HolderSteps`). That nobody waits in a circle is proved along the order write audit,
takeovers, gate, kill: whoever holds the last one held waits for no mutex, though perhaps for its
terminal's reader.

`EngineUpdateProofs` proves for any set of workers and any number of lost answers, failed
stops and restarts (assumptions: the autostarted workers are workers, the two bounds are
naturals; finiteness is not needed):

- `UpdateTypes` and the inductive invariant `UpdateInvariant`;
- `StoppedWorkersAreOwed`: whoever an update stopped has its return on record until it runs
  again or is put to sleep;
- `ReturnsStartOneProcess`: no return starts a worker that already has a process whose start was
  never answered;
- `UpdateKeepsReturns`: the update, with both its routes, the supervisor, the operator, the package
  and the restarts, implements `OwedReturn`;
- `OnlyLiftedDrainsEndWork`: in every behaviour in which nobody but the package lifts a drain while
  the package is at work (`DrainLeftAlone`), its restart ends no session. The code does not see to
  that hypothesis, which is finding 2; the theorem says that the finding has no other cause.

`StoppedAreOwed` is not inductive alone: `Withdraw` deletes returns, and what makes it safe is what
the attempt knows by then. So the invariant follows an attempt: what it recorded is owed
until it withdraws (`ListedAreOwed`), the sessions the engine named are among those it
listed (`HoldersAreListed`), and each worker it stopped is among those it set aside or
found stopped, however the answer was lost (`StoppedAreKnown`). That last one rests on
two more facts: a stopped worker does not run (`RunningAreBack`), so a list taken after a
lost answer misses none, and an attempt lists running workers only, so what an earlier one
stopped is none of its concern. Clearing the record on success is safe since the worker
runs (`ReturnedAreBack`, with one start at a time, `LaunchesOne`), and the card stops only
who is owed (`CardIsOwed`). Types are proved in two lemmas, for the task and for the
rest, and each lemma about a step has one step per action. `ReturnsStartOneProcess` has an
invariant of its own (`StraysInv`): once the engine is current, a worker with a stray process is
not owed a return (`StraysNotOwed`), since an attempt records returns only while there are no
strays (`NoStraysRecorded`); so it is not among those to be brought back (`NoStraysToReturn`), nor
is the one about to be launched (`LaunchFresh`).

Each step that matters to `OwedReturn` has one of four shapes, a lemma each: workers on record are
stopped (`DueStopped`), one runs again or sleeps (`DueBack`), claims come to nothing
(`DueFalls`), or what is written concerns only workers that no update stopped (`DueSame`). Which
shape a step has follows from `UpdateInv`: an admission stops only who is on record
(`ListedAreOwed`), a record or a card writes about workers that run, a withdrawal spares whom the
attempt stopped. What the answer to a start writes needs one more invariant, that the claim
it settles still stands (`ClaimedAreStarted`): only `Claim` leads to a launch
(`OnlyClaimLaunches`), and while one is under way nothing else writes about returns.

`TurnLedgerProofs` proves for any Claude, kinds of writes and bounds (assumptions: the bounds are
naturals, `NoPrompt` is no prompt's number):

- `LedgerInvariant` and `LedgerTypes`: no hook, however late, unnamed or followed by others, takes
  the count of queued prompts below zero, or beyond the prompts there were;
- `SoundAdmissionLosesNothing`: an admitted session has nothing to lose, in every behaviour whose
  Claude is `Sound`: nothing lands between two checks and no hook is lost, or it neither leaves work
  behind nor is denied. The restriction is part of `AdmissionLosesNothing` itself; without it
  (`AdmittedLosesNothing`) the code does not keep the promise, which is finding 1;
- `SettledLedgerAccounts`: where hooks come in time and with their ids, a settled ledger has
  accounted for every message.

The ledger lags behind Claude by the hooks under way, so the invariant cannot say what it
holds, only what it will: there is a sequence of ledgers, one for each hook under way, each what
the ledger becomes when the hook before it is observed (`BooksKept`). A step of Claude appends to
it, an observation takes its head away, a write changes counters that no hook reads; none of these
needs induction over the hooks. Every ledger of the sequence is bounded by the prompts taken
(`Bounded`), and where all hooks arrive the last one counts every queued prompt and the running
turn (`Accounts`). `Evidence` is the other half: input that was typed and not taken leaves the
ledger unsettled or shows on the screen, a turn that the hooks did not report shows too, and
what a turn left, or was denied, is in a report that was observed or is still to be. `ChecksHold`
carries what one check found to the next; what may happen in between depends on `slow`.

`TaskBoardProofs` proves for any tasks and workers the invariant `Inductive`, and from it
`BoardTypeOK`, `NeverCircular`, `CompletedInOrder` and `WorkerHoldsOne`. Every action is one of
three shapes: one row changes, a link comes, a link goes. A link comes only when what it needs
does not reach back: the code refuses a link whose prerequisite reaches the task (`Reached`,
the least set closed under the relation, in place of the code's walk), so the tasks on a new
circle would have been reached already. `OneActive` needs that a removed task has lost its
owner (`GoneUnowned`), or restoring it could give its old worker two.

`MessageDeliveryProofs` proves for any messages, terminals, retries and faults `DeliveryTypes`,
`NeverUnasked` and `SupersededNeverQueued`. The invariant (`PermitInvariant`) treats the right
to write a text as a permit: a row that is queued or whose claim has not reached the terminal
carries one (`MayWrite`), and so does a request that nobody waits for any more (`Left`). A text
was written at most once more often than Queen asked, strictly less when a permit is still
about. Each step loses a permit, hands it on, uses it, or is Queen's retry, and that a retry
finds none left is why she must have seen the doubtful claim itself (`ClaimsCounted`).

`ClaimHandoffProofs` proves for any Hives, issues, passes, claims, handoffs and faults
`HandoffTypes`, `AssignedBeforeHome`, `TasksWereHome`, and that the whole implements
`SharedHome` (`ImplementsSharedHome`). What a pass copied may be old, so the invariant may only
say of a copy what *stays* true: that a claim is for this issue, that Jira confirmed the
assignment, that the Keeper made the Hive its home. Those facts only grow (`Grows`), so that
every copy, row and journal entry a step leaves alone stays sound, and one lemma per action is
left with the one it moves. What Jira shows, and to whom, is in no copy, so it may change at any
time. For the refinement at most one claim of an issue is open and one
handoff of a claim active, so that `HomeOf` and `HeirOf` do not depend on a choice; each action
of the Keeper is then `Take`, `Agree`, `HandOver` or a stutter.

Every safety invariant and action property that a passing run checks is thereby a theorem as it
stands, with the restriction that `AdmissionLosesNothing` states, and so are the three refinements.
The properties of the violation runs are of course none. Only model-checked is liveness
(`StopReturns`, `EveryRequestEnds`, `StopRetainedEnds`, `DrainEnds`, `OwedAreTried`,
`ClearedComesBack`, `AnsweredComesBack`, `FreeGetsMessages`, `HandoffsEnd`, and `ClaimsEnd` of two
modules), which rests on fairness and ENABLED and is out of this prover's reach. Of
`EveryRequestEnds` the half that is safety is proved (`NeverWaitingInACircle`).

## 5. What is left out

- Poisoned mutexes (a panic under a lock), the saturation of counters at u64 and u16 in the
  ledger (out of reach of any session), the texts of errors, the write audit's contents.
- Partial PTY writes: a write lands or it does not.
- Of the board: the check gate, dispatch (with it the refusal to bring a task back while 256
  dispatches are queued, `swarm-persistence/src/lib.rs:3420-3428`, and the limit of 64 in one
  pass), outcomes, positions, standing tasks and decisions' options. That a task blocked anew may
  come back by a stale read is in the model and in section 3, but no property forbids it.
- Of delivery: a second terminal beside a held one (the theorems are for any number, the run has
  one); broadcasts, dispatches and wakes; the number of messages one pass takes; presence
  and cooldown, which stand behind `held`; a long paste that the provider folds.
- Of the registry: maintenance, whose try-locks are in `ControlGate`, so that its part in the order
  of the mutexes is not checked; spawning; attachments.
- Of handoffs: the credentials of members at the Keeper and their renewal; full queues; the order of
  rows and the delays of retries; the number of phases one pass takes a row through (a pass may end
  earlier, which a later pass makes good); `release_claim`, which nothing in a pass calls; Hives
  that leave; clocks of members that differ from the Keeper's.
- Everything listed `not_modelled` in `PROJECT.json`, with the reason there.

## 6. Plan

Next, in this order:

1. `Spawn`: spawn, continuation recovery, provider lifecycle gate.
2. `TaskDispatch` beside `MessageDelivery`: the dispatch of a task and its crash and retry, and the
   check gate on the board.
3. `RecoveryCircuit` and the rounds of Queen's reviews.
4. Steward takeovers and membership renewal, which would give `SessionRegistry` its leases.

Instances stay small (two workers, two Hives, one lost answer), and each module gets one
passing run for safety, one for liveness if it promises any, and a refinement
where an abstract specification is named above.
