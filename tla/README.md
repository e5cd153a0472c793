# ProcessPatch: a TLA+ development

ProcessPatch compares a policy with a business procedure, finds cases in which
the procedure violates the policy, patches the procedure, and lets humans
decide what becomes active. This directory holds TLA+ models of its
concurrent core (storage, gates, evidence, activation, the flow of a build) and
of the compilation pipeline from rules to a certified repair, the TLC
configurations that check them and TLAPS proofs of what matters most in them. Paths below are relative to the repository
(`services/...` is `src/services/...` in `PROJECT.json`).

## 1. The system

| Component | Code | State | Operations | Talks to |
|---|---|---|---|---|
| Record storage | `services/storage.py` | one DynamoDB table of collections; a version per record; a legacy META blob | `get_item`, `put_item(expect)`, `delete_item`, bulk `_load`/`_save` | everything below |
| Registry | `services/registry/store.py` | builds, policy and procedure versions, audit rows | save/get/find/archive/delete build, create-only procedure versions | storage |
| Governance | `services/governance/store.py` | rule reviews, patch reviews, approvals, candidates, gate callbacks | open/decide reviews, decide patch, mint candidate, activate, save/resume callback, purge | storage, registry, Step Functions |
| Step Functions pipeline | `infra/statemachine.asl.json`, `services/aws_handlers.py` | an execution's place and its JSON document | INGEST ... VALIDATE, three waiting states, ACTIVATE, MARK_ACTIVE | governance handlers, by Lambda calls and task tokens |
| Synchronous pipeline | `services/api/pipeline.py`, `create_build` | none of its own | compile, diff, witnesses, patch, validate, impact | compiler, patcher, validator |
| HTTP surface | `services/api/actions.py`, `server.py`, `authz.py` | none of its own | one function per route; roles and workspaces | governance, registry |
| Traces | `services/traces/store.py` | traces, executions | record, list, conformance | storage (bulk saves) |
| Algorithms | `compiler`, `semantic_diff`, `workflow`, `witness`, `localizer`, `patcher`, `regression`, `normalizer`, `extractor`, `impact`, `certificate`, `provenance` | none | pure functions | each other |
| Console, benchmark, scripts | `frontend`, `services/bench`, `scripts` | browser and files | | HTTP surface |

How they interact. Every request and every task of an execution is its own
Lambda call. Calls share nothing but the table, and a call touches the table
many times: it reads, decides and writes in separate steps, so any two calls
interleave between any two of their table operations. Discipline is optional:
`put_item` with `expect` is an optimistic compare-and-swap, without `expect` it
is a blind write, and the bulk `_save` has no version at all. An execution
that waits for a human stores its task token in the callback record of
(build, gate); the human's request claims that record, applies the decision
through the domain functions, and answers the execution with the token.

What is hard here: interleavings of reads and writes of several workers;
a worker that dies between two writes; a claim that goes stale and is taken
over; a Step Functions call whose answer is lost; a second execution of one
build; a build compiled again while it is being decided; values read once and
used several writes later. `PROJECT.json` lists these hazards line by line
with the property that covers each, or the reason why none does.

What makes each component correct:

- storage: a successful versioned write is not lost, a refused one was really
  beaten and leaves nothing, creations are exclusive, versions do not repeat;
- gates: one live claim, one decision, the waiting execution's token is kept,
  the execution runs on a decision on record (of gate 3: in the slot), no gate
  stays stuck;
- evidence: every decision has a row of its own, in the order of the writes;
- activation: only what was approved becomes active, minted graphs are
  immutable, an activation that completes leaves one active version;
- rule reviews: what gate 1 hands to the compiler is what stored decisions
  accepted, and no rule gets through undecided;
- builds: a validated status means that the validator certified those rules,
  archiving hides a build and does nothing else, a duplicate reuses a build that
  is there, an execution ends once and for one key;
- compilation: every disagreement between policy and procedure has a witness, a
  semantic label is true of every case, a certified repair takes nothing from
  anybody the old procedure served as the policy asks, both fronts of the pipeline
  make the same build, and verifying a build again does not accuse its repair.

## 2. Modules

| Module | What it models | Proofs |
|---|---|---|
| `CompareAndSet` | what a collection of versioned records promises (abstract) | |
| `RecordStore` | one collection under `get_item`, `put_item`, `delete_item`, bulk load and save; implements `CompareAndSet` | `RecordStoreProofs` |
| `GateOnce` | what a gate promises (abstract) | |
| `GateCallback` | the callback record of one gate, its executions and reviewers' requests; implements `GateOnce` | `GateCallbackProofs` |
| `ApprovalLedger` | `_record_approval` and the purge of `approvals.json` | `ApprovalLedgerProofs` |
| `Activation` | gates 2 and 3: `decide_patch`, `create_candidate_version`, `activate_procedure`, `mark_build_status` | `ActivationProofs` |
| `BuildCatalogue` | what the registry of builds promises to executions (abstract) | |
| `BuildFlow` | executions of the state machine and API requests over builds, rule reviews and the slot of gate 1; implements `BuildCatalogue` | `BuildFlowProofs` (types), `BuildFlowReviewProofs` (gate 1), `BuildFlowRegistryProofs` (registry, refinement) |
| `Expressions` | conditions, boundary neighbours | |
| `Workflow` | graph integrity, topological order, execution of a procedure | |
| `Rules` | rule compilation, conflicts, expectations, the semantic delta | |
| `Diagnosis` | disagreements, witness search, localizer | |
| `Repair` | the patch and its operations | |
| `Validation` | the validator's suites, the synthetic cohort, impact | |
| `Compilation` | the two fronts (`run_build`; the handlers of the state machine), `reverify_build`, `nominate_witness` | `CompilationProofs` |
| `MC...` | instances for TLC: symmetry sets, the order of version ids, policies and procedures | |

The modules fit together by what each shows of the layer below. `RecordStore`
shows that a record is an atomic compare-and-set while everybody who writes
it passes the version it read (`ImplementsRegister`) and that of several
creators of one id one wins (`CreateOnce`). All writers of `callbacks.json`
obey the first, so `GateCallback` keeps, instead of numbers, the set `current`
of actors whose version is still the stored one, as `CompareAndSet` does; all
writers of `approvals.json` rows and of new procedure versions are creators, so
`ApprovalLedger.Mint` and `Activation.CreateCandidate` are single steps.
`ApprovalLedger` shows that a decision's row is its own and that the list is
read back in the order in which it was written, so `Activation` keeps the
evidence as a sequence.

### RecordStore

`row` and `blob` are the per-record items and the legacy META item. A payload
is the set of edits it carries, one per client, so a lost update is an edit
that disappears. `put_item` is `PutRead` (the read of the current version, lines
274-287) and `PutWrite` (the conditional write, 288-307); `delete_item` is
`DeleteRead`, `DeleteRow`, `PopRead`, `PopWrite`; a bulk change is `BulkLoad` in
the caller and `BulkDiff` and one `BulkFlush` per item in `_dd_save`. Records
start absent, versioned, bulk-saved (no version: -1) or only in the blob.

Properties about versioned writing hold of a record as long as it is
`Disciplined`: no blind put, no delete, no bulk save, no writer that found
version -1. That is a condition on the state, so the same run has the
undisciplined operations too. `CreateOnce` and `LossMeansAnotherWon`
exclude less, as they say.

`Register` maps this to `CompareAndSet`. A record is `Loose` once it is not
`Disciplined`; of the others, `Present` and `Edits` are what `get_item` would
return now, `UpToDate` holds the clients whose version is still the stored one, and
`Told` is what a client has been told. A versioned put becomes one step,
`Replace`, at the conditional write; the read before it only decides whether the
client is among the `current` ones, and every way to be refused is a `Refuse`
that needs a reading out of date.

Abstractions: the item and the blob are read in one step (`_dd_get_item` makes
two calls when there is no item); a page of a query is not torn; only one
operation per client.

### GateCallback

`cb` is the record; each reviewer's request walks through `pc`:
idle, read, claimed, (giving_back), sending, sent or unsent, idle. `gate` says
which gate the slot is for, one of `Gates`. `Apply` is the domain effect with its
decision, which gates 1 and 2 put on record (`ledger`); gate 3, `activation`, only
looks at the approvals and computes its output, so that the slot is the one place
that ever holds it (`Recording`). `ApplyRaises` is the effect that fails
before or, with `EffectFaults`, after it stored the decision. `Deliver` and
`SendFails` are `send_task_success`, which may raise although it took effect.
`Finalize` and `GiveBack` rewrite the whole record from the earlier read, as the
code does. An execution is its token: `ArmRead`, `ArmWrite`, `TokenDies`.
Time appears as `ClaimGoesStale`: a claim turns stale only when its holder is no
longer running, because `CLAIM_STALE_S` is 60 s and the Lambda of the API is
killed after 15 s (`infra/template.yaml:247`). `lost` is history: the executions
whose answer was sent by a request that was killed before it could finalize the
slot.

Properties about the one claim and the token are stated for a gate that was
`ArmedOnce`: the second execution of a build overwrites the slot whatever its
state, on purpose. `OutputsAreOnRecord` says of a gate that records what its name
says. Of gate 3 it says, for a gate `ArmedOnce`, that the decided slot holds the
answer an execution runs on, or the live request that sent it will put it there,
or that request was killed in between, which loses it.

### ApprovalLedger

A call dates its id (`Date`), loads the collection (`Load`), and tries
numbers (`Mint`, `Collide`). `Midnight` moves the date. `PurgeLoad`, `PurgeDiff`
and `PurgeFlush` are `purge_build_records` on this collection, whose rows then
become free ids.

### Activation

A request copies the build when it starts (`job.doc`) and works on the copy, as
`_decide` and `activate_procedure` do. A decision is `Decide`, `FindCandidate`,
`CreateCandidate`, `NoteCandidate`, `RecordDecision`, `StoreBuild`; an activation
is `CheckApproval`, `LoadVersions`, one `Flip` per version record, and
`RecordActivation`; the state machine's ACTIVATE continues, whatever the
outcome, with `MarkRead` and `MarkWrite`. `Recompile` stores the build again,
with a new certificate and perhaps another graph. `Crash` kills a request
anywhere.

A build's content is a pair of graph and certificate, standing for the hashes
of `_artifact_hashes`; the hash of the patch operations (the "opened hash")
is taken to change with the graph. The guardrails that look only at the
request's own copy (validation, preservation, provenance, conflicts) are left
out: they are a function of the copy. `Decide` reads the opened hash and the
unresolved reviews in one step. The `procedure_versions.json` table holds one
workflow.

### BuildFlow

How a policy text becomes a build, and who may interfere. `Run(e)` is an
execution of `infra/statemachine.asl.json` with the handlers behind it: `Start`
(INGEST to RULE_REVIEW_REQUIRED?, with the lookup of CHECK_IDEMPOTENT), `Arm` and
`OpenForExecution` (the task of WAIT_FOR_RULE_REVIEW stores the token first and
then opens the reviews one by one), `Compile`, `Persist`, `Decide`, `MarkRead`,
`MarkWrite`, `Fail`. `Step(q)` is a request: a review (`ReadReview`,
`WriteReview`, `Note`), the resumption of gate 1 (`Claim`, `BatchRead`,
`BatchWrite`, `Note`, `LoadAccepted`, `Count`, `Answer`), `create_build` and a local
`start_execution` (`Create`, `CreateDraft`, `CreateRefused`, `Execute`,
`ReadVersion`, `StoreFirst`, `OpenNext`, `AcceptRead`, `AcceptWrite`, `Note`, `Store`),
and `set_build_archived` (`Archive`, `ArchiveWrite`, `ArchiveAgain`).

Steps are the single calls on the table. A review is two puts, the decision
(`StoreReview`) and the row on the audit trail (`Note`), which names the rule and the
event but no value; a request may stop for good between them, as between any two
steps. The answer of gate 1 is a load of the accepted rules (`LoadAccepted`), a
load that counts the unresolved ones (`Count`) and the send (`Answer`), with
reviews opened and decided between them. A save of a build reads the version
(`ReadVersion`, `ReadVersionFor`) and puts blindly what it read plus one
(`SaveBuild`), so two saves may store one `version`, and an archive whose put is
conditional on the version may then overwrite the second of them. For reviews,
whose every write is versioned, `current` plays the same part as in `GateCallback`.
`decided` (the decisions stored so far), `missed` (the reviews that were not there
when the gate counted) and `raced` (the archivals under whose record a save had
read a stale version) are history: no action reads them.

Abstractions. One procedure is compiled, so a compile key is a set of extracted
rules; texts without any rule are left out. PENDING and ESCALATE are one value,
OPEN, because no reader tells them apart, and an EDIT without a value is a
rejection, because every reader treats it as one. The ends of the state machine
that need nothing more are one stage, CLOSED. An execution fails only where a
token is out; anywhere else to fail is to take no further step. Re-fires,
stale claims, crashes and failed sends at a gate are the subject of
`GateCallback`, and of gates 2 and 3 only the answers show. Which of a build and a
draft with the same key a lookup finds is arbitrary, as it depends on the
backend. Compilation and validation are one constant function, `Verdict`, of
the rules; `Compilation` has its body. `delete_build` is left out: entries
never disappear as long as nobody uses it.

### BuildCatalogue

The promise behind idempotent reuse: one entry per key that never disappears;
`Reuse` needs an entry, `Submit` stores one no later than the execution starts to
wait, `Activate` follows `Submit` of the same key, and results are final.
`BuildFlow!Abstract` maps the compiled builds to entries and stages to outcomes.

### Expressions to Validation

The algorithms, as operators, function by function: `eval_condition` and
`neighbors` (`Expressions`); `validate_dag`, `_ordered_nodes`, `execute`
(`Workflow`); `normalize`, `compile_rules`, `required_for`,
`evaluate_expected`, `semantic_rule_delta` (`Rules`); `diff_case`,
`classify_disagreement`, `candidate_cases`, `find_witnesses`, `localize`
(`Diagnosis`); `propose` with every operation it emits (`Repair`); the suites of
`validate` and `compute_impact_summary` (`Validation`).

Abstractions. Values of a field are integers, and dates and amounts written as
text compare by the same order. A compound condition has the set of its parts,
which bound a field at most once, and connectives at most five deep
(`ConditionDepth`): a policy nests them twice and a patch puts three more around
them. Loops over a graph or a condition are recursive functions, over the
number of turns that the code's loop can take (`OrderedNodes`, `Reached`) or over the
conditions (`Nested`), never RECURSIVE operators, so that the modules can be
reasoned about. A validation's `failed` is the set of the failed tests, by
suite and number, where the code has their number. Names and the words they are looked up by
are tokens; changes of case are not modelled. Of the fields that every base
case carries (year, backlogs) only those that conditions name are there. A boundary
test uses the neighbours one step away; literals are two or more apart. The
code sorts candidates as text before a cap cuts them (`generator.py:73`,
`validator.py:132`), so "100001" comes before "30000": `ByText` sorts by `TextRank`, a
constant that says where the text of a value is. A field has default candidates only
if `Defaults` has some. Two rules with one kind, action and condition are one entry
of the delta, the last of them (`Keyed`). Wording and rendered pages are left out.

### Compilation

Every behaviour takes one amendment (old rules, new rules, procedure) either
through `CreateBuild`, which is `run_build` in one call, or through the handlers of the state
machine, `Extract` to `PersistBuild`, each on what the one before handed on. `Review`
hands on any of the extracted rules. A stored build can be verified again
(`Reverify`) and take up witnesses from runtime traces (`NominateWitness`), any
number of times and in any order. The pipeline is sequential, so its state is
the job; what several of them do to each other is `BuildFlow`.

## 3. Runs

All runs finish within two minutes with two workers.

| Run | Instance | Shows |
|---|---|---|
| `store` | 3 clients, 2 keys, all operations and all seeds | `NoLostUpdate`, `LossMeansAnotherWon`, `CreateOnce`, `LoserLeavesNoTrace`; `ImplementsRegister`, the refinement of `CompareAndSet` |
| `gate_faults` | 2 reviewers, 2 executions, two decisions, a gate that records and one that does not, 1 crash, effect and send faults; 232,312 states | `ClaimExclusive`, `WaitingTokenIsStored`, `OutputsAreOnRecord`; under fairness `NotBricked`, `DecidedGateResumes` |
| `gate_once` | 3 reviewers, 1 execution of a gate that records, send faults, two decisions | `AtMostOnce`; `ImplementsOnce`, the refinement of `GateOnce` |
| `ledger` | 4 calls, 2 attempts, 1 midnight, a purge of two calls' rows | `EveryDecisionHasItsRow`, `ReadBackInOrder`, `GivesUpUnderContention` |
| `act` | 2 sessions, 1 build, 2 graphs, 1 recompilation, crashes, reviews | `ActiveWasApproved`, `ActivationFollowsApproval`, `ApprovedDocument`, `ApprovedIsMinted`, `GraphsAreImmutable` |
| `act_flip` | 2 sessions, one of which activates, 2 builds, crashes | `ActivationIsComplete` |
| `build` | 34 amendments on 16 procedures of up to six nodes, 56 cases of amount, category and date, 2 traces; 25,647 states | `WitnessesCoverDisagreements`, `LabelKeepsItsPromise`, `CertifiedBreaksNothing`, `FrontsAgree`, `ReverifyBlamesNoRepair`, `PassedMeansRepaired`, `RefusedMeansCovered`, `AdjacentMovesAreObserved` |
| `flow` | 2 executions, 2 requests, 2 rules, 1 edited value; 1,648,527 states | `ReviewedRulesAreAccepted`, `NoRuleSlipsThrough`, `ValidatedMeansValid`, `ArchiveOnlyHides`; `ImplementsCatalogue`, the refinement of `BuildCatalogue` |
| `store_stale_writer` | 3 clients, 1 key, versioned and blind writers | violated: `StaleWriterCannotWin` |
| `act_concurrent` | 2 sessions, 2 builds | violated: `OneActiveWhenQuiet` |
| `act_marked` | 2 sessions, 1 build, 1 recompilation | violated: `MarkedActiveWasActivated` |
| `flow_model` | as `flow`, with rules that a model extracted | violated: `ModelRulesAreReviewed` |

Each run also checks its module's `TypeOK`, except where another run of the same
module does. What the properties leave out, and why, is part of them; these limits
come from real behaviour of the code, listed below.

- `OutputsAreOnRecord`, at gate 3: a request killed between its answer and its
  finalize, and a second execution that overwrites the slot.
- `ReviewedRulesAreAccepted` asks for a stored decision, and for its row on the trail
  unless the request that owes it stopped before that put.
- `NoRuleSlipsThrough` excepts `missed`, the reviews that were not there when the
  gate counted: the token is stored before they are opened.
- `ArchiveOnlyHides` excepts `raced`, an archival under which a save put a stale
  version.
- `WitnessesCoverDisagreements` and `CertifiedBreaksNothing` are claimed for
  procedures without conditional edges (`Branchless`), because the witness search
  does not collect the literals of edges, and for searches and cohorts that the cap
  leaves whole (`Uncut`). (For the second, the instance has a repair that shows why
  the cap matters, and none in which a branch does.)
- `CertifiedBreaksNothing` speaks of whom the old procedure served as the policy
  asks. Whom it did not serve right may still be served wrongly: a search keeps one
  witness of a kind and key, and one disagreement of a case hides another.
- `LabelKeepsItsPromise` is claimed for new rules that are all in force, for cohorts
  that the cap leaves whole (`Uncut`), for amendments in which every bound that is
  dropped is replaced by one of the same direction (`Succeeded`), and where the
  conditions of the old obligations are among the literals of the cohort
  (`ObligationsTried`). The last three are needed in the instance: without any of
  them it has an amendment that is certified under a false label. With `amount >= 40000`
  dropped next to `amount <= 80000`, for example, a build is certified as
  SEMANTICS_UNCHANGED because nothing in its cohort, defaults included, lies below
  the dropped bound.
- `RefusedMeansCovered` is claimed for a first nomination, and
  `AdjacentMovesAreObserved` for a patch with one move and without a new node right
  before the moved one.

Why the bounds are enough. Every anomaly known of these protocols needs two or
three actors: a reader, a writer that overtakes it, and for a version used
twice a third. Three storage clients cover them, and two keys let a bulk save
touch a record next to the one that matters. At a gate, two reviewers and one
crash give a stale claim that is taken over while a late re-fire is
under way, and two executions the overwritten slot; the third reviewer of
`gate_once` re-fires while two others race. Four mints against two attempts
reach the limit (the code has eight; the limit is a constant of the proofs).
Two sessions on one build with a recompilation give every stale copy; what
depends on two builds is in `act_flip`. `MaxLedger`, `MaxCrashes`,
`MaxRecompiles`, `LastDay`, `MaxRequests` bound the histories and nothing else.

In `flow`, two executions share a key, and with it reviews and slot, in every
way, while two requests interfere: a reviewer between the two reads of an
answer, an automatic acceptance over a decision, an archive over a store. Two
rules make a batch that stops half-way and an output that misses one; the
verdicts of `MCVerdict` give each outcome of compilation to some set of rules.
An archive and a save by another request or an execution give two saves under one
version.
In `build`, each kind of rule occurs as added, dropped and changed next to
others, also bounds on both sides of a field, obligations in another order,
duplicates and exceptions; procedures have their gate right, stale, missing,
misplaced, on the other side, behind a branch, and one is cyclic. The domain has
the literals of rules and gates with values on their sides (dates start at the
first deadline), also where no suite tries any. Amounts are in ten thousands; the
defaults are the code's (40000 and 60000, in the middle of the literals, the
category "general", a date) and so are `BoundaryCap` 7, `CohortCap` 60 and
`MetamorphicCap` 40, which do cut some cohorts, in the order of texts. Of the
search caps, `WitnessCap` (100) stands for 4000, which a search of three
fields does not come near, and `ImpactSize` is 20 instead of 100.

Deadlock. `store`, `ledger`, `build` and the `flow` runs set
`CHECK_DEADLOCK FALSE`, because their calls, builds and executions end; the
other models go on for ever (`Activation` has an explicit `Quiet` step).

Fairness (`GateCallback.FairSpec`, used only for the two liveness properties).
`WF(ClaimGoesStale)`: time passes. `WF(Step(d))`: a running Lambda takes its
next step, and a reviewer who sees an undecided or unanswered gate fires it
again. `SF(Apply(d))`: a reviewer who keeps trying is not refused by the
guardrails every time. `SF(Deliver(d))`: Step Functions does not fail every time.
The code justifies the first two by itself; the other two are assumptions
about the people and the service, and without them a gate may indeed stay open.
No fairness is put on executions, and a crash may take any request.

### Violations

- `store_stale_writer`. A comment in `storage.py:296` promises that a stale
  versioned writer cannot win. Two blind puts (`save_build` and
  `mark_build_status` pass no version) can store two payloads under one
  number, and then a versioned writer of the first wins against the second.
  `set_build_archived` is such a writer.
- `act_concurrent`. Overlapping activations of two builds of a workflow leave
  two active versions, or none: each derives all flips from one read and
  writes them without versions.
- `act_marked`. `aws_handlers.py:223-224` answers a refused activation with 409
  in the payload; Step Functions sees a success and MARK_ACTIVE stores
  PATCH_ACTIVE.
- `flow_model`. `model_fallback.py:95` promises that a model's candidates always
  enter gate 1. `model_extract` answers EXTRACTED when all of them pass its
  checks, and RULE_REVIEW_REQUIRED? (`statemachine.asl.json:44-57`) sends only
  NEEDS_REVIEW there.

### Other divergences met while modelling

No run states these; they are properties the models do not claim.

Activation and gates. While an activation is between two flips the workflow
has no active version; a rejection after an approval does not block activation
(`statemachine.asl.json:180`); the version named in `/procedures/{v}/activate`
need not be the one activated; an activation supersedes the other builds'
untouched candidates too; a review that becomes unresolved, or a patch that is
replaced, between the checks and the record of an approval does not stop it; a
claim that goes stale after its effect repeats the effect; an execution whose
slot is overwritten by a second one of the same key waits for its heartbeat
(`aws_handlers.py:188-198`); a purge makes evidence ids free again. Gate 3 puts its
decision on no record (`governance/store.py:395-418`): if the request dies between
`send_task_success` (470) and its finalize (477), the execution runs on a decision
that is stored nowhere and a later claim may store another one, against the comment
"the decision is already durably recorded" (479). The number of an evidence id is
padded to four digits (`governance/store.py:172`), so beyond 9999 decisions a day the
order of ids is no longer that of the numbers.

Reviews and registry. A decision on a rule and its row on the audit trail are two
puts (`governance/store.py:90`, `93`): a request that dies between them leaves an
accepted rule that gate 1 takes and no row explains. The unresolved reviews
are counted (385) some time before the answer is sent (470), and the task that arms
the gate may still be opening them (`aws_handlers.py:197-199`): what is opened or
reopened after the count holds nothing up. Two blind saves of a build may store one
version (`registry/store.py:97`, `storage.py:288`), and an archive that read the first
then overwrites the second, so it can "clobber a concurrent status change" after all
(`registry/store.py:124-125`). An EDIT without a value drops the rule silently
(`governance/store.py:106`). The automatic acceptance of `create_build` and of a
local `start_execution` (`actions.py:153`, `889`) overwrites what a reviewer
decided, and the local execution accepts the rules of any extraction, also a
model's, which `docs/production-readiness.md:13` says cannot bypass review. `review_action` asks for a stored build
(`actions.py:430`), which an execution waiting at gate 1 does not have yet, so its
rules can be decided only with the answer of the gate; `scripts/demo_run.py:150`
resumes gate 1 with no decisions at all. The compile key is taken of the
extracted rules (`statemachine.asl.json:42` says of the accepted ones), so a build
whose rules were edited keeps the key of the text. A draft may hide a compiled
build of its key from the lookup (`actions.py:122`); a cloud build without
witnesses is not stored, so the same policy compiles again. A blind save
un-archives a build (`registry/store.py:97`); `create_workspace` mints ids by
counting (`registry/store.py:35`) and a trace is one bulk save (`traces/store.py:100`),
both of which lose one of two concurrent calls.

Compilation. A dropped lower bound next to an upper bound is certified as
SEMANTICS_UNCHANGED, because its literal is in no cohort and the defaults
(`generator.py:25`) may all lie on one side of it: old rules `amount >= 20000`,
`amount <= 50000` and a bond, new rules without the first, a gate
`amount <= 60000`, and the outcome of amount 10000 has changed. So are obligations for
one action in another order, of which the last counts (`compiler.py`), when the
condition of the one that was overruled is in no cohort. A form that a
repair adds has the condition of its obligation and not the exceptions
(`patcher.py:183-195`); it is certified when the cohort, sorted as text and cut at 60
(`validator.py:132`, `139`), has lost every exempt case that is eligible, as with
`amount >= 60001`, or when those cases show another disagreement anyway. Enumerated
fields other than `category` have no default candidate (`generator.py:25-27`).
Moving a node that does not directly follow its target closes a
cycle (`patcher.py:212`), and the build raises. Two moves between neighbours can
do so too: with an advisor who must come before submission, and a review before
the advisor, submission, advisor, review becomes a cycle of three; and so can a
move across a node that the patch itself has put in between. A second deadline gate, or a
second prohibition on a field, gets the id of the first (`patcher.py:252`, `311`).
Dropping a threshold, deadline or prohibition is labelled SEMANTICS_UNCHANGED
(`normalizer.py:127-135`) and, unless its cohort misses the difference, fails the
no-op check, as does an unchanged
policy with a prohibition (`validator.py:177-180`). A conflict among the old rules
raises, because their compilation stands before the `try` (`pipeline.py:46`), where
a conflict among the new ones is answered; in the cloud it goes unnoticed when
there is no witness. A procedure with a NOT_IN gate does not pass the schema
(`pipeline.py:33`), also when the patcher put the gate there, and only locally. Of
two bounds on a field the patcher aligns gates with the last. The certificate of a
cloud build names other rules and tests than the local one
(`aws_handlers.py:99-110`), so every cloud build differs from its verification
there. `nominate_witness` numbers its findings anew (`actions.py:826`), so a second
nomination is refused whatever it shows, and compiles the old rules as they are
marked (`821`), not as if in force.

## 4. Proofs

TLAPS checks every proof for all values of the constants; there is no limit on
clients, requests, builds, calls or crashes. The assumptions are the named
ASSUMEs of the modules (distinct kinds of constants, bounds that are naturals)
and what a theorem states.

| Theorem | Statement | Inductive invariant |
|---|---|---|
| `RecordStoreProofs!StoreImplementsRegister` | `ImplementsRegister` | `RecordInv`, which says that a reading whose version is the stored one is the stored payload; the steps of `RecordStore` map to `Read`, `Miss`, `Replace`, `Refuse`, `Loosen` and `Finish` or stutter |
| `RecordStoreProofs!WinnersPersist`, `VersionsAdvance` | `[]NoLostUpdate`, `VersionNeverReused` | `RecordInv`: on a disciplined record a row's version bounds every version somebody has read, and a client whose version is still the stored one has the stored payload in its copy |
| `RecordStoreProofs!MintedOnce` | `[]CreateOnce` | `MintInv`: a record a creator has won stays present until a delete or bulk save |
| `RecordStoreProofs!LosersWereBeaten` | `[]LossMeansAnotherWon` | `LossInv`: whenever the current version differs from a client's, some other operation is done |
| `GateCallbackProofs!OutputsOnRecord` | `[]OutputsAreOnRecord` | at gates that record, `RecordedInv`: the output in flight is on record from `Apply` on, also in a re-fire; at gate 3, armed once, `KeptInv` with `ClaimInv`: who sent an answer under the one claim has it in its hands and alone can finalize, or has died |
| `GateCallbackProofs!OneClaimAtATime`, `TokenIsKept` | `[]ClaimExclusive`, `[]WaitingTokenIsStored` | `SlotInv`: a live claim is the slot's, is fresh, and its holder alone knows the current version; whoever knows the current version has the slot's token in its copy |
| `GateCallbackProofs!DecidedAtMostOnce`, `GateImplementsOnce` | `[]AtMostOnce`, the refinement | `OnceInv`, assuming one execution and neither crashes nor effect faults, and for the refinement that the gate records (`AlwaysRecords`): an undecided slot means nothing was applied, a DECIDING slot has a live holder |
| `ApprovalLedgerProofs!DecisionsKeepTheirRows`, `IdsFollowTheWrites` | `[]EveryDecisionHasItsRow`, `[]ReadBackInOrder` | `LedgerInv`: until a purge the numbers of a day have no gaps, and a call has found every number below its own taken, so the first free number is the highest |
| `ApprovalLedgerProofs!ContentionOnly` | `[]GivesUpUnderContention` | `ContentionInv`: every row is that of a call that returned, every lost number was minted by another call; it also holds beside a purge |
| `ActivationProofs!OnlyApprovedIsActive`, `ActivationsWereApproved`, `ApprovedBuildsHoldIt` | `[]ActiveWasApproved`, `[]ActivationFollowsApproval`, `[]ApprovedDocument` | what a request knows at each step (the approval it saw, the graph it compared, the plan it writes) stays true because evidence only grows and minted graphs do not change |
| `RecordStoreProofs!RefusedWritesVanish` | `[]LoserLeavesNoTrace` | `TraceInv`: a client whose write has not gone through is in no row, no blob and nobody's copy |
| `ActivationProofs!ApprovalsNameCandidates` | `[]ApprovedIsMinted` | minting comes first, and no version disappears: a request that is about to record an approval has its version |
| `ActivationProofs!ActivationsComplete` | `[]ActivationIsComplete` | `FlipInv`, assuming `OneActivator`: whatever the loop has not planned to change is already as it should be |
| `BuildFlowReviewProofs!AcceptedByDecision`, `ResolvedBeforeCompiled` | `[]ReviewedRulesAreAccepted`, `[]NoRuleSlipsThrough` | `GateInv`: every resolved review is among the stored decisions (`DecidedInv`), each of which is on the trail or owed by a request that is about to put it there (`TrailInv`); what a request has loaded is backed by decisions (`LoadedInv`); when it has counted none unresolved, every rule is decided or in its `left` (`CountedInv`) |
| `BuildFlowRegistryProofs!StoredAsValidated` | `[]ValidatedMeansValid` | `SoundInv`: not only the stored builds are sound but also what a request carries to store later, and an execution from PERSIST_BUILD on has valid rules |
| `BuildFlowRegistryProofs!ArchiveTouchesOneFlag` | `ArchiveOnlyHides` | `FreshInv`: an archival that is not `raced` has read no version above the stored one, and if it is the stored one, it holds the stored build up to the flag |
| `BuildFlowRegistryProofs!FlowImplementsCatalogue` | `ImplementsCatalogue` | the steps of `BuildFlow` map to steps of `BuildCatalogue` or stutter, by the shape of stages and extractions (`BuildFlowProofs!Shape`) and `SoundInv` |
| `ActivationProofs!MintedGraphsNeverChange` | `GraphsAreImmutable` | a planned record has the graph of the version it replaces |
| `ActivationProofs!PointerIsSingle` | `[]OneActiveWhenQuiet` | `FlipInv` and the property itself, assuming `OneActivator` and no crashes |
| `RecordStoreProofs!FreshWriters`, `StaleWritersLose` | a successful put on a disciplined record replaces what its writer read; `StaleWriterCannotWin` where only create-only and versioned puts occur | `RecordInv`; `LegacyFree`: then every record is disciplined and no version is -1 |
| `CompilationProofs!ValidatedRepairs`, `RefusalsAreRight`, `RepairIsReproduced` | `[]PassedMeansRepaired`, `[]RefusedMeansCovered`, `[]ReverifyBlamesNoRepair` | `Inv`: see below |
| `CompilationProofs!BothFronts` | `[]FrontsAgree` | `Inv` and what `run_build` makes of the same inputs (`FullRunFields`) |
| `CompilationProofs!WitnessesShowTheirKind` | every witness of a stored build is a case that shows just its kind and key of disagreement | `Inv` with `Genuine` |
| `CompilationProofs!SearchIsComplete` | everything that a candidate of the search shows has its witness, and READY means that the procedure agrees with the policy on every candidate | `Inv` |
| `CompilationProofs!PassedBuildsAreTested` | a validated build harms nobody in the cohort, is right on every boundary, has each prerequisite before its target and no required step after every submission, keeps its label, is linked to rules | `Inv` and `Retested`: the validation of a stored build is one of the repair and of all the witnesses it shows |
| `CompilationProofs!AdjacentSwapKeepsOrder`, `DistantSwapClosesCycle` | of `Swap`, for every procedure: see below | |
| `TypeCorrect` in each | `[]TypeOK` | itself; in `BuildFlowProofs` with `Shape`: a started execution has extracted, the token of a slot is that of an execution of its key, a request under way has what its next step works on |

Each proof follows the same plan: the invariant holds initially, one lemma
shows that a step keeps it, with one case per action, and a final temporal
step joins them.

Two theorems put a run that finds a violation into its place. `act_concurrent`
shows two overlapping activations that split the active pointer;
`PointerIsSingle` shows that without overlap and without a kill nothing else in
the system can split it. `store_stale_writer` shows a stale writer that wins with
the help of one blind save; `StaleWritersLose` shows that it takes one: in
collections that only see create-only and versioned puts, as those of callbacks
and approvals do while nothing is purged, the comment in `storage.py:296` is
right. (`FreshWriters` says the same of each record by itself.)

The invariant of `CompilationProofs`. `JobInv` says of every stage what the job
has been through: at PERSIST_BUILD, for example, that the rules are normal and
compile, that the witnesses are those of the search on them, the patch is the
one proposed for these witnesses, and the validation that of this patch.
`StoredInv` says of a stored build that its witnesses are real and those of a
search on its own inputs or more (`Genuine`), and that `run_build` on these
inputs, whatever stored the build, makes the same repair (`Reproduced`). It is
needed because the properties speak of later steps: a verification that blames no
repair has to know that the build came from the rules it carries, and a
nomination that is refused rightly has to know that its witnesses are all that the
search finds. The lemmas beneath are about lists: `Ascending` has each member of
a finite set of places once, `Sublist` keeps order and places, the first
findings of a longer search start with those of the shorter one
(`WitnessesAmong`), a tally without failures passes each suite. They are
proved for any rules, procedures, traces and caps. `classify_disagreement`,
`compile_rules`, `execute` and `propose` stay unexpanded, except that `propose`
changes nothing without a fault (`NothingToPropose`), that it does not depend on
where the localizer puts the blame, and how compiling may end: what is proved is how
their results are handed on, compared and stored, by two fronts.

The moves of a repair. `AdjacentMovesAreObserved` first claimed more: that every
node which directly followed its target comes before it. Two prerequisites
in a row refute that, and the instance now has them. What is behind it is proved for
`Swap` itself. If the edges go on in some order (`Forward`) in which the moved node
has the place right after its target, the rewired edges go on in that order with
the two exchanged, so nothing else is disturbed (`AdjacentSwapKeepsOrder`). If
some nodes lie on a way from the target to the moved node, the rewired edges go on
in no order at all (`DistantSwapClosesCycle`): each of them, and the two, has a
predecessor among them, and a least one would have none. After a first exchange
the next prerequisite may be such a distant one, which is the cycle of three.

The attempt to prove `FrontsAgree` as it first stood failed on READY and
NEEDS_REVIEW: when the old rules are in conflict with each other `run_build` raises,
and the state machine, which compiles them only to validate a patch, goes on.
The property now says so, and claims the status on both ends for all
other inputs.

Only model-checked. The two liveness properties of gates
(`NotBricked`, `DecidedGateResumes`): liveness under fairness and ENABLED are out of
the prover's reach. Four properties of `build`, which are about what recursion over
data computes. `WitnessesCoverDisagreements`, `LabelKeepsItsPromise` and
`CertifiedBreaksNothing` say that boundary cases and cohorts stand for all
cases, which depends on the numbers in the conditions, by induction over them,
and on caps that do not cut the search; `SearchIsComplete` and
`PassedBuildsAreTested` prove the same of the cases that are tried.
`AdjacentMovesAreObserved` is about the order that `_ordered_nodes` makes of a
rewired graph, by induction over the turns of its loop; the theorems about `Swap`
speak of the edges. Every other property of the passing runs is a theorem.
`MarkedActiveWasActivated` and `ModelRulesAreReviewed` are violated, with no
reasonable assumption that would make them true.

## 5. Plan

Done, in this order: storage, gate callbacks, evidence ids, patch decision and
activation with their proofs; the algorithms and both fronts of the pipeline;
gate 1, executions and registry with the refinement; the proofs about them and
those left over from the first part; the proofs about the pipeline, for which the
algorithms were written without RECURSIVE operators; the refinement of
`CompareAndSet`, what a passed validation stands for, and the moves of a repair.

Left, in the order of use:

1. `open_rule_reviews` and batches at gate 1 under the crashes of `GateCallback`
   (a request that dies half-way through its batch), as a composition of
   `BuildFlow` with that slot.
2. Recording of traces, workspaces and policy versions as instances of
   `RecordStore` with bulk saves and ids by counting.
3. Conditional edges in the witness search, should the code come to collect
   their literals: the properties that are restricted to `Branchless` then lose
   the restriction.

### Not modelled

- Parsing of policy texts and the model call (`services/extractor`): regular
  expressions and a service; their result is an input of `BuildFlow`.
- Authorization (`authz.py`): one pure table lookup per request, before any
  action; and the HTTP plumbing around it.
- Workspaces, policy versions, sources, listings, exports and the hard delete of
  a build: read-only, or writes that no other component waits for.
- Recording of traces, of which only the comparison with a build is modelled.
- Reviews of a refused extraction, which no execution reads.
- The console, benchmark, scripts, deployment: callers, or offline.
- The file backend of the storage, which is for a single process.
