------------------------------- MODULE BuildFlow -------------------------------
(***************************************************************************)
(* How a policy becomes a build: executions of the state machine           *)
(* (infra/statemachine.asl.json with the govern handlers of                *)
(* aws_handlers.py) and API requests (services/api/actions.py) over the    *)
(* registry of builds and the rule reviews of gate 1                       *)
(* (services/registry/store.py, services/governance/store.py).             *)
(*                                                                         *)
(* One procedure is compiled, so a compile key is the set of rules it was  *)
(* computed from: a set of EXTRACTED rules, whatever the reviewers make of *)
(* them later.  Extraction, compilation and validation are functions of    *)
(* their inputs here (the modules Rules to Compilation have their bodies). *)
(* The callback slot of gate 1 is the one of GateCallback without its      *)
(* faults, and its answer is sent and recorded in one step; gates 2 and 3  *)
(* are left to GateCallback and Activation, and only their answers show.   *)
(* A request may stop for good between any two of its steps.  A put that   *)
(* raises for another reason than its version is not modelled here.        *)
(***************************************************************************)
EXTENDS Naturals, FiniteSets

CONSTANTS
  Rules,        \* rules the extractor finds, as the machine reads them
  Edits,        \* values a reviewer may put in a rule's place
  Extractions,  \* what the extractor makes of the policy texts
  Verdict,      \* of a set of rules on the procedure: see Verdicts
  Execs,        \* executions of the state machine
  Requests,     \* API requests under way
  None,
  MaxRequests   \* bound of the model: requests

Values   == Rules \cup Edits
Keys     == {x.rules : x \in Extractions}
Ids      == {"BUILD", "DRAFT", "EXTRACT"} \X Keys
\* refused: the rules conflict or do not compile.  clean: no witness.  valid and
\* invalid: what the validator says of the patch.
Verdicts == {"refused", "clean", "valid", "invalid"}
\* A review is open while it is PENDING or ESCALATEd, which no reader tells
\* apart.  It is resolved by accepting the rule, by a value in its place, or by
\* a rejection; an EDIT that carries no value is to every reader a rejection.
Resolved == {"ACCEPT", "REJECT"} \cup Edits
Decision == Resolved \cup {"OPEN"}
Reviews  == Decision \cup {"ABSENT"}

ASSUME ValuesAssumption ==
  /\ Rules \cap Edits = {} /\ None \notin Requests
  /\ None \notin Values /\ None \notin Extractions /\ \A set \in SUBSET Values : set # None
ASSUME EditsAssumption ==
  Edits \cap {"ABSENT", "OPEN", "ACCEPT", "REJECT"} = {}
ASSUME ExtractionsAssumption ==
  Extractions \subseteq [rules   : (SUBSET Rules) \ {{}},
                         status  : {"EXTRACTED", "NEEDS_REVIEW", "CONFLICT"},
                         backend : {"parser", "model"}]
ASSUME VerdictAssumption == Verdict \in [SUBSET Values -> Verdicts]
ASSUME BoundAssumption == MaxRequests \in Nat

VARIABLES
  arn,        \* is STATEMACHINE_ARN set?
  builds,     \* builds.json
  version,    \* of each of its records, as of storage.py; 0 when there is none
  review,     \* rule_reviews.json, of the builds named by a compile key
  audit,      \* the rows of the audit trail that resolve a rule, which have no value
  decided,    \* the decisions stored so far that resolve a rule (history)
  slot,       \* callbacks.json, of gate 1
  stage,      \* where each execution is
  extraction, \* what it extracted
  rules,      \* the rules it compiles: $.review.accepted_rules
  copy,       \* the build as mark_build_status read it
  seen,       \* the version the put under way has read
  todo,       \* reviews its open_reviews task has still to open
  missed,     \* reviews that were not there when gate 1 counted for it (history)
  pc, task,   \* where each request is, and what it works on
  current,    \* the requests that know the version of the review they read
  raced,      \* archivals under whose record a save had read a stale version (history)
  asked

registry == <<builds, version, raced>>
reviews  == <<review, audit, decided>>
cloud    == <<stage, extraction, rules, copy, seen, todo, missed>>
request  == <<pc, task, asked>>
vars     == <<arn, registry, reviews, slot, cloud, request, current>>

Doc == [status   : {"DRAFT", "NEEDS_REVIEW", "COMPILED", "PATCH_VALIDATED",
                    "DRIFT_CONFIRMED", "PATCH_ACTIVE"},
        rules    : SUBSET Values,
        archived : BOOLEAN]
NoDoc == [status |-> "absent", rules |-> {}, archived |-> FALSE]
Document(status, values) == [status |-> status, rules |-> values, archived |-> FALSE]

Slot == [status : {"ABSENT", "WAITING", "DECIDING", "RESUMED"},
         token  : Execs \cup {None}, owner : Requests \cup {None}]
NoSlot == [status |-> "ABSENT", token |-> None, owner |-> None]

NoTask == [on |-> None, rule |-> None, given |-> None, left |-> {}, doc |-> NoDoc,
           ver |-> 0, accepted |-> {}, token |-> None, auto |-> FALSE, stored |-> FALSE]

Build(k)  == <<"BUILD", k>>
Stored(i) == builds[i] # NoDoc

Init ==
  /\ arn \in BOOLEAN
  /\ builds = [i \in Ids |-> NoDoc]
  /\ version = [i \in Ids |-> 0]
  /\ review = [k \in Keys |-> [r \in Rules |-> "ABSENT"]]
  /\ audit = {}
  /\ decided = {}
  /\ slot = [k \in Keys |-> NoSlot]
  /\ stage = [e \in Execs |-> "started"]
  /\ extraction = [e \in Execs |-> None]
  /\ rules = [e \in Execs |-> {}]
  /\ copy = [e \in Execs |-> NoDoc]
  /\ seen = [e \in Execs |-> 0]
  /\ todo = [e \in Execs |-> {}]
  /\ missed = [e \in Execs |-> {}]
  /\ pc = [q \in Requests |-> "idle"]
  /\ task = [q \in Requests |-> NoTask]
  /\ current = {}
  /\ raced = {}
  /\ asked = 0
-----------------------------------------------------------------------------
\* The tables.  A put of a build stores the version it has read, plus one.
Put(i, doc, ver) ==
  /\ builds' = [builds EXCEPT ![i] = doc]
  /\ version' = [version EXCEPT ![i] = ver + 1]

\* The archivals of a record that hold a version of it.
Archivals(i) == {q \in Requests : pc[q] \in {"archiving", "rearchiving"} /\ task[q].on = i}

\* save_build, after the read of put_item: nothing depends on the version, so two
\* saves that have read one version store it twice.
SaveBuild(i, doc, ver) ==
  /\ Put(i, doc, ver)
  /\ raced' = IF ver = version[i] THEN raced ELSE raced \cup Archivals(i)

\* One step of open_rule_reviews: create, or adopt what is there.
OpenReview(k, r) ==
  review' = [review EXCEPT ![k][r] = IF @ = "ABSENT" THEN "OPEN" ELSE @]

\* What is left of it: a review that is there will be adopted, and stays as it is.
Remaining(k, left) == {r \in left : review[k][r] = "ABSENT"}

\* review_rule's write.  Every write of a review is against its version, and makes
\* it stale for the requests that have read the review.
Stale(k, r) == {q \in Requests : task[q].on = Build(k) /\ task[q].rule = r}

StoreReview(k, r, decision) ==
  /\ review' = [review EXCEPT ![k][r] = decision]
  /\ decided' = decided \cup ({<<k, r>>} \X ({decision} \cap Resolved))
  /\ current' = current \ Stale(k, r)

\* The event of the row that review_rule then adds to the audit trail.
Event(decision) == IF decision \in Edits THEN "EDIT" ELSE decision

\* Mutant: what nobody decided counts as accepted.
MutantYield(r, decision) == IF decision \in {"ACCEPT", "OPEN"} THEN {r}
                            ELSE {decision} \cap Edits

\* The value accepted_rules takes from a review.
Yield(r, decision) == IF decision = "ACCEPT" THEN {r} ELSE {decision} \cap Edits

AcceptedRules(k) == UNION {Yield(r, review[k][r]) : r \in Rules}

\* Mutant: a review counts as unresolved only if nothing has been accepted.
MutantUnresolved(k) == {r \in Rules : review[k][r] = "OPEN" /\ AcceptedRules(k) = {}}

Unresolved(k) == {r \in Rules : review[k][r] = "OPEN"}

\* find_build_by_key: the first match, in the order of the backend.
Matches(k) == {i \in {Build(k), <<"DRAFT", k>>} : Stored(i)}

\* Mutant: a draft satisfies idempotent reuse.
MutantReusable(k, i) == i \in Matches(k)

\* The idempotent hit, unless the match is a draft.
Reusable(k, i) == i \in Matches(k) /\ i = Build(k)
-----------------------------------------------------------------------------
\* The state machine.  Stages have the names of its states; CLOSED stands for the
\* ends that leave no build behind or nothing more to do with it: CLOSED_REVIEW,
\* CLOSED_REJECTED, REVISION_REQUIRED, EXTRACTION_FAILURE, or failed.
Ended == {"READY", "READY_CACHED", "CLOSED"}
Goto(e, s) == stage' = [stage EXCEPT ![e] = s]
tables     == <<registry, reviews, slot>>

Key(e) == extraction[e].rules

\* Mutant: a choice leads to a state that does not exist.
MutantRoute(x) == CASE x.status = "NEEDS_REVIEW" -> "ARM_RULE_REVIEW"
                    [] x.status = "CONFLICT"     -> "CLOSED_CONFLICT"
                    [] x.status = "EXTRACTED"    -> "COMPILE_CONSTRAINTS"

\* RULE_REVIEW_REQUIRED?: a conflict is closed, and the rules of an extraction that
\* needs no review are the accepted ones (SET_ACCEPTED_DEFAULT).
Route(x) == CASE x.status = "NEEDS_REVIEW" -> "ARM_RULE_REVIEW"
              [] x.status = "CONFLICT"     -> "CLOSED"
              [] x.status = "EXTRACTED"    -> "COMPILE_CONSTRAINTS"

\* INGEST to RULE_REVIEW_REQUIRED?, of which CHECK_IDEMPOTENT alone reads a table.
\* An extraction with invalid rules fails before it.
Start(e) ==
  /\ arn
  /\ stage[e] = "started"
  /\ \/ /\ Goto(e, "CLOSED")
        /\ UNCHANGED <<extraction, rules>>
     \/ \E x \in Extractions :
          /\ extraction' = [extraction EXCEPT ![e] = x]
          /\ \/ /\ \E i \in Ids : Reusable(x.rules, i)
                /\ Goto(e, "READY_CACHED")
                /\ UNCHANGED rules
             \/ /\ Matches(x.rules) = {} \/ \E i \in Matches(x.rules) : ~Reusable(x.rules, i)
                /\ Goto(e, Route(x))
                /\ rules' = [rules EXCEPT ![e] = IF x.status = "EXTRACTED" THEN x.rules ELSE {}]
  /\ UNCHANGED <<arn, tables, copy, seen, todo, missed, request, current>>

\* WAIT_FOR_RULE_REVIEW: its task stores the token before it opens the reviews ...
Arm(e) ==
  /\ stage[e] = "ARM_RULE_REVIEW"
  /\ slot' = [slot EXCEPT ![Key(e)] = [NoSlot EXCEPT !.status = "WAITING", !.token = e]]
  /\ todo' = [todo EXCEPT ![e] = Remaining(Key(e), Key(e))]
  /\ Goto(e, "WAIT_FOR_RULE_REVIEW")
  /\ UNCHANGED <<arn, registry, reviews, extraction, rules, copy, seen, missed, request, current>>

\* ... one at a time, even when the execution has been answered meanwhile.
OpenForExecution(e) ==
  /\ \E r \in todo[e] :
       /\ OpenReview(Key(e), r)
       /\ todo' = [todo EXCEPT ![e] = Remaining(Key(e), @ \ {r})]
  /\ UNCHANGED <<arn, registry, audit, decided, slot, stage, extraction, rules, copy, seen, missed,
                 request, current>>

\* Mutant: every patch counts as valid.
MutantCompiledTo(e) ==
  CASE Verdict[rules[e]] = "clean" -> "READY"
    [] Verdict[rules[e]] \in {"valid", "invalid"} -> "PERSIST_BUILD"
    [] OTHER -> "CLOSED"

\* CHECK_CONFLICT, CHECK_WITNESSES and CHECK_VALIDATION.
CompiledTo(e) ==
  CASE Verdict[rules[e]] = "clean" -> "READY"
    [] Verdict[rules[e]] = "valid" -> "PERSIST_BUILD"
    [] OTHER -> "CLOSED"

\* COMPILE_CONSTRAINTS to CHECK_VALIDATION: no table is touched.
Compile(e) ==
  /\ stage[e] = "COMPILE_CONSTRAINTS"
  /\ Goto(e, CompiledTo(e))
  /\ UNCHANGED <<arn, tables, extraction, rules, copy, seen, todo, missed, request, current>>

\* PERSIST_BUILD and MARK_ACTIVE: the put of a save reads the version ...
ReadVersionFor(e) ==
  /\ \/ stage[e] = "PERSIST_BUILD" /\ Goto(e, "PERSISTING")
     \/ stage[e] = "MARK_READ" /\ Goto(e, "MARKING")
  /\ seen' = [seen EXCEPT ![e] = version[Build(Key(e))]]
  /\ UNCHANGED <<arn, tables, extraction, rules, copy, todo, missed, request, current>>

\* ... and writes.
Persist(e) ==
  /\ stage[e] = "PERSISTING"
  /\ SaveBuild(Build(Key(e)), Document("PATCH_VALIDATED", rules[e]), seen[e])
  /\ seen' = [seen EXCEPT ![e] = 0]
  /\ Goto(e, "WAIT_FOR_PATCH_APPROVAL")
  /\ UNCHANGED <<arn, reviews, slot, extraction, rules, copy, todo, missed, request, current>>

\* The answers of gates 2 and 3, and ACTIVATE, which answers its errors too.
Decide(e) ==
  /\ \/ /\ stage[e] = "WAIT_FOR_PATCH_APPROVAL"
        /\ \E s \in {"WAIT_FOR_ACTIVATION_APPROVAL", "CLOSED"} : Goto(e, s)
     \/ /\ stage[e] = "WAIT_FOR_ACTIVATION_APPROVAL"
        /\ \E s \in {"MARK_ACTIVE", "CLOSED"} : Goto(e, s)
  /\ UNCHANGED <<arn, tables, extraction, rules, copy, seen, todo, missed, request, current>>

\* MARK_ACTIVE: mark_build_status reads the build ...
MarkRead(e) ==
  /\ stage[e] = "MARK_ACTIVE"
  /\ copy' = [copy EXCEPT ![e] = builds[Build(Key(e))]]
  /\ Goto(e, "MARK_READ")
  /\ UNCHANGED <<arn, tables, extraction, rules, seen, todo, missed, request, current>>

\* ... and saves it with the new status.
MarkWrite(e) ==
  /\ stage[e] = "MARKING"
  /\ SaveBuild(Build(Key(e)), [copy[e] EXCEPT !.status = "PATCH_ACTIVE"], seen[e])
  /\ copy' = [copy EXCEPT ![e] = NoDoc]
  /\ seen' = [seen EXCEPT ![e] = 0]
  /\ Goto(e, "READY")
  /\ UNCHANGED <<arn, reviews, slot, extraction, rules, todo, missed, request, current>>

\* The task of a waiting state raises, a heartbeat is missed, or the execution is
\* stopped.  (Where no token is out, to fail is to take no further step.)
Fail(e) ==
  /\ stage[e] \in {"WAIT_FOR_RULE_REVIEW", "WAIT_FOR_PATCH_APPROVAL", "WAIT_FOR_ACTIVATION_APPROVAL"}
  /\ Goto(e, "CLOSED")
  /\ UNCHANGED <<arn, tables, extraction, rules, copy, seen, todo, missed, request, current>>

-----------------------------------------------------------------------------
\* The requests.
Begin(q, step, t) ==
  /\ pc[q] = "idle"
  /\ asked < MaxRequests
  /\ asked' = asked + 1
  /\ pc' = [pc EXCEPT ![q] = step]
  /\ task' = [task EXCEPT ![q] = t]

Proceed(q, step, t) ==
  /\ pc' = [pc EXCEPT ![q] = step]
  /\ task' = [task EXCEPT ![q] = t]
  /\ asked' = asked

Finish(q) == Proceed(q, "idle", NoTask)

On(i) == [NoTask EXCEPT !.on = i]
TaskKey(q) == task[q].on[2]

\* review_action: the build must be stored and the review open; the answer is
\* written against the version that was read, and a lost race is an error.
ReadReview(q) ==
  /\ \E k \in Keys, r \in Rules :
       /\ Stored(Build(k))
       /\ review[k][r] # "ABSENT"
       /\ Begin(q, "reviewing", [On(Build(k)) EXCEPT !.rule = r])
  /\ current' = current \cup {q}
  /\ UNCHANGED <<arn, tables, cloud>>

WriteReview(q) ==
  /\ pc[q] = "reviewing"
  /\ IF q \in current
       THEN \E d \in Decision :
              /\ StoreReview(TaskKey(q), task[q].rule, d)
              /\ IF d \in Resolved THEN Proceed(q, "noting", [task[q] EXCEPT !.given = d]) ELSE Finish(q)
       ELSE UNCHANGED <<review, decided, current>> /\ Finish(q)
  /\ UNCHANGED <<arn, registry, audit, slot, cloud>>

\* The row of the audit trail is a put of its own, after which review_rule returns
\* to the request, to the answer of the gate or to the automatic acceptance.
Noting == {"noting", "batch_noting", "accept_noting"}

Note(q) ==
  /\ pc[q] \in Noting
  /\ audit' = audit \cup {<<<<TaskKey(q), task[q].rule>>, Event(task[q].given)>>}
  /\ LET noted == [task[q] EXCEPT !.rule = None, !.given = None]
     IN  \/ pc[q] = "noting" /\ Finish(q)
         \/ pc[q] = "batch_noting" /\ Proceed(q, "deciding", noted)
         \/ pc[q] = "accept_noting" /\ Proceed(q, IF task[q].left = {} THEN "storing" ELSE "accepting", noted)
  /\ UNCHANGED <<arn, registry, review, decided, slot, cloud, current>>

\* resume_callback on gate 1: the claim ...
Claim(q) ==
  /\ \E k \in Keys :
       /\ slot[k].status = "WAITING"
       /\ slot' = [slot EXCEPT ![k].status = "DECIDING", ![k].owner = q]
       /\ Begin(q, "deciding", [On(Build(k)) EXCEPT !.left = Rules, !.token = slot[k].token])
  /\ UNCHANGED <<arn, registry, reviews, cloud, current>>

\* ... which is released if it is still this request's ...
Release(q, status) ==
  slot' = [slot EXCEPT ![TaskKey(q)] =
             IF @.owner = q THEN [@ EXCEPT !.status = status, !.owner = None] ELSE @]

\* ... then its decisions, rule by rule.  A review that is not open or changed
\* meanwhile ends the request half-way, and gives the gate back.
BatchRead(q) ==
  /\ pc[q] = "deciding"
  /\ \E r \in task[q].left :
       IF review[TaskKey(q)][r] = "ABSENT"
         THEN Release(q, "WAITING") /\ Finish(q) /\ UNCHANGED current
         ELSE /\ Proceed(q, "batch", [task[q] EXCEPT !.rule = r, !.left = @ \ {r}])
              /\ current' = current \cup {q}
              /\ UNCHANGED slot
  /\ UNCHANGED <<arn, registry, reviews, cloud>>

BatchWrite(q) ==
  /\ pc[q] = "batch"
  /\ IF q \in current
       THEN /\ \E d \in Decision :
                 /\ StoreReview(TaskKey(q), task[q].rule, d)
                 /\ IF d \in Resolved
                      THEN Proceed(q, "batch_noting", [task[q] EXCEPT !.given = d])
                      ELSE Proceed(q, "deciding", [task[q] EXCEPT !.rule = None])
            /\ UNCHANGED slot
       ELSE /\ Release(q, "WAITING")
            /\ Finish(q)
            /\ UNCHANGED <<review, decided, current>>
  /\ UNCHANGED <<arn, registry, audit, cloud>>

\* The output: accepted_rules first ...
LoadAccepted(q) ==
  /\ pc[q] = "deciding"
  /\ Proceed(q, "counting", [task[q] EXCEPT !.left = {}, !.accepted = AcceptedRules(TaskKey(q))])
  /\ UNCHANGED <<arn, tables, cloud, current>>

\* ... then unresolved_rule_reviews, which says whether they count ...
Count(q) ==
  /\ pc[q] = "counting"
  /\ LET k == TaskKey(q) IN
       Proceed(q, "answering",
               [task[q] EXCEPT !.accepted = IF Unresolved(k) = {} THEN @ ELSE {},
                               !.left = {r \in Rules : review[k][r] = "ABSENT"}])
  /\ UNCHANGED <<arn, tables, cloud, current>>

\* ... and goes out: the execution that still waits under the token goes on from
\* RULE_REVIEW_DECIDED?.
Answer(q) ==
  /\ pc[q] = "answering"
  /\ LET e == task[q].token
         accepted == task[q].accepted # {}
     IN  IF stage[e] = "WAIT_FOR_RULE_REVIEW"
           THEN /\ Goto(e, IF accepted THEN "COMPILE_CONSTRAINTS" ELSE "CLOSED")
                /\ rules' = [rules EXCEPT ![e] = task[q].accepted]
                /\ missed' = [missed EXCEPT ![e] = IF accepted THEN task[q].left ELSE {}]
           ELSE UNCHANGED <<stage, rules, missed>>
  /\ Release(q, "RESUMED")
  /\ Finish(q)
  /\ UNCHANGED <<arn, registry, reviews, extraction, copy, seen, todo, current>>

\* create_build: a refused extraction is stored under an id of its own, that
\* no lookup finds (nor anything here its reviews) ...
CreateRefused(q) ==
  /\ \E x \in Extractions :
       /\ x.status # "EXTRACTED"
       /\ Begin(q, "storing", [On(<<"EXTRACT", x.rules>>) EXCEPT
                                 !.doc = Document("NEEDS_REVIEW", x.rules)])
  /\ UNCHANGED <<arn, tables, cloud, current>>

\* ... a deferred one as a draft ...
CreateDraft(q) ==
  /\ \E k \in Keys : Begin(q, "storing", [On(<<"DRAFT", k>>) EXCEPT !.doc = Document("DRAFT", k)])
  /\ UNCHANGED <<arn, tables, cloud, current>>

\* run_build.
Compiled(k) ==
  CASE Verdict[k] = "refused" -> Document("NEEDS_REVIEW", {})
    [] Verdict[k] = "clean"   -> Document("COMPILED", k)
    [] Verdict[k] = "valid"   -> Document("PATCH_VALIDATED", k)
    [] Verdict[k] = "invalid" -> Document("DRIFT_CONFIRMED", k)

\* ... and everything else is compiled, unless the registry has it and the
\* request does not force.  The reviews come before the build is stored.
Create(q) ==
  /\ \E k \in Keys, auto, force \in BOOLEAN :
       /\ force \/ \A i \in Ids : ~Reusable(k, i)
       /\ Begin(q, IF Verdict[k] = "refused" THEN "storing" ELSE "opening",
                [On(Build(k)) EXCEPT !.doc = Compiled(k), !.auto = auto,
                                     !.left = Compiled(k).rules])
  /\ UNCHANGED <<arn, tables, cloud, current>>

\* start_execution without a state machine compiles the rules of any stored
\* build, and stores it before the reviews and after them.
Execute(q) ==
  /\ ~arn
  /\ \E i \in Ids :
       /\ Stored(i)
       /\ builds[i].rules \in Keys
       /\ LET k == builds[i].rules IN
            Begin(q, "saving", [On(Build(k)) EXCEPT !.doc = Compiled(k), !.auto = TRUE])
  /\ UNCHANGED <<arn, tables, cloud, current>>

\* The put of a save reads the version of the record before it writes.
ReadVersion(q) ==
  /\ pc[q] \in {"saving", "storing"}
  /\ LET known == [task[q] EXCEPT !.ver = version[task[q].on]]
     IN  \/ pc[q] = "saving" /\ Proceed(q, "saving_put", known)
         \/ pc[q] = "storing" /\ Proceed(q, "storing_put", known)
  /\ UNCHANGED <<arn, tables, cloud, current>>

StoreFirst(q) ==
  /\ pc[q] = "saving_put"
  /\ SaveBuild(task[q].on, task[q].doc, task[q].ver)
  /\ Proceed(q, IF task[q].doc.rules = {} THEN "storing" ELSE "opening",
             [task[q] EXCEPT !.left = task[q].doc.rules, !.ver = 0, !.stored = TRUE])
  /\ UNCHANGED <<arn, reviews, slot, cloud, current>>

OpenNext(q) ==
  /\ pc[q] = "opening"
  /\ \E r \in task[q].left :
       /\ OpenReview(TaskKey(q), r)
       /\ LET left == Remaining(TaskKey(q), task[q].left \ {r}) IN
            IF left # {} THEN Proceed(q, "opening", [task[q] EXCEPT !.left = left])
            ELSE IF task[q].auto THEN Proceed(q, "accepting", [task[q] EXCEPT !.left = task[q].doc.rules])
            ELSE Proceed(q, "storing", [task[q] EXCEPT !.left = {}])
  /\ UNCHANGED <<arn, registry, audit, decided, slot, cloud, current>>

\* The automatic acceptance, whatever the review says by now ...
AcceptRead(q) ==
  /\ pc[q] = "accepting"
  /\ \E r \in task[q].left :
       Proceed(q, "accept", [task[q] EXCEPT !.rule = r, !.left = @ \ {r}])
  /\ current' = current \cup {q}
  /\ UNCHANGED <<arn, tables, cloud>>

\* ... ends, unnoticed, at the first review that changes meanwhile.
AcceptWrite(q) ==
  /\ pc[q] = "accept"
  /\ IF q \in current
       THEN /\ StoreReview(TaskKey(q), task[q].rule, "ACCEPT")
            /\ Proceed(q, "accept_noting", [task[q] EXCEPT !.given = "ACCEPT"])
       ELSE /\ IF task[q].stored THEN Finish(q)
               ELSE Proceed(q, "storing", [task[q] EXCEPT !.rule = None, !.left = {}])
            /\ UNCHANGED <<review, decided, current>>
  /\ UNCHANGED <<arn, registry, audit, slot, cloud>>

\* _store.
Store(q) ==
  /\ pc[q] = "storing_put"
  /\ SaveBuild(task[q].on, task[q].doc, task[q].ver)
  /\ Finish(q)
  /\ UNCHANGED <<arn, reviews, slot, cloud, current>>

\* set_build_archived, either way: the record and its version are read at once ...
Archive(q) ==
  /\ \E i \in Ids, flag \in BOOLEAN :
       /\ Stored(i)
       /\ Begin(q, "archiving",
                [On(i) EXCEPT !.doc = [builds[i] EXCEPT !.archived = flag], !.ver = version[i]])
  /\ raced' = raced \ {q}
  /\ UNCHANGED <<arn, builds, version, reviews, slot, cloud, current>>

\* Mutant: the record is written whatever its version is by now.
MutantArchiveWrite(q) ==
  /\ pc[q] = "archiving"
  /\ SaveBuild(task[q].on, task[q].doc, task[q].ver)
  /\ Finish(q)
  /\ UNCHANGED <<arn, reviews, slot, cloud, current>>

\* ... and put while the record has that version, once more when it has not ...
ArchiveWrite(q) ==
  /\ pc[q] = "archiving"
  /\ LET i == task[q].on IN
       IF task[q].ver = version[i]
         THEN Put(i, task[q].doc, task[q].ver) /\ Finish(q)
         ELSE /\ Proceed(q, "rearchiving",
                         [task[q] EXCEPT !.doc = [builds[i] EXCEPT !.archived = task[q].doc.archived],
                                         !.ver = version[i]])
              /\ UNCHANGED <<builds, version>>
  /\ raced' = raced \ {q}
  /\ UNCHANGED <<arn, reviews, slot, cloud, current>>

\* ... where a second loss is an error.
ArchiveAgain(q) ==
  /\ pc[q] = "rearchiving"
  /\ IF task[q].ver = version[task[q].on] THEN Put(task[q].on, task[q].doc, task[q].ver)
     ELSE UNCHANGED <<builds, version>>
  /\ Finish(q)
  /\ raced' = raced \ {q}
  /\ UNCHANGED <<arn, reviews, slot, cloud, current>>

Step(q) ==
  \/ ReadReview(q) \/ WriteReview(q) \/ Note(q)
  \/ Claim(q) \/ BatchRead(q) \/ BatchWrite(q) \/ LoadAccepted(q) \/ Count(q) \/ Answer(q)
  \/ CreateRefused(q) \/ CreateDraft(q) \/ Create(q) \/ Execute(q) \/ ReadVersion(q) \/ StoreFirst(q)
  \/ OpenNext(q) \/ AcceptRead(q) \/ AcceptWrite(q) \/ Store(q)
  \/ Archive(q) \/ ArchiveWrite(q) \/ ArchiveAgain(q)

Run(e) ==
  \/ Start(e) \/ Arm(e) \/ OpenForExecution(e) \/ Compile(e) \/ ReadVersionFor(e)
  \/ Persist(e) \/ Decide(e) \/ MarkRead(e) \/ MarkWrite(e) \/ Fail(e)

Next == (\E e \in Execs : Run(e)) \/ (\E q \in Requests : Step(q))

Spec == Init /\ [][Next]_vars
-----------------------------------------------------------------------------
Task == [on : Ids \cup {None}, rule : Rules \cup {None}, given : Resolved \cup {None},
         left : SUBSET Rules, doc : Doc \cup {NoDoc}, ver : Nat, accepted : SUBSET Values,
         token : Execs \cup {None}, auto : BOOLEAN, stored : BOOLEAN]

Waits == {"WAIT_FOR_PATCH_APPROVAL", "WAIT_FOR_ACTIVATION_APPROVAL", "MARK_ACTIVE", "MARK_READ", "MARKING"}

\* Type invariant.
TypeOK ==
  /\ arn \in BOOLEAN
  /\ builds \in [Ids -> Doc \cup {NoDoc}]
  /\ version \in [Ids -> Nat]
  /\ review \in [Keys -> [Rules -> Reviews]]
  /\ audit \subseteq (Keys \X Rules) \X {"ACCEPT", "EDIT", "REJECT"}
  /\ decided \subseteq (Keys \X Rules) \X Resolved
  /\ slot \in [Keys -> Slot]
  /\ stage \in [Execs -> Ended \cup Waits \cup
                  {"started", "ARM_RULE_REVIEW", "WAIT_FOR_RULE_REVIEW",
                   "COMPILE_CONSTRAINTS", "PERSIST_BUILD", "PERSISTING"}]
  /\ extraction \in [Execs -> Extractions \cup {None}]
  /\ rules \in [Execs -> SUBSET Values]
  /\ copy \in [Execs -> Doc \cup {NoDoc}]
  /\ seen \in [Execs -> Nat]
  /\ todo \in [Execs -> SUBSET Rules]
  /\ missed \in [Execs -> SUBSET Rules]
  /\ pc \in [Requests -> {"idle", "reviewing", "noting", "deciding", "batch", "batch_noting", "counting",
                          "answering", "opening", "accepting", "accept", "accept_noting", "saving",
                          "saving_put", "storing", "storing_put", "archiving", "rearchiving"}]
  /\ task \in [Requests -> Task]
  /\ current \subseteq Requests
  /\ raced \subseteq Requests
  /\ asked \in 0..MaxRequests

\* The execution came through gate 1: its rules are those of an answer.
Reviewed(e) == extraction[e] # None /\ extraction[e].status = "NEEDS_REVIEW" /\ rules[e] # {}

\* The decision is on the audit trail, or the request that stored it is still to
\* put it there, if nothing stops it first.
Owes(q, k, r, d) ==
  /\ pc[q] \in Noting
  /\ task[q].on = Build(k) /\ task[q].rule = r /\ task[q].given = d

Noted(k, r, d) == <<<<k, r>>, Event(d)>> \in audit \/ \E q \in Requests : Owes(q, k, r, d)

\* "Gate 1 (rule review): ACCEPT | EDIT | REJECT | ESCALATE": whatever requests,
\* openers and other executions of the same key did to the reviews and to the
\* slot meanwhile, every rule an execution takes from gate 1 is one that a stored
\* decision accepts, or puts in a rule's place, for its key.  The trail has that
\* decision too, unless its request has stopped, or not come yet, between the two.
ReviewedRulesAreAccepted ==
  \A e \in Execs : Reviewed(e) =>
    \A v \in rules[e] : \E r \in Rules, d \in Resolved :
      <<<<Key(e), r>>, d>> \in decided /\ v \in Yield(r, d) /\ Noted(Key(e), r, d)

\* No extracted rule is compiled, or left out, before a decision has resolved it.
\* The hole: a rule whose review was not there yet when the answer counted what
\* is unresolved, for the token is stored before the first review is.
NoRuleSlipsThrough ==
  \A e \in Execs : Reviewed(e) =>
    \A r \in Key(e) \ missed[e] : \E d \in Resolved : <<<<Key(e), r>>, d>> \in decided

\* A build of an execution is stored as validated only with rules that the
\* validator certified, whoever stores it, marks it or archives it.
ValidatedMeansValid ==
  \A k \in Keys : builds[Build(k)].status = "PATCH_VALIDATED" =>
    Verdict[builds[Build(k)].rules] = "valid"

\* "Optimistic: only succeeds if the record is still the version we read, so an
\* archive cannot clobber a concurrent status change" (set_build_archived).  So
\* it is, but for two saves that stored one version while it was under way.
ArchiveOnlyHides ==
  [][\A q \in Requests : pc[q] \in {"archiving", "rearchiving"} /\ pc'[q] # pc[q] /\ q \notin raced =>
       \A i \in Ids :
         [builds'[i] EXCEPT !.archived = FALSE] = [builds[i] EXCEPT !.archived = FALSE]]_vars

\* model_fallback.py:95: "Model candidates always enter Gate-1 review."  What an
\* execution compiles of the model's rules has been decided by somebody.
ModelRulesAreReviewed ==
  \A e \in Execs :
    stage[e] = "COMPILE_CONSTRAINTS" /\ extraction[e].backend = "model" =>
      \A r \in Key(e) : \E d \in Resolved : <<<<Key(e), r>>, d>> \in decided

\* The registry and the executions implement BuildCatalogue.
Catalogue ==
  [k \in Keys |-> IF Stored(Build(k)) THEN builds[Build(k)].rules ELSE None]

Outcome(e) ==
  LET Came(result) == [result |-> result, key |-> Key(e)]
  IN  CASE stage[e] = "READY_CACHED" -> Came("reused")
        [] stage[e] \in Waits -> Came("submitted")
        [] stage[e] = "READY" /\ Verdict[rules[e]] = "valid" -> Came("active")
        [] stage[e] = "CLOSED" -> [result |-> "closed", key |-> None]
        [] stage[e] = "READY" /\ Verdict[rules[e]] # "valid" -> [result |-> "closed", key |-> None]
        [] OTHER -> [result |-> "open", key |-> None]

Abstract == INSTANCE BuildCatalogue WITH
  Keys <- Keys, RuleSets <- SUBSET Values, Execs <- Execs, None <- None,
  catalogue <- Catalogue, outcome <- [e \in Execs |-> Outcome(e)]

ImplementsCatalogue == Abstract!Spec
=============================================================================
