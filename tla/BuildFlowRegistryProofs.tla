------------------------ MODULE BuildFlowRegistryProofs ------------------------
(***************************************************************************)
(* What the registry of builds keeps, for any rules, edits, policy texts,  *)
(* verdicts, executions and requests: a build an execution has validated   *)
(* is valid, an archive touches one flag, and the executions find what     *)
(* BuildCatalogue promises them.                                           *)
(***************************************************************************)
EXTENDS BuildFlowProofs

USE DEF registry, reviews

\* A document that says it has been validated has been.
Sound(d) == d.status = "PATCH_VALIDATED" => Verdict[d.rules] = "valid"

\* An execution that has, or is to have, a build of its own.
Submitting == Waits \cup {"PERSIST_BUILD", "PERSISTING"}

\* Whatever is stored, or about to be, is sound; and an execution goes on to
\* PERSIST_BUILD and beyond with valid rules only.
SoundInv ==
  /\ \A i \in Ids : Sound(builds[i])
  /\ \A q \in Requests : Sound(task[q].doc)
  /\ \A e \in Execs : stage[e] \in Submitting => Verdict[rules[e]] = "valid"

\* Two documents that differ in the archived flag at most.
Alike(c, d) == [c EXCEPT !.archived = FALSE] = [d EXCEPT !.archived = FALSE]

\* Under an archival that has not been raced the version only grows, and while
\* it is the one that was read the record is too.
Fresh(q) ==
  /\ task[q].ver <= version[task[q].on]
  /\ task[q].ver = version[task[q].on] => Alike(task[q].doc, builds[task[q].on])

FreshInv == \A q \in Requests : pc[q] \in AtArchive /\ q \notin raced => Fresh(q)
-----------------------------------------------------------------------------
LEMMA SoundDocuments ==
  /\ Sound(NoDoc)
  /\ \A k \in Keys : Sound(Compiled(k))
  /\ \A v \in SUBSET Values : Sound(Document("NEEDS_REVIEW", v)) /\ Sound(Document("DRAFT", v))
  /\ \A d \in Doc, b \in BOOLEAN : Sound(d) => Sound([d EXCEPT !.archived = b])
  /\ \A d \in Doc \cup {NoDoc} : Sound([d EXCEPT !.status = "PATCH_ACTIVE"])
<1>1. Sound(NoDoc)
  BY DEF Sound, NoDoc
<1>2. ASSUME NEW k \in Keys PROVE Sound(Compiled(k))
  <2>1. CASE Verdict[k] = "valid"
    BY <2>1 DEF Sound, Compiled, Document
  <2>2. CASE Verdict[k] \in {"refused", "clean", "invalid"}
    BY <2>2 DEF Sound, Compiled, Document
  <2>3. QED
    BY <2>1, <2>2, KeysAreRules, VerdictAssumption DEF Verdicts
<1>3. \A v \in SUBSET Values : Sound(Document("NEEDS_REVIEW", v)) /\ Sound(Document("DRAFT", v))
  BY DEF Sound, Document
<1>4. ASSUME NEW d \in Doc, NEW b \in BOOLEAN, Sound(d) PROVE Sound([d EXCEPT !.archived = b])
  BY <1>4 DEF Sound, Doc
<1>5. \A d \in Doc \cup {NoDoc} : Sound([d EXCEPT !.status = "PATCH_ACTIVE"])
  BY DEF Sound, Doc, NoDoc
<1>6. QED
  BY <1>1, <1>2, <1>3, <1>4, <1>5

\* What a step saves: a sound document under one id, or nothing.  It then puts
\* the version it has read plus one, which is the next version, or whoever was
\* archiving the record is raced.
LEMMA SaveStep ==
  ASSUME TypeOK, Shape, SoundInv, [Next]_vars
  PROVE  \/ UNCHANGED <<builds, version>>
         \/ \E i \in Ids, d \in Doc, v \in Nat :
              Put(i, d, v) /\ Sound(d) /\ (v = version[i] \/ Archivals(i) \subseteq raced')
<1> DEFINE Put1(i, d, v) == Put(i, d, v) /\ Sound(d) /\ (v = version[i] \/ Archivals(i) \subseteq raced')
           Goal == UNCHANGED <<builds, version>> \/ \E i \in Ids, d \in Doc, v \in Nat : Put1(i, d, v)
<1>s. ASSUME NEW i \in Ids, NEW d \in Doc, NEW v \in Nat, Sound(d), SaveBuild(i, d, v) PROVE Goal
  BY <1>s DEF SaveBuild
<1>1. ASSUME NEW e \in Execs, Run(e) PROVE Goal
  <2>1. stage[e] \in {"PERSISTING", "MARKING"} => Build(Key(e)) \in Ids
    BY ExtractedKey, BuildIds DEF Shape, ExecInv, Key, TypeOK
  <2>a. seen[e] \in Nat
    BY DEF TypeOK
  <2>2. CASE Persist(e)
    <3>1. Document("PATCH_VALIDATED", rules[e]) \in Doc /\ Sound(Document("PATCH_VALIDATED", rules[e]))
      BY <2>2, Documents DEF Persist, SoundInv, Submitting, Sound, Document, TypeOK
    <3>2. QED
      BY <1>s, <2>1, <2>2, <2>a, <3>1 DEF Persist
  <2>3. CASE MarkWrite(e)
    <3>1. copy[e] \in Doc \cup {NoDoc}
      BY DEF TypeOK
    <3>2. QED
      BY <1>s, <2>1, <2>3, <2>a, <3>1, Documents, SoundDocuments DEF MarkWrite
  <2>4. CASE ~Persist(e) /\ ~MarkWrite(e)
    BY <1>1, <2>4 DEF Run, Start, Arm, OpenForExecution, Compile, ReadVersionFor, Decide, MarkRead, Fail, tables
  <2>5. QED
    BY <2>2, <2>3, <2>4
<1>2. ASSUME NEW q \in Requests, Step(q) PROVE Goal
  <2>1. pc[q] \in WithDoc => task[q].on \in Ids /\ task[q].doc \in Doc /\ Sound(task[q].doc)
    BY DEF Shape, TaskInv, Ready, SoundInv, WithDoc, Compiling, AtArchive
  <2>a. task[q].ver \in Nat
    BY DEF TypeOK, Task
  <2>2. CASE StoreFirst(q) \/ Store(q)
    BY <1>s, <2>1, <2>2, <2>a DEF StoreFirst, Store, WithDoc, Compiling
  <2>6. CASE ArchiveWrite(q) \/ ArchiveAgain(q)
    <3>1. \/ UNCHANGED <<builds, version>>
          \/ Put(task[q].on, task[q].doc, task[q].ver) /\ task[q].ver = version[task[q].on]
      BY <2>6 DEF ArchiveWrite, ArchiveAgain
    <3>2. pc[q] \in WithDoc
      BY <2>6 DEF ArchiveWrite, ArchiveAgain, WithDoc, AtArchive
    <3>3. QED
      BY <2>1, <2>a, <3>1, <3>2
  <2>3. CASE ~(StoreFirst(q) \/ Store(q) \/ ArchiveWrite(q) \/ ArchiveAgain(q))
    BY <1>2, <2>3
    DEF Step, ReadReview, WriteReview, Note, Claim, BatchRead, BatchWrite, LoadAccepted, Count, Answer, CreateRefused,
        CreateDraft, Create, Execute, ReadVersion, OpenNext, AcceptRead, AcceptWrite, Archive, tables
  <2>4. QED
    BY <2>2, <2>3, <2>6
<1>3. CASE UNCHANGED vars
  BY <1>3 DEF vars
<1>4. QED
  BY <1>1, <1>2, <1>3 DEF Next

\* What a request works on is sound, whatever it goes on to.
LEMMA SoundTask ==
  ASSUME TypeOK, Shape, SoundInv, NEW q \in Requests, Step(q) PROVE Sound(task'[q].doc)
<1>a. task[q] \in Task /\ Sound(task[q].doc)
  BY DEF TypeOK, SoundInv
<1>1. ASSUME Finish(q) PROVE Sound(task'[q].doc)
  <2>1. task'[q] = NoTask
    BY <1>1 DEF Finish, Proceed, TypeOK
  <2>2. QED
    BY <2>1, SoundDocuments DEF NoTask
<1>2. ASSUME NEW s, NEW t, t.doc = task[q].doc, Proceed(q, s, t) PROVE Sound(task'[q].doc)
  BY <1>2, <1>a DEF Proceed, TypeOK
<1>3. ASSUME NEW s, NEW t, Sound(t.doc), Begin(q, s, t) PROVE Sound(task'[q].doc)
  BY <1>3, BegunTask
<1>4. CASE ReadReview(q)
  <2>1. PICK k \in Keys, r \in Rules : Begin(q, "reviewing", [On(Build(k)) EXCEPT !.rule = r])
    BY <1>4 DEF ReadReview
  <2>2. [On(Build(k)) EXCEPT !.rule = r].doc = NoDoc
    BY DEF On, NoTask
  <2>3. QED
    BY <1>3, <2>1, <2>2, SoundDocuments
<1>5. CASE Claim(q)
  <2>1. PICK k \in Keys : Begin(q, "deciding", [On(Build(k)) EXCEPT !.left = Rules, !.token = slot[k].token])
    BY <1>5 DEF Claim
  <2>2. [On(Build(k)) EXCEPT !.left = Rules, !.token = slot[k].token].doc = NoDoc
    BY DEF On, NoTask
  <2>3. QED
    BY <1>3, <2>1, <2>2, SoundDocuments
<1>6. CASE BatchRead(q)
  <2>1. \A r : [task[q] EXCEPT !.rule = r, !.left = @ \ {r}].doc = task[q].doc
    BY <1>a DEF Task
  <2>2. QED
    BY <1>1, <1>2, <1>6, <2>1 DEF BatchRead
<1>7. CASE BatchWrite(q)
  <2>1. /\ [task[q] EXCEPT !.rule = None].doc = task[q].doc
        /\ \A d : [task[q] EXCEPT !.given = d].doc = task[q].doc
    BY <1>a DEF Task
  <2>2. QED
    BY <1>1, <1>2, <1>7, <2>1 DEF BatchWrite
<1>8. CASE LoadAccepted(q)
  <2>1. [task[q] EXCEPT !.left = {}, !.accepted = AcceptedRules(TaskKey(q))].doc = task[q].doc
    BY <1>a DEF Task
  <2>2. QED
    BY <1>2, <1>8, <2>1 DEF LoadAccepted
<1>9. CASE CreateRefused(q)
  <2>1. PICK x \in Extractions :
          Begin(q, "storing", [On(<<"EXTRACT", x.rules>>) EXCEPT !.doc = Document("NEEDS_REVIEW", x.rules)])
    BY <1>9 DEF CreateRefused
  <2>2. [On(<<"EXTRACT", x.rules>>) EXCEPT !.doc = Document("NEEDS_REVIEW", x.rules)].doc = Document("NEEDS_REVIEW", x.rules)
    BY DEF On, NoTask
  <2>3. QED
    BY <1>3, <2>1, <2>2, SoundDocuments, ExtractedKey, KeysAreRules
<1>10. CASE CreateDraft(q)
  <2>1. PICK k \in Keys : Begin(q, "storing", [On(<<"DRAFT", k>>) EXCEPT !.doc = Document("DRAFT", k)])
    BY <1>10 DEF CreateDraft
  <2>2. [On(<<"DRAFT", k>>) EXCEPT !.doc = Document("DRAFT", k)].doc = Document("DRAFT", k)
    BY DEF On, NoTask
  <2>3. QED
    BY <1>3, <2>1, <2>2, SoundDocuments, KeysAreRules
<1>11. CASE Create(q)
  <2>1. PICK k \in Keys, s \in {"storing", "opening"}, a \in BOOLEAN :
          Begin(q, s, [On(Build(k)) EXCEPT !.doc = Compiled(k), !.auto = a, !.left = Compiled(k).rules])
    BY <1>11 DEF Create
  <2>2. [On(Build(k)) EXCEPT !.doc = Compiled(k), !.auto = a, !.left = Compiled(k).rules].doc = Compiled(k)
    BY DEF On, NoTask
  <2>3. QED
    BY <1>3, <2>1, <2>2, SoundDocuments
<1>12. CASE Execute(q)
  <2>1. PICK k \in Keys : Begin(q, "saving", [On(Build(k)) EXCEPT !.doc = Compiled(k), !.auto = TRUE])
    BY <1>12 DEF Execute
  <2>2. [On(Build(k)) EXCEPT !.doc = Compiled(k), !.auto = TRUE].doc = Compiled(k)
    BY DEF On, NoTask
  <2>3. QED
    BY <1>3, <2>1, <2>2, SoundDocuments
<1>13. CASE StoreFirst(q)
  <2>1. [task[q] EXCEPT !.left = task[q].doc.rules, !.ver = 0, !.stored = TRUE].doc = task[q].doc
    BY <1>a DEF Task
  <2>2. QED
    BY <1>2, <1>13, <2>1 DEF StoreFirst
<1>14. CASE OpenNext(q)
  <2>1. \A l : [task[q] EXCEPT !.left = l].doc = task[q].doc
    BY <1>a DEF Task
  <2>2. PICK s, l : Proceed(q, s, [task[q] EXCEPT !.left = l])
    BY <1>14 DEF OpenNext
  <2>3. QED
    BY <1>2, <2>1, <2>2
<1>15. CASE AcceptRead(q)
  <2>1. \A r : [task[q] EXCEPT !.rule = r, !.left = @ \ {r}].doc = task[q].doc
    BY <1>a DEF Task
  <2>2. QED
    BY <1>2, <1>15, <2>1 DEF AcceptRead
<1>16. CASE AcceptWrite(q)
  <2>1. /\ [task[q] EXCEPT !.given = "ACCEPT"].doc = task[q].doc
        /\ [task[q] EXCEPT !.rule = None, !.left = {}].doc = task[q].doc
    BY <1>a DEF Task
  <2>2. QED
    BY <1>1, <1>2, <1>16, <2>1 DEF AcceptWrite
<1>17. CASE Archive(q)
  <2>1. PICK i \in Ids, flag \in BOOLEAN :
          Stored(i) /\ Begin(q, "archiving",
                             [On(i) EXCEPT !.doc = [builds[i] EXCEPT !.archived = flag], !.ver = version[i]])
    BY <1>17 DEF Archive
  <2>2. Sound([builds[i] EXCEPT !.archived = flag])
    BY <2>1, SoundDocuments DEF Stored, TypeOK, SoundInv
  <2>3. [On(i) EXCEPT !.doc = [builds[i] EXCEPT !.archived = flag], !.ver = version[i]].doc
          = [builds[i] EXCEPT !.archived = flag]
    BY DEF On, NoTask
  <2>4. QED
    BY <1>3, <2>1, <2>2, <2>3
<1>18. CASE ArchiveWrite(q)
  <2>1. CASE task[q].ver = version[task[q].on]
    BY <1>1, <1>18, <2>1 DEF ArchiveWrite
  <2>2. CASE task[q].ver # version[task[q].on]
    <3>1. task[q].on \in Ids /\ task[q].doc.archived \in BOOLEAN /\ builds[task[q].on] \in Doc
      BY <1>18 DEF ArchiveWrite, Shape, TaskInv, Ready, WithDoc, AtArchive, Doc
    <3>2. PICK d : /\ d = [builds[task[q].on] EXCEPT !.archived = task[q].doc.archived]
                   /\ Proceed(q, "rearchiving", [task[q] EXCEPT !.doc = d, !.ver = version[task[q].on]])
      BY <1>18, <2>2 DEF ArchiveWrite
    <3>3. Sound(d)
      BY <3>1, <3>2, SoundDocuments DEF SoundInv
    <3>4. task'[q].doc = d
      BY <1>a, <3>2 DEF Proceed, TypeOK, Task
    <3>5. QED
      BY <3>3, <3>4
  <2>3. QED
    BY <2>1, <2>2
<1>19. CASE Answer(q) \/ Store(q) \/ ArchiveAgain(q)
  BY <1>1, <1>19 DEF Answer, Store, ArchiveAgain
<1>21. CASE WriteReview(q)
  <2>1. \A d : [task[q] EXCEPT !.given = d].doc = task[q].doc
    BY <1>a DEF Task
  <2>2. QED
    BY <1>1, <1>2, <1>21, <2>1 DEF WriteReview
<1>22. CASE Note(q)
  <2>1. [task[q] EXCEPT !.rule = None, !.given = None].doc = task[q].doc
    BY <1>a DEF Task
  <2>2. QED
    BY <1>1, <1>2, <1>22, <2>1 DEF Note
<1>23. CASE Count(q)
  <2>1. \A a, l : [task[q] EXCEPT !.accepted = a, !.left = l].doc = task[q].doc
    BY <1>a DEF Task
  <2>2. PICK a, l : Proceed(q, "answering", [task[q] EXCEPT !.accepted = a, !.left = l])
    BY <1>23 DEF Count
  <2>3. QED
    BY <1>2, <2>1, <2>2
<1>24. CASE ReadVersion(q)
  <2>1. [task[q] EXCEPT !.ver = version[task[q].on]].doc = task[q].doc
    BY <1>a DEF Task
  <2>2. QED
    BY <1>2, <1>24, <2>1 DEF ReadVersion
<1>20. QED
  BY <1>4, <1>5, <1>6, <1>7, <1>8, <1>9, <1>10, <1>11, <1>12, <1>13, <1>14, <1>15, <1>16, <1>17, <1>18, <1>19,
     <1>21, <1>22, <1>23, <1>24
  DEF Step

LEMMA SoundStep == TypeOK /\ Shape /\ SoundInv /\ [Next]_vars => SoundInv'
<1> SUFFICES ASSUME TypeOK, Shape, SoundInv, [Next]_vars PROVE SoundInv'
  OBVIOUS
<1>1. ASSUME NEW i \in Ids PROVE Sound(builds'[i])
  <2>1. \A j \in Ids, d \in Doc, v \in Nat : Put(j, d, v) => builds'[i] = builds[i] \/ builds'[i] = d
    BY DEF Put, TypeOK
  <2>2. QED
    BY <2>1, SaveStep DEF SoundInv
<1>2. ASSUME NEW q \in Requests PROVE Sound(task'[q].doc)
  <2>1. CASE Step(q)
    BY <2>1, SoundTask
  <2>2. CASE \E p \in Requests \ {q} : Step(p)
    BY <2>2, OthersStay DEF SoundInv
  <2>3. ASSUME NEW e \in Execs, Run(e) PROVE UNCHANGED task
    BY <2>3 DEF Run, Start, Arm, OpenForExecution, Compile, ReadVersionFor, Persist, Decide, MarkRead, MarkWrite, Fail, request
  <2>4. QED
    BY <2>1, <2>2, <2>3 DEF Next, vars, request, SoundInv
<1>3. ASSUME NEW e \in Execs, stage'[e] \in Submitting PROVE Verdict[rules'[e]] = "valid"
  <2> USE DEF Submitting
  <2> DEFINE Same == stage[e] \in Submitting /\ rules'[e] = rules[e]
  <2>1. CASE Same
    BY <2>1 DEF SoundInv
  <2>2. CASE Compile(e)
    BY <1>3, <2>2 DEF Compile, CompiledTo, Goto, TypeOK, Waits
  <2>3. ASSUME ReadVersionFor(e) \/ Persist(e) \/ Decide(e) \/ MarkRead(e) \/ MarkWrite(e) \/ OpenForExecution(e) PROVE Same
    BY <1>3, <2>3 DEF ReadVersionFor, Persist, Decide, MarkRead, MarkWrite, OpenForExecution, Goto, TypeOK, Waits
  <2>4. ASSUME Start(e) \/ Arm(e) \/ Fail(e) PROVE FALSE
    BY <1>3, <2>4, ExtractionsAssumption DEF Start, Route, Arm, Fail, Goto, TypeOK, Waits
  <2>5. ASSUME NEW f \in Execs, Run(f), f # e PROVE Same
    BY <1>3, <2>5
    DEF Run, Start, Arm, OpenForExecution, Compile, ReadVersionFor, Persist, Decide, MarkRead, MarkWrite, Fail, Goto, TypeOK
  <2>6. ASSUME NEW q \in Requests, Step(q) PROVE Same
    <3>1. CASE Answer(q)
      BY <1>3, <3>1 DEF Answer, Goto, TypeOK, Waits
    <3>2. CASE ~Answer(q)
      BY <1>3, <2>6, <3>2
      DEF Step, ReadReview, WriteReview, Note, Claim, BatchRead, BatchWrite, LoadAccepted, Count, CreateRefused, CreateDraft,
          Create, Execute, ReadVersion, StoreFirst, OpenNext, AcceptRead, AcceptWrite, Store, Archive, ArchiveWrite,
          ArchiveAgain, cloud
    <3>3. QED
      BY <3>1, <3>2
  <2>7. ASSUME UNCHANGED vars PROVE Same
    BY <1>3, <2>7 DEF vars, cloud
  <2>8. Same \/ Compile(e)
    BY <2>3, <2>4, <2>5, <2>6, <2>7 DEF Next, Run
  <2>9. QED
    BY <2>1, <2>2, <2>8
<1>4. QED
  BY <1>1, <1>2, <1>3 DEF SoundInv

LEMMA SoundInvariant == Spec => []SoundInv
<1>1. Init => SoundInv
  BY SoundDocuments DEF Init, SoundInv, Submitting, NoTask, Waits
<1>2. QED
  BY <1>1, SoundStep, ShapeInvariant, PTL DEF Spec

\* A build an execution stored as validated (PERSIST_BUILD) has rules the
\* validator certified, whatever stores, marks or archives it afterwards.
THEOREM StoredAsValidated == Spec => []ValidatedMeansValid
<1>1. SoundInv => ValidatedMeansValid
  BY BuildIds DEF SoundInv, ValidatedMeansValid, Sound
<1>2. QED
  BY <1>1, SoundInvariant, PTL
-----------------------------------------------------------------------------
\* Of a request that archives, after a step: it has just read the record, or it
\* is as it was.
LEMMA ArchiveBegins ==
  ASSUME TypeOK, Shape, [Next]_vars, NEW q \in Requests, pc'[q] \in AtArchive
  PROVE  (pc'[q] = pc[q] /\ task'[q] = task[q]) \/ Fresh(q)'
<1> DEFINE Goal == (pc'[q] = pc[q] /\ task'[q] = task[q]) \/ Fresh(q)'
<1>a. task[q] \in Task
  BY DEF TypeOK
<1>1. ASSUME NEW s, NEW t, s \notin AtArchive PROVE ~Begin(q, s, t) /\ ~Proceed(q, s, t)
  BY <1>1 DEF Begin, Proceed, TypeOK
<1>2. \A d \in Doc, b \in BOOLEAN : Alike([d EXCEPT !.archived = b], d)
  BY DEF Alike, Doc
<1>3. CASE Archive(q)
  <2>1. PICK i \in Ids, flag \in BOOLEAN :
          Stored(i) /\ Begin(q, "archiving",
                             [On(i) EXCEPT !.doc = [builds[i] EXCEPT !.archived = flag], !.ver = version[i]])
    BY <1>3 DEF Archive
  <2>2. task'[q] = [On(i) EXCEPT !.doc = [builds[i] EXCEPT !.archived = flag], !.ver = version[i]]
    BY <2>1, BegunTask
  <2>3. task'[q].on = i /\ task'[q].doc = [builds[i] EXCEPT !.archived = flag] /\ task'[q].ver = version[i]
    BY <2>2 DEF On, NoTask
  <2>4. UNCHANGED <<builds, version>> /\ builds[i] \in Doc /\ version[i] \in Nat
    BY <1>3, <2>1 DEF Archive, Stored, TypeOK
  <2>5. QED
    BY <1>2, <2>3, <2>4 DEF Fresh
<1>4. CASE ArchiveWrite(q)
  <2>1. task[q].ver # version[task[q].on]
    BY <1>1, <1>4 DEF ArchiveWrite, Finish, AtArchive
  <2>2. builds[task[q].on] \in Doc /\ task[q].doc.archived \in BOOLEAN /\ version[task[q].on] \in Nat
    BY <1>4 DEF ArchiveWrite, Shape, TaskInv, Ready, AtArchive, WithDoc, Doc, TypeOK
  <2>3. PICK d : /\ d = [builds[task[q].on] EXCEPT !.archived = task[q].doc.archived]
                 /\ Proceed(q, "rearchiving", [task[q] EXCEPT !.doc = d, !.ver = version[task[q].on]])
                 /\ UNCHANGED <<builds, version>>
    BY <1>4, <2>1 DEF ArchiveWrite
  <2>4. task'[q].on = task[q].on /\ task'[q].doc = d /\ task'[q].ver = version[task[q].on]
    BY <1>a, <2>3 DEF Proceed, TypeOK, Task
  <2>5. QED
    BY <1>2, <2>2, <2>3, <2>4 DEF Fresh
<1>5. ASSUME Step(q), ~Archive(q), ~ArchiveWrite(q) PROVE FALSE
  BY <1>1, <1>5
  DEF Step, ReadReview, WriteReview, Note, Claim, BatchRead, BatchWrite, LoadAccepted, Count, Answer, CreateRefused,
      CreateDraft, Create, Execute, ReadVersion, StoreFirst, OpenNext, AcceptRead, AcceptWrite, Store, ArchiveAgain,
      Finish, AtArchive
<1>6. CASE \E p \in Requests \ {q} : Step(p)
  BY <1>6, OthersStay
<1>7. CASE UNCHANGED vars \/ \E e \in Execs : Run(e)
  BY <1>7
  DEF vars, request, Run, Start, Arm, OpenForExecution, Compile, ReadVersionFor, Persist, Decide, MarkRead, MarkWrite, Fail
<1>8. QED
  BY <1>3, <1>4, <1>5, <1>6, <1>7 DEF Next

\* Nobody but the archival itself forgets that it was raced.
LEMMA RacedStays ==
  ASSUME TypeOK, Shape, [Next]_vars, NEW q \in Requests, pc[q] \in AtArchive, pc'[q] = pc[q], q \in raced
  PROVE  q \in raced'
<1>1. ASSUME NEW p \in Requests, Step(p), p # q PROVE q \in raced'
  BY <1>1
  DEF Step, ReadReview, WriteReview, Note, Claim, BatchRead, BatchWrite, LoadAccepted, Count, Answer, CreateRefused,
      CreateDraft, Create, Execute, ReadVersion, StoreFirst, OpenNext, AcceptRead, AcceptWrite, Store, Archive,
      ArchiveWrite, ArchiveAgain, SaveBuild, tables
<1>2. ASSUME Step(q) PROVE FALSE
  <2>1. ASSUME NEW s, NEW t, s # pc[q] PROVE ~Begin(q, s, t) /\ ~Proceed(q, s, t)
    BY <2>1 DEF Begin, Proceed, TypeOK
  <2>2. QED
    BY <1>2, <2>1
    DEF Step, ReadReview, WriteReview, Note, Claim, BatchRead, BatchWrite, LoadAccepted, Count, Answer, CreateRefused,
        CreateDraft, Create, Execute, ReadVersion, StoreFirst, OpenNext, AcceptRead, AcceptWrite, Store, Archive,
        ArchiveWrite, ArchiveAgain, Finish, AtArchive, Noting, Begin
<1>3. ASSUME NEW e \in Execs, Run(e) PROVE q \in raced'
  BY <1>3
  DEF Run, Start, Arm, OpenForExecution, Compile, ReadVersionFor, Persist, Decide, MarkRead, MarkWrite, Fail, SaveBuild,
      tables
<1>4. QED
  BY <1>1, <1>2, <1>3 DEF Next, vars

\* An archival that is not raced still has the record as it read it, or a larger
\* version tells: whoever puts the record puts its next version.
LEMMA FreshStep == TypeOK /\ Shape /\ SoundInv /\ FreshInv /\ [Next]_vars => FreshInv'
<1> SUFFICES ASSUME TypeOK, Shape, SoundInv, FreshInv, [Next]_vars, NEW q \in Requests,
                    pc'[q] \in AtArchive, q \notin raced', pc'[q] = pc[q], task'[q] = task[q]
             PROVE  Fresh(q)'
  BY ArchiveBegins DEF FreshInv
<1>1. task[q].on \in Ids /\ task[q].ver \in Nat /\ version[task[q].on] \in Nat
  BY DEF Shape, TaskInv, Ready, AtArchive, TypeOK, Task
<1>2. Fresh(q)
  BY RacedStays DEF FreshInv
<1>3. CASE UNCHANGED <<builds, version>>
  BY <1>2, <1>3 DEF Fresh
<1>4. ASSUME NEW i \in Ids, NEW d \in Doc, NEW v \in Nat, Put(i, d, v), v = version[i] \/ Archivals(i) \subseteq raced'
      PROVE  Fresh(q)'
  <2>1. CASE i = task[q].on
    <3>1. q \in Archivals(i)
      BY <2>1 DEF Archivals, AtArchive
    <3>2. version'[i] = version[i] + 1
      BY <1>4, <3>1 DEF Put, TypeOK
    <3>3. QED
      BY <1>1, <1>2, <2>1, <3>2 DEF Fresh
  <2>2. CASE i # task[q].on
    <3>1. version'[task[q].on] = version[task[q].on] /\ builds'[task[q].on] = builds[task[q].on]
      BY <1>1, <1>4, <2>2 DEF Put, TypeOK
    <3>2. QED
      BY <1>2, <3>1 DEF Fresh
  <2>3. QED
    BY <2>1, <2>2
<1>5. QED
  BY <1>3, <1>4, SaveStep

\* set_build_archived changes nothing of a build but the archived flag, whatever
\* is stored between its read and its write: a write against an old version is
\* lost, and what is written against the current one is what is there.  The one
\* exception is named: a save that read its version before another put, and
\* stores that version again while the archival is under way (save_build).
THEOREM ArchiveTouchesOneFlag == Spec => ArchiveOnlyHides
<1>1. Init => FreshInv
  BY DEF Init, FreshInv, AtArchive
<1>2. TypeOK /\ Shape /\ FreshInv /\ [Next]_vars =>
        [\A q \in Requests : pc[q] \in {"archiving", "rearchiving"} /\ pc'[q] # pc[q] /\ q \notin raced =>
           \A i \in Ids :
             [builds'[i] EXCEPT !.archived = FALSE] = [builds[i] EXCEPT !.archived = FALSE]]_vars
  <2> SUFFICES ASSUME TypeOK, Shape, FreshInv, Next, NEW q \in Requests, NEW i \in Ids,
                      pc[q] \in AtArchive, pc'[q] # pc[q], q \notin raced
               PROVE  Alike(builds'[i], builds[i])
    BY DEF AtArchive, Alike
  <2>1. ~\E e \in Execs : Run(e)
    BY DEF Run, Start, Arm, OpenForExecution, Compile, ReadVersionFor, Persist, Decide, MarkRead, MarkWrite, Fail, request
  <2>2. Step(q)
    BY <2>1, OthersStay DEF Next
  <2>3. ASSUME UNCHANGED builds PROVE Alike(builds'[i], builds[i])
    BY <2>3 DEF Alike
  <2>4. ASSUME task[q].ver = version[task[q].on], Put(task[q].on, task[q].doc, task[q].ver)
        PROVE  Alike(builds'[i], builds[i])
    BY <2>3, <2>4 DEF Put, FreshInv, Fresh, TypeOK, Alike
  <2>5. ArchiveWrite(q) \/ ArchiveAgain(q)
    BY <2>2
    DEF Step, ReadReview, WriteReview, Note, Claim, BatchRead, BatchWrite, LoadAccepted, Count, Answer, CreateRefused,
        CreateDraft, Create, Execute, ReadVersion, StoreFirst, OpenNext, AcceptRead, AcceptWrite, Store, Archive,
        AtArchive, Noting, Begin
  <2>6. QED
    BY <2>3, <2>4, <2>5 DEF ArchiveWrite, ArchiveAgain
<1>3. QED
  BY <1>1, <1>2, FreshStep, SoundInvariant, ShapeInvariant, PTL DEF Spec, ArchiveOnlyHides
-----------------------------------------------------------------------------
\* Saving a build under its own id changes its entry, and no other save does any.
LEMMA SaveMaps ==
  ASSUME TypeOK, NEW i \in Ids, NEW d \in Doc, NEW v, Put(i, d, v)
  PROVE  /\ \A k \in Keys : i = Build(k) => Catalogue' = [Catalogue EXCEPT ![k] = d.rules]
         /\ (\A k \in Keys : i # Build(k)) => Catalogue' = Catalogue
<1>1. d # NoDoc
  BY Documents
<1>2. ASSUME NEW k \in Keys
      PROVE  builds'[Build(k)] = IF i = Build(k) THEN d ELSE builds[Build(k)]
  BY BuildIds DEF Put, TypeOK
<1>3. ASSUME NEW k \in Keys, i = Build(k) PROVE Catalogue' = [Catalogue EXCEPT ![k] = d.rules]
  <2>1. \A c \in Keys : Build(c) = i => c = k
    BY <1>3 DEF Build
  <2>2. QED
    BY <1>1, <1>2, <1>3, <2>1 DEF Catalogue, Stored
<1>4. ASSUME \A k \in Keys : i # Build(k) PROVE Catalogue' = Catalogue
  BY <1>2, <1>4 DEF Catalogue, Stored
<1>5. QED
  BY <1>3, <1>4

outcomes == [e \in Execs |-> Outcome(e)]

Closing == [result |-> "closed", key |-> None]
Opening == [result |-> "open", key |-> None]
Of(result, e) == [result |-> result, key |-> Key(e)]

\* What an execution has come to, by its stage.
LEMMA Outcomes ==
  /\ \A e \in Execs :
       /\ stage[e] \in {"started", "ARM_RULE_REVIEW", "WAIT_FOR_RULE_REVIEW", "COMPILE_CONSTRAINTS",
                         "PERSIST_BUILD", "PERSISTING"} => Outcome(e) = Opening
       /\ stage[e] \in Waits => Outcome(e) = Of("submitted", e)
       /\ stage[e] = "READY_CACHED" => Outcome(e) = Of("reused", e)
       /\ stage[e] = "CLOSED" => Outcome(e) = Closing
       /\ stage[e] = "READY" /\ Verdict[rules[e]] = "valid" => Outcome(e) = Of("active", e)
       /\ stage[e] = "READY" /\ Verdict[rules[e]] # "valid" => Outcome(e) = Closing
<1> USE DEF Outcome, Opening, Closing, Of, Waits
<1>1. QED
  OBVIOUS

\* A step that changes what one execution has come to.
LEMMA OneOutcome ==
  ASSUME NEW e \in Execs, NEW o, Outcome(e)' = o, \A f \in Execs \ {e} : Outcome(f)' = Outcome(f)
  PROVE  /\ outcomes' = [outcomes EXCEPT ![e] = o]
         /\ Outcome(e) # o => outcomes' # outcomes
<1>1. outcomes' = [outcomes EXCEPT ![e] = o]
  BY DEF outcomes
<1>2. outcomes'[e] = o /\ outcomes[e] = Outcome(e)
  BY DEF outcomes
<1>3. QED
  BY <1>1, <1>2

\* An entry that is made or replaced.
LEMMA EnteredStep ==
  ASSUME NEW k \in Keys, NEW v \in SUBSET Values, Catalogue' = [Catalogue EXCEPT ![k] = v]
  PROVE  Abstract!Entered(k)
<1>1. Catalogue'[k] = v /\ v # None
  BY ValuesAssumption DEF Catalogue
<1>2. QED
  BY <1>1 DEF Abstract!Entered

\* The others stay what they are, and keep their stage.
LEMMA OtherOutcomes ==
  ASSUME TypeOK, NEW e \in Execs, NEW f \in Execs \ {e},
         Run(e) \/ \E q \in Requests : Answer(q) /\ task[q].token = e
  PROVE  Outcome(f)' = Outcome(f)
<1>1. UNCHANGED <<stage[f], rules[f], extraction[f]>>
  <2>1. CASE Run(e)
    BY <2>1
    DEF Run, Start, Arm, OpenForExecution, Compile, ReadVersionFor, Persist, Decide, MarkRead, MarkWrite, Fail, Goto, TypeOK
  <2>2. CASE \E q \in Requests : Answer(q) /\ task[q].token = e
    BY <2>2 DEF Answer, Goto, TypeOK
  <2>3. QED
    BY <2>1, <2>2
<1>2. QED
  BY <1>1 DEF Outcome, Key

\* Closing, and staying, in terms of the abstract specification.
LEMMA ClosingStep ==
  ASSUME NEW e \in Execs, UNCHANGED Catalogue, Outcome(e).result \in {"open", "submitted"}, Outcome(e)' = Closing,
         \A f \in Execs \ {e} : Outcome(f)' = Outcome(f)
  PROVE  Abstract!Next
<1>1. outcomes' = [outcomes EXCEPT ![e] = Closing]
  BY OneOutcome
<1>2. Abstract!Close(e)
  BY <1>1 DEF Abstract!Close, Abstract!Outcome, Closing, outcomes
<1>3. outcomes' # outcomes
  BY OneOutcome DEF Closing
<1>4. QED
  BY <1>2, <1>3 DEF Abstract!Next, outcomes

LEMMA StayingStep ==
  ASSUME \A f \in Execs : Outcome(f)' = Outcome(f) PROVE UNCHANGED outcomes
BY DEF outcomes

\* A step of an execution is a step of the catalogue, or none.
LEMMA RunRefines ==
  ASSUME TypeOK, Shape, SoundInv, [Next]_vars, NEW e \in Execs, Run(e)
  PROVE  Abstract!Next \/ UNCHANGED <<Catalogue, outcomes>>
<1> DEFINE Goal == Abstract!Next \/ UNCHANGED <<Catalogue, outcomes>>
<1>a. \A f \in Execs \ {e} : Outcome(f)' = Outcome(f)
  BY OtherOutcomes
<1>b. ASSUME UNCHANGED builds PROVE UNCHANGED Catalogue
  BY <1>b DEF Catalogue, Stored
<1>c. ASSUME Outcome(e)' = Outcome(e), UNCHANGED builds PROVE Goal
  BY <1>a, <1>b, <1>c, StayingStep
<1>d. stage[e] \notin {"started", "CLOSED"} => Key(e) \in Keys /\ Build(Key(e)) \in Ids
  BY ExtractedKey, BuildIds DEF Shape, ExecInv, Key, TypeOK
<1>e. ASSUME stage[e] \in {"started", "COMPILE_CONSTRAINTS", "WAIT_FOR_RULE_REVIEW"} \cup Waits,
             Outcome(e)' = Closing, UNCHANGED builds
      PROVE  Goal
  <2>1. Outcome(e).result \in {"open", "submitted"}
    BY <1>e, Outcomes DEF Opening, Of
  <2>2. QED
    BY <1>a, <1>b, <1>e, <2>1, ClosingStep
<1>1. CASE Start(e)
  <2>1. Outcome(e) = Opening
    BY <1>1, Outcomes DEF Start
  <2>2. builds' = builds
    BY <1>1 DEF Start, tables
  <2>3. CASE stage'[e] = "CLOSED"
    <3>1. Outcome(e)' = Closing
      BY <2>3 DEF Outcome, Closing
    <3>2. QED
      BY <1>1, <1>e, <2>2, <3>1 DEF Start
  <2>4. CASE stage'[e] \in {"ARM_RULE_REVIEW", "COMPILE_CONSTRAINTS"}
    <3>1. Outcome(e)' = Opening
      BY <2>4 DEF Outcome, Opening, Waits
    <3>2. QED
      BY <1>c, <2>1, <2>2, <3>1
  <2>5. CASE stage'[e] = "READY_CACHED"
    <3>1. PICK x \in Extractions, i \in Ids : extraction' = [extraction EXCEPT ![e] = x] /\ Reusable(x.rules, i)
      <4>1. stage'[e] # "CLOSED" /\ \A x \in Extractions : Route(x) # "READY_CACHED"
        BY <2>5, ExtractionsAssumption DEF Route
      <4>2. QED
        BY <1>1, <2>5, <4>1 DEF Start, Goto, TypeOK
    <3>2. Key(e)' = x.rules /\ x.rules \in Keys
      BY <3>1, ExtractedKey DEF Key, TypeOK
    <3>3. Catalogue[x.rules] # None
      <4>1. builds[Build(x.rules)] \in Doc
        BY <3>1 DEF Reusable, Matches, Stored, TypeOK
      <4>2. builds[Build(x.rules)].rules # None
        BY <4>1, ValuesAssumption DEF Doc
      <4>3. QED
        BY <3>1, <3>2, <4>2 DEF Catalogue, Reusable, Matches
    <3>4. Outcome(e)' = [result |-> "reused", key |-> x.rules]
      <4>1. Outcome(e)' = [result |-> "reused", key |-> Key(e)']
        BY <2>5 DEF Outcome, Waits
      <4>2. QED
        BY <3>2, <4>1
    <3>5. outcomes' = [outcomes EXCEPT ![e] = [result |-> "reused", key |-> x.rules]]
      BY <1>a, <3>4, OneOutcome
    <3>6. outcomes[e] = Opening
      BY <2>1 DEF outcomes
    <3>7. Abstract!Reuse(e, x.rules)
      BY <1>b, <2>2, <3>3, <3>5, <3>6
      DEF Abstract!Reuse, Abstract!Outcome, Abstract!Open, Opening, outcomes
    <3>9. outcomes' # outcomes
      BY <1>a, <2>1, <3>4, OneOutcome DEF Opening
    <3>8. QED
      BY <3>2, <3>7, <3>9 DEF Abstract!Next, outcomes
  <2>6. stage'[e] \in {"CLOSED", "READY_CACHED", "ARM_RULE_REVIEW", "COMPILE_CONSTRAINTS"}
    <3>1. \A x \in Extractions : Route(x) \in {"ARM_RULE_REVIEW", "CLOSED", "COMPILE_CONSTRAINTS"}
      BY ExtractionsAssumption DEF Route
    <3>2. QED
      BY <1>1, <3>1 DEF Start, Goto, TypeOK
  <2>7. QED
    BY <2>3, <2>4, <2>5, <2>6
<1>2. CASE Arm(e) \/ OpenForExecution(e) \/ MarkRead(e)
  <2>1. builds' = builds /\ rules' = rules /\ extraction' = extraction
    BY <1>2 DEF Arm, OpenForExecution, MarkRead, tables
  <2>2. CASE OpenForExecution(e)
    <3>1. stage' = stage
      BY <2>2 DEF OpenForExecution
    <3>2. QED
      BY <1>c, <2>1, <3>1 DEF Outcome, Key
  <2>3. CASE Arm(e)
    <3>1. stage'[e] = "WAIT_FOR_RULE_REVIEW" /\ stage[e] = "ARM_RULE_REVIEW"
      BY <2>3 DEF Arm, Goto, TypeOK
    <3>2. QED
      BY <1>c, <2>1, <3>1 DEF Outcome, Waits
  <2>4. CASE MarkRead(e)
    <3>1. stage'[e] = "MARK_READ" /\ stage[e] = "MARK_ACTIVE"
      BY <2>4 DEF MarkRead, Goto, TypeOK
    <3>2. QED
      BY <1>c, <2>1, <3>1 DEF Outcome, Waits, Key
  <2>5. QED
    BY <1>2, <2>2, <2>3, <2>4
<1>3. CASE Compile(e)
  <2>1. stage'[e] = CompiledTo(e) /\ UNCHANGED <<builds, rules, extraction>>
    BY <1>3 DEF Compile, Goto, TypeOK, tables
  <2>2. CASE Verdict[rules[e]] = "valid"
    <3>1. stage'[e] = "PERSIST_BUILD"
      BY <2>1, <2>2 DEF CompiledTo
    <3>2. Outcome(e)' = Opening /\ Outcome(e) = Opening
      BY <1>3, <3>1 DEF Compile, Outcome, Opening, Waits
    <3>3. QED
      BY <1>c, <2>1, <3>2
  <2>3. CASE Verdict[rules[e]] # "valid"
    <3>1. stage'[e] \in {"READY", "CLOSED"}
      BY <2>1, <2>3 DEF CompiledTo
    <3>2. Outcome(e)' = Closing
      BY <2>1, <2>3, <3>1 DEF Outcome, Closing, Waits
    <3>3. QED
      BY <1>3, <1>e, <2>1, <3>2 DEF Compile
  <2>4. QED
    BY <2>2, <2>3
<1>4. CASE Persist(e)
  <2> DEFINE k == Key(e)
  <2>10. Document("PATCH_VALIDATED", rules[e]).rules = rules[e]
    BY DEF Document
  <2>1. PICK d \in Doc : d = Document("PATCH_VALIDATED", rules[e]) /\ d.rules = rules[e]
    BY <2>10, Documents DEF TypeOK
  <2>8. k \in Keys /\ Build(k) \in Ids /\ Put(Build(k), d, seen[e]) /\ rules[e] \in SUBSET Values
    BY <1>4, <1>d, <2>1 DEF Persist, SaveBuild, TypeOK
  <2>2. Catalogue' = [Catalogue EXCEPT ![k] = rules[e]]
    BY <2>1, <2>8, SaveMaps
  <2>3. stage'[e] = "WAIT_FOR_PATCH_APPROVAL" /\ Key(e)' = k
    BY <1>4 DEF Persist, Goto, TypeOK, Key
  <2>4. Outcome(e)' = Of("submitted", e) /\ Outcome(e) = Opening
    BY <1>4, <2>3 DEF Persist, Outcome, Of, Opening, Waits
  <2>5. outcomes' = [outcomes EXCEPT ![e] = Of("submitted", e)] /\ outcomes[e] = Opening
    BY <1>a, <2>4, OneOutcome DEF outcomes
  <2>6. Abstract!Submit(e, k)
    BY <2>2, <2>5, <2>8, EnteredStep
    DEF Abstract!Submit, Abstract!Outcome, Abstract!Open, Opening, Of, outcomes
  <2>9. outcomes' # outcomes
    BY <1>a, <2>4, OneOutcome DEF Opening, Of
  <2>7. QED
    BY <2>6, <2>8, <2>9 DEF Abstract!Next, outcomes
<1>5. CASE Decide(e)
  <2>1. UNCHANGED <<builds, rules, extraction>> /\ stage[e] \in Waits
    BY <1>5 DEF Decide, tables, Waits
  <2>2. stage'[e] \in Waits \/ stage'[e] = "CLOSED"
    BY <1>5 DEF Decide, Goto, TypeOK, Waits
  <2>3. CASE stage'[e] \in Waits
    <3>1. Outcome(e)' = Outcome(e)
      BY <2>1, <2>3 DEF Outcome, Key, Waits
    <3>2. QED
      BY <1>c, <2>1, <3>1
  <2>4. CASE stage'[e] = "CLOSED"
    <3>1. Outcome(e)' = Closing
      BY <2>4 DEF Outcome, Closing, Waits
    <3>2. QED
      BY <1>e, <2>1, <3>1
  <2>5. QED
    BY <2>2, <2>3, <2>4
<1>6. CASE MarkWrite(e)
  <2> DEFINE k == Key(e)
  <2>1. PICK d \in Doc : d = [copy[e] EXCEPT !.status = "PATCH_ACTIVE"]
    BY Documents DEF TypeOK
  <2>9. k \in Keys /\ Build(k) \in Ids /\ Put(Build(k), d, seen[e]) /\ d.rules \in SUBSET Values
    BY <1>6, <1>d, <2>1 DEF MarkWrite, SaveBuild, Doc
  <2>2. Catalogue' = [Catalogue EXCEPT ![k] = d.rules]
    BY <2>9, SaveMaps
  <2>3. stage[e] = "MARKING" /\ stage'[e] = "READY" /\ Key(e)' = k /\ rules' = rules
    BY <1>6 DEF MarkWrite, Goto, TypeOK, Key
  <2>4. Verdict[rules'[e]] = "valid"
    BY <2>3 DEF SoundInv, Submitting, Waits
  <2>5. Outcome(e)' = Of("active", e) /\ Outcome(e) = Of("submitted", e)
    BY <2>3, <2>4 DEF Outcome, Of, Waits
  <2>6. outcomes' = [outcomes EXCEPT ![e] = Of("active", e)] /\ outcomes[e] = Of("submitted", e)
    BY <1>a, <2>5, OneOutcome DEF outcomes
  <2>7. Abstract!Activate(e, k)
    BY <2>2, <2>6, <2>9, EnteredStep DEF Abstract!Activate, Abstract!Outcome, Of, outcomes
  <2>10. outcomes' # outcomes
    BY <1>a, <2>5, OneOutcome DEF Of
  <2>8. QED
    BY <2>7, <2>9, <2>10 DEF Abstract!Next, outcomes
<1>7. CASE Fail(e)
  <2>1. stage'[e] = "CLOSED" /\ builds' = builds
    BY <1>7 DEF Fail, Goto, TypeOK, tables
  <2>2. Outcome(e)' = Closing
    BY <2>1 DEF Outcome, Closing, Waits
  <2>3. QED
    BY <1>7, <1>e, <2>1, <2>2 DEF Fail, Waits
<1>9. CASE ReadVersionFor(e)
  <2>1. UNCHANGED <<builds, rules, extraction>>
    BY <1>9 DEF ReadVersionFor, tables
  <2>2. \/ stage[e] = "PERSIST_BUILD" /\ stage'[e] = "PERSISTING"
        \/ stage[e] = "MARK_READ" /\ stage'[e] = "MARKING"
    BY <1>9 DEF ReadVersionFor, Goto, TypeOK
  <2>3. Outcome(e)' = Outcome(e)
    BY <2>1, <2>2 DEF Outcome, Waits, Key
  <2>4. QED
    BY <1>c, <2>1, <2>3
<1>8. QED
  BY <1>1, <1>2, <1>3, <1>4, <1>5, <1>6, <1>7, <1>9 DEF Run

\* And so is a step of a request.
LEMMA StepRefines ==
  ASSUME TypeOK, Shape, SoundInv, [Next]_vars, NEW q \in Requests, Step(q)
  PROVE  Abstract!Next \/ UNCHANGED <<Catalogue, outcomes>>
<1>1. CASE Answer(q)
  <2>1. PICK e \in Execs : e = task[q].token
    BY <1>1 DEF Answer, Shape, TaskInv, Ready, AtGate, Armed
  <2>2. \A f \in Execs \ {e} : Outcome(f)' = Outcome(f)
    BY <1>1, <2>1, OtherOutcomes
  <2>3. UNCHANGED Catalogue /\ extraction' = extraction
    BY <1>1 DEF Answer, Catalogue, Stored
  <2>4. CASE stage[e] # "WAIT_FOR_RULE_REVIEW"
    <3>1. Outcome(e)' = Outcome(e)
      BY <1>1, <2>1, <2>4 DEF Answer, Outcome, Key
    <3>2. QED
      BY <2>2, <2>3, <3>1, StayingStep
  <2>5. CASE stage[e] = "WAIT_FOR_RULE_REVIEW"
    <3>1. Outcome(e) = Opening
      BY <2>5, Outcomes
    <3>2. stage'[e] \in {"COMPILE_CONSTRAINTS", "CLOSED"}
      BY <1>1, <2>1, <2>5 DEF Answer, Goto, TypeOK
    <3>3. CASE stage'[e] = "COMPILE_CONSTRAINTS"
      <4>1. Outcome(e)' = Opening
        BY <3>3 DEF Outcome, Opening, Waits
      <4>2. QED
        BY <2>2, <2>3, <3>1, <4>1, StayingStep
    <3>4. CASE stage'[e] = "CLOSED"
      <4>1. Outcome(e)' = Closing
        BY <3>4 DEF Outcome, Closing, Waits
      <4>2. QED
        BY <2>2, <2>3, <3>1, <4>1, ClosingStep DEF Opening
    <3>5. QED
      BY <3>2, <3>3, <3>4
  <2>6. QED
    BY <2>4, <2>5
<1>2. CASE ~Answer(q)
  <2>1. UNCHANGED cloud
    BY <1>2
    DEF Step, ReadReview, WriteReview, Note, Claim, BatchRead, BatchWrite, LoadAccepted, Count, CreateRefused, CreateDraft,
        Create, Execute, ReadVersion, StoreFirst, OpenNext, AcceptRead, AcceptWrite, Store, Archive, ArchiveWrite, ArchiveAgain
  <2>2. UNCHANGED outcomes
    BY <2>1, StayingStep DEF cloud, Outcome, Key
  <2>3. CASE builds' = builds
    BY <2>2, <2>3 DEF Catalogue, Stored
  <2>4. ASSUME NEW i \in Ids, NEW d \in Doc, NEW v \in Nat, Put(i, d, v) PROVE Abstract!Next \/ UNCHANGED Catalogue
    <3>1. CASE \E k \in Keys : i = Build(k)
      <4>1. PICK k \in Keys : Catalogue' = [Catalogue EXCEPT ![k] = d.rules]
        BY <2>4, <3>1, SaveMaps
      <4>2. d.rules \in SUBSET Values
        BY DEF Doc
      <4>3. Abstract!Compile(k)
        BY <2>2, <4>1, <4>2, EnteredStep DEF Abstract!Compile, outcomes
      <4>4. QED
        BY <4>3 DEF Abstract!Next
    <3>2. CASE ~\E k \in Keys : i = Build(k)
      BY <2>4, <3>2, SaveMaps
    <3>3. QED
      BY <3>1, <3>2
  <2>5. QED
    BY <2>2, <2>3, <2>4, SaveStep
<1>3. QED
  BY <1>1, <1>2

\* The registry, its requests and the executions implement BuildCatalogue: a
\* duplicate reuses an entry that is there (check_idempotent), an execution asks
\* for approval of an entry that is there (persist_build comes first), entries
\* never disappear, and what an execution came to is final.
THEOREM FlowImplementsCatalogue == Spec => ImplementsCatalogue
<1>1. Init => Abstract!Init
  <2> SUFFICES ASSUME Init PROVE Abstract!Init
    OBVIOUS
  <2>1. \A k \in Keys : builds[Build(k)] = NoDoc
    BY BuildIds DEF Init
  <2>2. Catalogue \in [Keys -> {None}]
    BY <2>1 DEF Catalogue, Stored
  <2>3. \A e \in Execs : stage[e] = "started"
    BY DEF Init
  <2>4. \A e \in Execs : Outcome(e) = Opening
    BY <2>3, Outcomes
  <2>5. QED
    BY <2>2, <2>4 DEF Abstract!Init, Abstract!Open, Opening
<1>2. TypeOK /\ Shape /\ SoundInv /\ [Next]_vars => [Abstract!Next]_<<Catalogue, outcomes>>
  <2> SUFFICES ASSUME TypeOK, Shape, SoundInv, [Next]_vars PROVE Abstract!Next \/ UNCHANGED <<Catalogue, outcomes>>
    OBVIOUS
  <2>1. CASE UNCHANGED vars
    BY <2>1 DEF vars, cloud, Catalogue, Stored, outcomes, Outcome, Key
  <2>2. QED
    BY <2>1, RunRefines, StepRefines DEF Next
<1>3. QED
  BY <1>1, <1>2, ShapeInvariant, SoundInvariant, PTL DEF Spec, Abstract!Spec, ImplementsCatalogue, outcomes
=============================================================================
