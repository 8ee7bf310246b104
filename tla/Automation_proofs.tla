--------------------------- MODULE Automation_proofs ---------------------------
(***************************************************************************)
(* Proofs about Automation, for any number of edits, jobs and workers and  *)
(* days of any length: the next run is at the workflow's own time unless a *)
(* session stored what it computed from an older row, the scan never moves *)
(* the time past a run that has no job, and a job generates twice only for *)
(* a reason the model names.  And about Prompts, for any number of prompts,*)
(* agents, connections and requests: a scope has one active prompt, the    *)
(* one its replies are written with.                                       *)
(***************************************************************************)
EXTENDS Automation, Prompts, WellFoundedInduction, TLAPS

\* Due times are on the clock, and a busy worker has a job.
Moments ==
  /\ now \in Times
  /\ scan.pc # "idle" => scan.seen.next \in Times
  /\ \A w \in Workers : worker[w].pc # "idle" => worker[w].key \in Keys
TypeInv == TypeOK /\ Moments

(***************************************************************************)
(* Why the next run is at the workflow's time: the row an update is about  *)
(* to store agrees with itself, and a session that stores a next run       *)
(* computed it from the slot and the time that are still stored.           *)
(***************************************************************************)
EditsAgree == \A e \in Edits : edit[e].pc = "loaded" => edit[e].row.next % Day = edit[e].row.slot
SlotParts == EditsAgree /\ SlotRespected

\* Why no run is skipped: the job of the run in hand is created and never removed.
QueuedHasJob == scan.pc = "queued" => job[scan.seen.next] # "none"

(***************************************************************************)
(* Why a job generates once while nothing excuses a second time: one       *)
(* worker runs it, has not generated while the job is loaded, and once a   *)
(* draft is stored either completes the job or has completed it.           *)
(***************************************************************************)
At(w, k) == worker[w].pc # "idle" /\ worker[w].key = k
Landing(w) == worker[w].pc \in {"generated", "debited", "stored"}
OnceOK(k) ==
  /\ \A v, w \in Workers : At(v, k) /\ At(w, k) => v = w
  /\ drafts[k] <= 1
  /\ drafts[k] = 1 => job[k] = "done" \/ \E w \in Workers : At(w, k) /\ Landing(w)
  /\ \A w \in Workers : At(w, k) /\ worker[w].pc = "loaded" => drafts[k] = 0
OnceParts == \A k \in Keys : k \notin excused => OnceOK(k)

(***************************************************************************)
(* Times.                                                                  *)
(***************************************************************************)
LEMMA Remainders ==
  ASSUME NEW a \in Nat, NEW r \in Slots
  PROVE  /\ a % Day \in Slots /\ \E q \in Int : a = q * Day + (a % Day)
         /\ \A q \in Int : (q * Day + r) % Day = r
<1>1. Day \in Nat /\ Day > 0 /\ r \in 0..(Day - 1)
  BY AutomationAssumption DEF Slots
<1>2. a % Day \in 0..(Day - 1) /\ \E q \in Int : a = q * Day + (a % Day)
  BY <1>1
<1>3. \A q \in Int : (q * Day + r) % Day = r
  BY <1>1
<1>4. QED  BY <1>2, <1>3 DEF Slots

\* _compute_next_run_at finds a time at the slot within a day of the reference.
LEMMA NextRunTime ==
  ASSUME NEW slot \in Slots, NEW ref \in Nat
  PROVE  /\ NextRun(slot, ref) \in Nat /\ NextRun(slot, ref) > ref
         /\ NextRun(slot, ref) % Day = slot
<1>1. Day \in Nat /\ Day > 0 /\ slot \in 0..(Day - 1) /\ ref % Day \in 0..(Day - 1)
  BY Remainders, AutomationAssumption DEF Slots
<1>2. PICK q \in Int : ref = q * Day + (ref % Day)
  BY Remainders
<1>3. \A p \in Int : (p * Day + slot) % Day = slot
  BY Remainders
<1>4. \E t \in (ref + 1)..(ref + Day) : t % Day = slot
  <2>1. CASE slot > ref % Day
    <3>1. q * Day + slot \in (ref + 1)..(ref + Day)
      BY <1>1, <1>2, <2>1
    <3>2. QED  BY <1>3, <3>1
  <2>2. CASE slot <= ref % Day
    <3>1. (q + 1) * Day = q * Day + Day
      BY <1>1
    <3>2. (q + 1) * Day + slot \in (ref + 1)..(ref + Day)
      BY <1>1, <1>2, <2>2, <3>1
    <3>3. QED  BY <1>3, <3>2
  <2>3. QED  BY <1>1, <2>1, <2>2
<1>5. NextRun(slot, ref) \in (ref + 1)..(ref + Day) /\ NextRun(slot, ref) % Day = slot
  BY <1>4 DEF NextRun
<1>6. QED  BY <1>1, <1>5

(***************************************************************************)
(* Rows, and what the sessions keep of them.                               *)
(***************************************************************************)
LEMMA TimingFields ==
  ASSUME NEW row \in Workflow
  PROVE  /\ Timing(row) \in Seen /\ Timing(row).slot = row.slot /\ Timing(row).next = row.next
         /\ NoWorkflow \in Workflow
  BY AutomationAssumption DEF Timing, Seen, Workflow, NoWorkflow, Slots

LEMMA RestTypes ==
  /\ NoTiming \in Seen
  /\ IdleScan.pc = "idle" /\ IdleScan.seen = NoTiming
  /\ IdleWorker.pc = "idle" /\ IdleWorker.key = 0 /\ IdleWorker.seen = NoTiming
  BY TimingFields, AutomationAssumption
     DEF IdleScan, IdleWorker, NoTiming, Seen, Timing, NoWorkflow, Slots

\* The row that an update's commit leaves, column by column.
LEMMA CommitColumns ==
  ASSUME TypeOK, NEW e \in Edits, CommitEdit(e)
  PROVE  LET row == edit[e].row
             seen == edit[e].seen
         IN  /\ row \in Workflow /\ seen \in Workflow /\ workflow' \in Workflow
             /\ workflow'.status = Assigned(row.status, seen.status, workflow.status)
             /\ workflow'.slot = Assigned(row.slot, seen.slot, workflow.slot)
             /\ workflow'.next = Assigned(row.next, seen.next, workflow.next)
             /\ workflow'.last = Assigned(row.last, seen.last, workflow.last)
<1> DEFINE row == edit[e].row
           seen == edit[e].seen
<1>1. row \in Workflow /\ seen \in Workflow /\ workflow \in Workflow
  BY DEF TypeOK
<1>2. workflow' = [c \in DOMAIN workflow |-> Assigned(row[c], seen[c], workflow[c])]
  BY DEF CommitEdit
<1> HIDE DEF row, seen
<1>3. DOMAIN workflow = {"status", "slot", "next", "last"}
  BY <1>1 DEF Workflow
<1>4. workflow' = [status |-> Assigned(row.status, seen.status, workflow.status),
                   slot |-> Assigned(row.slot, seen.slot, workflow.slot),
                   next |-> Assigned(row.next, seen.next, workflow.next),
                   last |-> Assigned(row.last, seen.last, workflow.last)]
  BY <1>2, <1>3
<1>5. /\ Assigned(row.status, seen.status, workflow.status)
           \in {"none", "ACTIVE", "PAUSED", "deleted"}
      /\ Assigned(row.slot, seen.slot, workflow.slot) \in Slots
      /\ Assigned(row.next, seen.next, workflow.next) \in Nat
      /\ Assigned(row.last, seen.last, workflow.last) \in Nat
  BY <1>1 DEF Assigned, Workflow
<1>6. QED  BY <1>1, <1>4, <1>5 DEF Workflow, row, seen

\* The row a request has changed: its next run is at its own slot.
LEMMA LoadColumns ==
  ASSUME TypeOK, NEW e \in Edits, LoadEdit(e)
  PROVE  \E row \in Workflow :
           /\ edit' = [edit EXCEPT ![e] = [pc |-> "loaded", seen |-> workflow, row |-> row]]
           /\ row.next % Day = row.slot
<1>1. PICK status \in {"ACTIVE", "PAUSED"}, slot \in Slots :
        edit' = [edit EXCEPT ![e] =
          [pc |-> "loaded", seen |-> workflow,
           row |-> [workflow EXCEPT !.status = status, !.slot = slot, !.next = NextEdited(slot)]]]
  BY DEF LoadEdit
<1> DEFINE row == [workflow EXCEPT !.status = status, !.slot = slot, !.next = NextEdited(slot)]
<1>2. workflow \in Workflow /\ now \in Nat
  BY DEF TypeOK
<1>3. NextEdited(slot) \in Nat /\ NextEdited(slot) % Day = slot
  <2>1. workflow.last \in Nat
    BY <1>2 DEF Workflow
  <2>2. QED  BY <1>2, <2>1, NextRunTime DEF NextEdited
<1>4. row \in Workflow /\ row.next = NextEdited(slot) /\ row.slot = slot
  BY <1>2, <1>3 DEF Workflow
<1>5. QED  BY <1>1, <1>3, <1>4

(***************************************************************************)
(* Types.                                                                  *)
(***************************************************************************)
WorkerType == [pc : {"idle", "loaded", "generated", "debited", "stored", "skipped"},
               key : Keys \cup {0}, seen : Seen]
EditType == [pc : {"new", "loaded", "done"}, seen : Workflow, row : Workflow]
ScanType == [pc : {"idle", "loaded", "queued"}, seen : Seen]

LEMMA RowTypes ==
  ASSUME TypeOK
  PROVE  /\ \A w \in Workers : worker[w] \in WorkerType
         /\ \A e \in Edits : edit[e] \in EditType
         /\ scan \in ScanType /\ workflow \in Workflow
  BY DEF TypeOK, WorkerType, EditType, ScanType

LEMMA EnsureType ==
  ASSUME TypeOK, NEW k \in Keys, Ensure(k)
  PROVE  /\ job' \in [Keys -> {"none", "open", "done"}]
         /\ job'[k] # "none"
         /\ \A j \in Keys : job'[j] = job[j] \/ (job[j] = "none" /\ job'[j] = "open")
  BY DEF TypeOK, Ensure

LEMMA KeyKinds ==
  /\ Manual \subseteq Keys /\ Items \subseteq Keys /\ Times \subseteq Keys
  /\ 0 \notin Keys /\ \A t \in Times : t \in Nat
  BY AutomationAssumption DEF Keys, Times

\* What the requests about the workflow do to types.
LEMMA RequestType ==
  ASSUME TypeInv,
         \/ CreateWorkflow \/ DeleteWorkflow
         \/ \E e \in Edits : LoadEdit(e) \/ CommitEdit(e) \/ EditFails(e)
  PROVE  TypeInv'
<1>0. TypeOK /\ Moments
  BY DEF TypeInv
<1>1. UNCHANGED <<now, job, scan, worker, runs, drafts, excused>>
  BY DEF CreateWorkflow, DeleteWorkflow, LoadEdit, CommitEdit, EditFails
<1>2. workflow' \in Workflow
  <2>1. CASE CreateWorkflow
    <3>1. PICK status \in {"ACTIVE", "PAUSED"}, slot \in Slots :
            workflow' = [status |-> status, slot |-> slot, next |-> NextRun(slot, now), last |-> 0]
      BY <2>1 DEF CreateWorkflow
    <3>2. NextRun(slot, now) \in Nat
      BY <1>0, NextRunTime DEF TypeOK
    <3>3. QED  BY <3>1, <3>2 DEF Workflow
  <2>2. CASE DeleteWorkflow
    BY <1>0, <2>2, RowTypes, TimingFields DEF DeleteWorkflow, Workflow
  <2>3. ASSUME NEW e \in Edits, CommitEdit(e) PROVE workflow' \in Workflow
    BY <1>0, <2>3, CommitColumns
  <2>4. ASSUME NEW e \in Edits, LoadEdit(e) \/ EditFails(e) PROVE workflow' \in Workflow
    BY <1>0, <2>4, RowTypes DEF LoadEdit, EditFails
  <2>5. QED  BY <2>1, <2>2, <2>3, <2>4
<1>3. edit' \in [Edits -> EditType]
  <2>1. edit \in [Edits -> EditType]
    BY <1>0 DEF TypeOK, EditType
  <2>2. NoEdit("done") \in EditType
    <3>1. NoWorkflow \in Workflow
      BY <1>0, RowTypes, TimingFields
    <3>2. QED  BY <3>1 DEF NoEdit, EditType
  <2>3. CASE edit' = edit
    BY <2>1, <2>3
  <2>4. ASSUME NEW e \in Edits, CommitEdit(e) \/ EditFails(e) PROVE edit' \in [Edits -> EditType]
    BY <2>1, <2>2, <2>4 DEF CommitEdit, EditFails
  <2>5. ASSUME NEW e \in Edits, LoadEdit(e) PROVE edit' \in [Edits -> EditType]
    <3>1. PICK row \in Workflow :
            edit' = [edit EXCEPT ![e] = [pc |-> "loaded", seen |-> workflow, row |-> row]]
      BY <1>0, <2>5, LoadColumns
    <3>2. [pc |-> "loaded", seen |-> workflow, row |-> row] \in EditType
      BY <1>0, RowTypes DEF EditType
    <3>3. QED  BY <2>1, <3>1, <3>2
  <2>6. QED  BY <2>3, <2>4, <2>5 DEF CreateWorkflow, DeleteWorkflow
<1>4. mixed' \in BOOLEAN
  BY <1>0 DEF CreateWorkflow, DeleteWorkflow, LoadEdit, CommitEdit, EditFails, TypeOK
<1>5. TypeOK'
  BY <1>0, <1>1, <1>2, <1>3, <1>4 DEF TypeOK, EditType
<1>6. QED  BY <1>0, <1>1, <1>5 DEF TypeInv, Moments

LEMMA CreateType ==
  ASSUME TypeInv, NEW k \in Manual \cup Items, RunNow(k) \/ ItemArrives(k)
  PROVE  TypeInv'
<1>1. UNCHANGED <<now, workflow, scan, edit, worker, runs, drafts, mixed, excused>> /\ Ensure(k)
  BY DEF RunNow, ItemArrives
<1>2. job' \in [Keys -> {"none", "open", "done"}]
  BY <1>1, KeyKinds, EnsureType DEF TypeInv
<1>3. QED  BY <1>1, <1>2 DEF TypeInv, TypeOK, Moments

LEMMA ScanTypes ==
  ASSUME TypeInv, LoadDue \/ QueueRun \/ StoreNext \/ ScanFails
  PROVE  TypeInv'
<1>0. TypeOK /\ Moments /\ scan \in ScanType /\ workflow \in Workflow
  BY RowTypes DEF TypeInv
<1>1. UNCHANGED <<now, edit, worker, runs, drafts, excused>>
  BY DEF LoadDue, QueueRun, StoreNext, ScanFails
<1>2. scan' \in ScanType /\ (scan'.pc # "idle" => scan'.seen.next \in Times)
  <2>1. CASE LoadDue
    <3>1. scan' = [pc |-> "loaded", seen |-> Timing(workflow)]
      BY <2>1 DEF LoadDue, FirstStep
    <3>2. workflow.next # 0 /\ workflow.next <= now /\ workflow.next \in Nat /\ now \in 1..MaxTime
      BY <1>0, <2>1 DEF LoadDue, Workflow, Moments, Times
    <3>3. workflow.next \in Times
      BY <3>2, AutomationAssumption DEF Times
    <3>4. QED  BY <1>0, <3>1, <3>3, TimingFields DEF ScanType
  <2>2. CASE QueueRun
    BY <1>0, <2>2 DEF QueueRun, ScanType, Moments
  <2>3. CASE StoreNext \/ ScanFails
    BY <2>3, RestTypes DEF StoreNext, ScanFails, ScanType, IdleScan
  <2>4. QED  BY <2>1, <2>2, <2>3
<1>3. job' \in [Keys -> {"none", "open", "done"}]
  <2>1. CASE QueueRun
    <3>1. scan.seen.next \in Keys /\ Ensure(scan.seen.next)
      BY <1>0, <2>1, KeyKinds DEF QueueRun, Moments
    <3>2. QED  BY <1>0, <3>1, EnsureType
  <2>2. CASE job' = job
    BY <1>0, <2>2 DEF TypeOK
  <2>3. QED  BY <2>1, <2>2 DEF LoadDue, StoreNext, ScanFails
<1>4. workflow' \in Workflow /\ mixed' \in BOOLEAN
  <2>1. CASE StoreNext
    <3>1. workflow' = [workflow EXCEPT !.next = NextRun(scan.seen.slot, scan.seen.next)]
      BY <2>1 DEF StoreNext
    <3>2. NextRun(scan.seen.slot, scan.seen.next) \in Nat
      BY <1>0, NextRunTime DEF ScanType, Seen
    <3>3. QED  BY <1>0, <2>1, <3>1, <3>2 DEF StoreNext, Workflow, TypeOK
  <2>2. CASE UNCHANGED <<workflow, mixed>>
    BY <1>0, <2>2 DEF TypeOK
  <2>3. QED  BY <2>1, <2>2 DEF LoadDue, QueueRun, ScanFails
<1>5. TypeOK'
  BY <1>0, <1>1, <1>2, <1>3, <1>4 DEF TypeOK, ScanType
<1>6. QED  BY <1>0, <1>1, <1>2, <1>5 DEF TypeInv, Moments

\* Every step of a worker replaces what it holds.
LEMMA KeepTypes ==
  ASSUME TypeInv, NEW w \in Workers, NEW n \in WorkerType,
         n.pc # "idle" => n.key \in Keys,
         worker' = [worker EXCEPT ![w] = n],
         UNCHANGED <<now, scan, edit>>,
         workflow' \in Workflow, job' \in [Keys -> {"none", "open", "done"}],
         runs' \in Nat, drafts' \in [Keys -> Nat], mixed' \in BOOLEAN, excused' \subseteq Keys
  PROVE  TypeInv'
<1>1. worker' \in [Workers -> WorkerType]
  BY DEF TypeInv, TypeOK, WorkerType
<1>2. TypeOK'
  BY <1>1 DEF TypeInv, TypeOK, WorkerType
<1>3. \A v \in Workers : worker'[v].pc # "idle" => worker'[v].key \in Keys
  BY DEF TypeInv, TypeOK, Moments
<1>4. QED  BY <1>2, <1>3 DEF TypeInv, Moments

\* The worker that takes job k.
Taken(k) ==
  IF k \in Items THEN [IdleWorker EXCEPT !.pc = "loaded", !.key = k]
  ELSE IF workflow.status = "ACTIVE"
    THEN [pc |-> "loaded", key |-> k, seen |-> Timing(workflow)]
  ELSE [IdleWorker EXCEPT !.pc = "skipped", !.key = k]

LEMMA TakenFields ==
  ASSUME TypeOK, NEW k \in Keys
  PROVE  /\ Taken(k) \in WorkerType /\ Taken(k).pc \in {"loaded", "skipped"} /\ Taken(k).key = k
         /\ IdleWorker \in WorkerType
<1>1. IdleWorker \in WorkerType /\ Timing(workflow) \in Seen
  BY RowTypes, RestTypes, TimingFields DEF IdleWorker, WorkerType
<1>2. CASE k \in Items
  BY <1>1, <1>2 DEF Taken, WorkerType
<1>3. CASE k \notin Items /\ workflow.status = "ACTIVE"
  BY <1>1, <1>3 DEF Taken, WorkerType
<1>4. CASE k \notin Items /\ workflow.status # "ACTIVE"
  BY <1>1, <1>4 DEF Taken, WorkerType
<1>5. QED  BY <1>1, <1>2, <1>3, <1>4

LEMMA TakeStep ==
  ASSUME NEW w \in Workers, NEW k \in Keys, TakeJob(w, k)
  PROVE  worker' = worker \/ worker' = [worker EXCEPT ![w] = Taken(k)]
  BY DEF TakeJob, Taken

\* The worker w once it has stored a result, and once it has moved on to `pc`.
LEMMA MovedFields ==
  ASSUME TypeInv, NEW w \in Workers, worker[w].pc # "idle",
         NEW pc \in {"loaded", "generated", "debited", "stored", "skipped"}
  PROVE  LET kept == [worker[w] EXCEPT !.pc = pc]
             ended == [IdleWorker EXCEPT !.pc = pc, !.key = worker[w].key]
         IN  /\ kept \in WorkerType /\ kept.pc = pc /\ kept.key = worker[w].key
             /\ kept.seen = worker[w].seen
             /\ ended \in WorkerType /\ ended.pc = pc /\ ended.key = worker[w].key
<1>1. /\ worker[w] \in WorkerType /\ IdleWorker.seen \in Seen
      /\ worker[w].key \in Keys
  BY RowTypes, RestTypes DEF TypeInv, Moments
<1>2. IdleWorker = [pc |-> "idle", key |-> 0, seen |-> IdleWorker.seen]
  BY DEF IdleWorker
<1>3. QED  BY <1>1, <1>2 DEF WorkerType

LEMMA WorkType ==
  ASSUME TypeInv, NEW w \in Workers,
         \/ \E k \in Keys : TakeJob(w, k)
         \/ Execute(w) \/ ProviderFails(w) \/ DebitRefused(w) \/ WorkerDies(w)
  PROVE  TypeInv'
<1>0. TypeOK /\ Moments /\ IdleWorker.pc = "idle" /\ worker[w] \in WorkerType
  BY RowTypes, RestTypes DEF TypeInv
<1>1. UNCHANGED <<now, scan, edit>>
  BY DEF TakeJob, Execute, Generate, Debit, StoreResult, Complete, ProviderFails,
         DebitRefused, WorkerDies
<1>2. /\ workflow \in Workflow /\ job \in [Keys -> {"none", "open", "done"}]
      /\ runs \in Nat /\ drafts \in [Keys -> Nat] /\ mixed \in BOOLEAN /\ excused \subseteq Keys
  BY <1>0 DEF TypeOK
<1>3. ASSUME NEW k \in Keys, TakeJob(w, k)
      PROVE  TypeInv'
  <2>1. /\ UNCHANGED <<workflow, job, drafts, mixed>> /\ runs' = runs + 1
        /\ excused' = excused \/ excused' = excused \cup {k}
    BY <1>3 DEF TakeJob
  <2>2. Taken(k) \in WorkerType /\ Taken(k).key = k
    BY <1>0, TakenFields
  <2>3. CASE worker' = worker
    <3>1. TypeOK'
      BY <1>0, <1>1, <1>2, <2>1, <2>3 DEF TypeOK
    <3>2. QED  BY <1>0, <1>1, <2>3, <3>1 DEF TypeInv, Moments
  <2>4. CASE worker' = [worker EXCEPT ![w] = Taken(k)]
    <3>1. PICK n \in WorkerType : worker' = [worker EXCEPT ![w] = n] /\ n.key = k
      BY <2>2, <2>4
    <3>2. runs' \in Nat /\ excused' \subseteq Keys
      BY <1>2, <2>1
    <3>3. QED  BY <1>1, <1>2, <2>1, <3>1, <3>2, KeepTypes
  <2>5. QED  BY <1>3, <2>3, <2>4, TakeStep
<1>4. CASE Generate(w)
  <2>1. /\ worker[w].pc = "loaded" /\ worker[w].key \in Keys
        /\ UNCHANGED <<workflow, job, runs, mixed, excused>>
        /\ worker' = [worker EXCEPT ![w] = [worker[w] EXCEPT !.pc = "generated"]]
        /\ drafts' = [drafts EXCEPT ![worker[w].key] = drafts[worker[w].key] + 1]
    BY <1>0, <1>4 DEF Generate, TypeOK, Moments
  <2>2. drafts' \in [Keys -> Nat]
    BY <1>2, <2>1
  <2> DEFINE n == [worker[w] EXCEPT !.pc = "generated"]
  <2>3. n \in WorkerType /\ n.key \in Keys
    BY <2>1, MovedFields
  <2> HIDE DEF n
  <2>4. worker' = [worker EXCEPT ![w] = n]
    BY <2>1 DEF n
  <2>5. QED  BY <1>1, <1>2, <2>1, <2>2, <2>3, <2>4, KeepTypes
<1>5. CASE Debit(w)
  <2>1. /\ worker[w].pc = "generated" /\ worker[w].key \in Keys
        /\ UNCHANGED <<workflow, job, runs, drafts, mixed, excused>>
        /\ \/ worker' = [worker EXCEPT ![w] =
                          [IdleWorker EXCEPT !.pc = "stored", !.key = worker[w].key]]
           \/ worker' = [worker EXCEPT ![w] = [worker[w] EXCEPT !.pc = "debited"]]
    BY <1>0, <1>5 DEF Debit, Ended, TypeOK, Moments
  <2>2. PICK n \in WorkerType : worker' = [worker EXCEPT ![w] = n] /\ n.key \in Keys
    <3>1. /\ [worker[w] EXCEPT !.pc = "debited"] \in WorkerType
          /\ [worker[w] EXCEPT !.pc = "debited"].key \in Keys
          /\ [IdleWorker EXCEPT !.pc = "stored", !.key = worker[w].key] \in WorkerType
          /\ [IdleWorker EXCEPT !.pc = "stored", !.key = worker[w].key].key \in Keys
      BY <2>1, MovedFields
    <3>2. QED  BY <2>1, <3>1
  <2>3. QED  BY <1>1, <1>2, <2>1, <2>2, KeepTypes
<1>6. CASE StoreResult(w)
  <2>1. /\ worker[w].pc = "debited" /\ worker[w].key \in Keys
        /\ UNCHANGED <<job, runs, drafts, excused>>
        /\ worker' = [worker EXCEPT ![w] =
                        [IdleWorker EXCEPT !.pc = "stored", !.key = worker[w].key]]
    BY <1>0, <1>6 DEF StoreResult, Ended, Moments
  <2>2. NextRun(worker[w].seen.slot, now) \in Nat /\ now \in Nat
    BY <1>0, NextRunTime DEF WorkerType, Seen, TypeOK
  <2>3. workflow' \in Workflow /\ mixed' \in BOOLEAN
    BY <1>2, <1>6, <2>2 DEF StoreResult, Workflow, Assigned
  <2> DEFINE n == [IdleWorker EXCEPT !.pc = "stored", !.key = worker[w].key]
  <2>4. n \in WorkerType /\ n.key \in Keys
    BY <2>1, MovedFields
  <2> HIDE DEF n
  <2>5. worker' = [worker EXCEPT ![w] = n]
    BY <2>1 DEF n
  <2>6. QED  BY <1>1, <1>2, <2>1, <2>3, <2>4, <2>5, KeepTypes
<1>7. CASE Complete(w) \/ ProviderFails(w) \/ DebitRefused(w) \/ WorkerDies(w)
  <2>1. /\ worker[w].pc # "idle" /\ worker[w].key \in Keys
        /\ UNCHANGED <<workflow, runs, drafts, mixed>>
        /\ worker' = [worker EXCEPT ![w] = IdleWorker]
    BY <1>0, <1>7 DEF Complete, ProviderFails, DebitRefused, WorkerDies, Moments
  <2>2. /\ job' \in [Keys -> {"none", "open", "done"}]
        /\ excused' = excused \/ excused' = excused \cup {worker[w].key}
    BY <1>2, <1>7, <2>1 DEF Complete, ProviderFails, DebitRefused, WorkerDies, Reopened
  <2>3. IdleWorker \in WorkerType
    BY <1>0, <2>1, TakenFields
  <2>4. QED  BY <1>0, <1>1, <1>2, <2>1, <2>2, <2>3, KeepTypes
<1>8. QED  BY <1>3, <1>4, <1>5, <1>6, <1>7 DEF Execute

LEMMA TypeStep ==
  ASSUME TypeInv, [Next]_vars
  PROVE  TypeInv'
<1>1. CASE UNCHANGED vars
  BY <1>1 DEF vars, TypeInv, TypeOK, Moments
<1>2. CASE Tick
  <2>1. now' \in Times /\ now' \in Nat
    BY <1>2, AutomationAssumption DEF Tick, TypeInv, Moments, Times
  <2>2. QED  BY <1>2, <2>1 DEF Tick, TypeInv, TypeOK, Moments
<1>3. QED
  BY <1>1, <1>2, RequestType, CreateType, ScanTypes, WorkType DEF Next

(***************************************************************************)
(* The next run is at the workflow's time.                                 *)
(***************************************************************************)
SlotInv == TypeInv /\ SlotParts

LEMMA EditsStep ==
  ASSUME SlotInv, [Next]_vars
  PROVE  EditsAgree'
<1> USE DEF SlotInv, SlotParts
<1>1. TypeOK /\ EditsAgree /\ edit \in [Edits -> EditType]
  BY DEF TypeInv, TypeOK, EditType
<1>2. CASE edit' = edit
  BY <1>1, <1>2 DEF EditsAgree
<1>3. ASSUME NEW e \in Edits, LoadEdit(e) PROVE EditsAgree'
  <2>1. PICK row \in Workflow :
          /\ edit' = [edit EXCEPT ![e] = [pc |-> "loaded", seen |-> workflow, row |-> row]]
          /\ row.next % Day = row.slot
    BY <1>1, <1>3, LoadColumns
  <2>2. QED  BY <1>1, <2>1 DEF EditsAgree
<1>4. ASSUME NEW e \in Edits, CommitEdit(e) \/ EditFails(e) PROVE EditsAgree'
  <2>1. edit' = [edit EXCEPT ![e] = NoEdit("done")] /\ NoEdit("done").pc = "done"
    BY <1>4 DEF CommitEdit, EditFails, NoEdit
  <2>2. QED  BY <1>1, <2>1 DEF EditsAgree
<1>5. CASE UNCHANGED vars
  BY <1>2, <1>5 DEF vars
<1>6. CASE Next
  <2>1. CASE \E e \in Edits : LoadEdit(e) \/ CommitEdit(e) \/ EditFails(e)
    BY <1>3, <1>4, <2>1
  <2>2. CASE ~\E e \in Edits : LoadEdit(e) \/ CommitEdit(e) \/ EditFails(e)
    BY <1>2, <1>6, <2>2
       DEF Next, CreateWorkflow, DeleteWorkflow, RunNow, ItemArrives, LoadDue, QueueRun,
           StoreNext, ScanFails, TakeJob, Execute, Generate, Debit, StoreResult, Complete,
           ProviderFails, DebitRefused, WorkerDies, Tick
  <2>3. QED  BY <2>1, <2>2
<1>7. QED  BY <1>5, <1>6

\* A session whose row nobody has rescheduled knows the stored slot and time.
LEMMA FreshTiming ==
  ASSUME NEW seen \in Seen, TypeOK, ~Stale(seen)
  PROVE  seen.slot = workflow.slot /\ seen.next = workflow.next
  BY RowTypes, TimingFields DEF Stale

\* An update whose row nobody has rescheduled stores its own slot and next run.
LEMMA CommitSlot ==
  ASSUME SlotInv, NEW e \in Edits, CommitEdit(e)
  PROVE  SlotRespected'
<1> DEFINE row == edit[e].row
           seen == edit[e].seen
<1>1. /\ row \in Workflow /\ seen \in Workflow
      /\ workflow'.slot = Assigned(row.slot, seen.slot, workflow.slot)
      /\ workflow'.next = Assigned(row.next, seen.next, workflow.next)
  BY CommitColumns DEF SlotInv, TypeInv
<1>2. row.next % Day = row.slot
  BY DEF CommitEdit, SlotInv, SlotParts, EditsAgree
<1>3. mixed' = (mixed \/ Stale(Timing(seen)))
  BY DEF CommitEdit
<1> HIDE DEF row, seen
<1>4. ASSUME ~mixed'
      PROVE  workflow'.next % Day = workflow'.slot
  <2>1. ~Stale(Timing(seen))
    BY <1>3, <1>4
  <2>2. /\ Timing(seen) \in Seen
        /\ Timing(seen).slot = seen.slot /\ Timing(seen).next = seen.next
    BY <1>1, TimingFields
  <2>3. seen.slot = workflow.slot /\ seen.next = workflow.next
    BY <2>1, <2>2, FreshTiming DEF SlotInv, TypeInv
  <2>4. workflow'.slot = row.slot /\ workflow'.next = row.next
    BY <1>1, <2>3 DEF Assigned
  <2>5. QED  BY <1>2, <2>4
<1>5. QED  BY <1>4 DEF SlotRespected

\* The scan stores the run after the one it queued.
LEMMA StoreNextSlot ==
  ASSUME SlotInv, StoreNext
  PROVE  SlotRespected'
<1>1. /\ workflow' = [workflow EXCEPT !.next = NextRun(scan.seen.slot, scan.seen.next)]
      /\ mixed' = (mixed \/ Stale(scan.seen))
  BY DEF StoreNext
<1>2. workflow \in Workflow /\ scan.seen \in Seen
  BY RowTypes DEF SlotInv, TypeInv, ScanType
<1>3. NextRun(scan.seen.slot, scan.seen.next) % Day = scan.seen.slot
  BY <1>2, NextRunTime DEF Seen
<1>4. /\ workflow'.next = NextRun(scan.seen.slot, scan.seen.next)
      /\ workflow'.slot = workflow.slot
  BY <1>1, <1>2 DEF Workflow
<1>5. ASSUME ~mixed'
      PROVE  workflow'.next % Day = workflow'.slot
  <2>1. ~Stale(scan.seen)
    BY <1>1, <1>5
  <2>2. scan.seen.slot = workflow.slot
    BY <1>2, <2>1, FreshTiming DEF SlotInv, TypeInv
  <2>3. QED  BY <1>3, <1>4, <2>2
<1>6. QED  BY <1>5 DEF SlotRespected

\* A run stores the next one from the current time, unless that is what it loaded.
LEMMA ResultSlot ==
  ASSUME SlotInv, NEW w \in Workers, StoreResult(w)
  PROVE  SlotRespected'
<1> DEFINE seen == worker[w].seen
           next == NextRun(seen.slot, now)
<1>1. /\ workflow' = [workflow EXCEPT !.last = now,
                                      !.next = Assigned(next, seen.next, workflow.next)]
      /\ mixed' = (mixed \/ Stale(seen))
  BY RowTypes DEF StoreResult, SlotInv, TypeInv, Workflow
<1>2. workflow \in Workflow /\ seen \in Seen /\ now \in Nat
  BY RowTypes DEF SlotInv, TypeInv, TypeOK, WorkerType
<1>3. next % Day = seen.slot
  BY <1>2, NextRunTime DEF Seen
<1> HIDE DEF next, seen
<1>4. /\ workflow'.next = Assigned(next, seen.next, workflow.next)
      /\ workflow'.slot = workflow.slot
  BY <1>1, <1>2 DEF Workflow
<1>5. ASSUME ~mixed'
      PROVE  workflow'.next % Day = workflow'.slot
  <2>1. ~Stale(seen)
    BY <1>1, <1>5
  <2>2. seen.slot = workflow.slot /\ seen.next = workflow.next
    BY <1>2, <2>1, FreshTiming DEF SlotInv, TypeInv
  <2>3. workflow'.next = next
    BY <1>4, <2>2 DEF Assigned
  <2>4. QED  BY <1>3, <1>4, <2>2, <2>3
<1>6. QED  BY <1>5 DEF SlotRespected

LEMMA SlotStep ==
  ASSUME SlotInv, [Next]_vars
  PROVE  SlotInv'
<1>1. SUFFICES SlotRespected'
  BY TypeStep, EditsStep DEF SlotInv, SlotParts
<1>2. CASE UNCHANGED <<workflow, mixed>>
  BY <1>2 DEF SlotInv, SlotParts, SlotRespected, Exists
<1>3. CASE CreateWorkflow
  <2>1. PICK status \in {"ACTIVE", "PAUSED"}, slot \in Slots :
          workflow' = [status |-> status, slot |-> slot, next |-> NextRun(slot, now), last |-> 0]
    BY <1>3 DEF CreateWorkflow
  <2>2. NextRun(slot, now) % Day = slot
    BY NextRunTime DEF SlotInv, TypeInv, TypeOK
  <2>3. QED  BY <2>1, <2>2 DEF SlotRespected
<1>4. CASE DeleteWorkflow
  BY <1>4 DEF DeleteWorkflow, NoWorkflow, SlotRespected, Exists
<1>5. CASE \/ CreateWorkflow \/ DeleteWorkflow \/ StoreNext
           \/ \E e \in Edits : CommitEdit(e)
           \/ \E w \in Workers : StoreResult(w)
  BY <1>3, <1>4, <1>5, CommitSlot, StoreNextSlot, ResultSlot
<1>6. CASE ~(\/ CreateWorkflow \/ DeleteWorkflow \/ StoreNext
             \/ \E e \in Edits : CommitEdit(e)
             \/ \E w \in Workers : StoreResult(w))
  <2>1. UNCHANGED <<workflow, mixed>>
    BY <1>6
       DEF Next, vars, LoadEdit, EditFails, RunNow, ItemArrives, LoadDue, QueueRun, ScanFails,
           TakeJob, Execute, Generate, Debit, Complete, ProviderFails, DebitRefused,
           WorkerDies, Tick
  <2>2. QED  BY <1>2, <2>1
<1>7. QED  BY <1>5, <1>6

(***************************************************************************)
(* No run is skipped.                                                      *)
(***************************************************************************)
QueueInv == TypeInv /\ QueuedHasJob

\* A job, once created, has its row for ever.
LEMMA JobsStay ==
  ASSUME TypeInv, [Next]_vars
  PROVE  \A k \in Keys : job[k] # "none" => job'[k] # "none"
<1>1. job \in [Keys -> {"none", "open", "done"}]
  BY DEF TypeInv, TypeOK
<1>2. CASE job' = job
  BY <1>2
<1>3. ASSUME NEW k \in Keys, Ensure(k)
      PROVE  \A j \in Keys : job[j] # "none" => job'[j] # "none"
  BY <1>1, <1>3 DEF Ensure
<1>4. ASSUME NEW w \in Workers, Complete(w) \/ ProviderFails(w) \/ DebitRefused(w)
      PROVE  \A j \in Keys : job[j] # "none" => job'[j] # "none"
  <2>1. worker[w].key \in Keys
    BY <1>4 DEF Complete, ProviderFails, DebitRefused, TypeInv, Moments
  <2>2. QED  BY <1>1, <1>4, <2>1 DEF Complete, ProviderFails, DebitRefused, Reopened
<1>5. CASE \/ \E k \in Manual : RunNow(k)
           \/ \E k \in Items : ItemArrives(k)
           \/ QueueRun
  <2>1. QueueRun => scan.seen.next \in Keys
    BY KeyKinds DEF QueueRun, TypeInv, Moments
  <2>2. \E k \in Keys : Ensure(k)
    BY <1>5, <2>1, KeyKinds DEF RunNow, ItemArrives, QueueRun
  <2>3. QED  BY <1>3, <2>2
<1>6. CASE \E w \in Workers : Complete(w) \/ ProviderFails(w) \/ DebitRefused(w)
  BY <1>4, <1>6
<1>7. CASE ~(\/ \E k \in Manual : RunNow(k)
             \/ \E k \in Items : ItemArrives(k)
             \/ QueueRun
             \/ \E w \in Workers : Complete(w) \/ ProviderFails(w) \/ DebitRefused(w))
  <2>1. job' = job
    BY <1>7
       DEF Next, vars, CreateWorkflow, DeleteWorkflow, LoadEdit, CommitEdit, EditFails, LoadDue,
           StoreNext, ScanFails, TakeJob, Execute, Generate, Debit, StoreResult, WorkerDies, Tick
  <2>2. QED  BY <1>2, <2>1
<1>8. QED  BY <1>5, <1>6, <1>7

LEMMA QueueStep ==
  ASSUME QueueInv, [Next]_vars
  PROVE  QueueInv'
<1>1. SUFFICES QueuedHasJob'
  BY TypeStep DEF QueueInv
<1>2. CASE scan' = scan
  <2>1. scan.pc = "queued" => scan.seen.next \in Keys
    BY KeyKinds DEF QueueInv, TypeInv, Moments
  <2>2. \A k \in Keys : job[k] # "none" => job'[k] # "none"
    BY JobsStay DEF QueueInv
  <2>3. QED  BY <1>2, <2>1, <2>2 DEF QueueInv, QueuedHasJob
<1>3. CASE QueueRun
  <2>1. scan.seen.next \in Keys /\ Ensure(scan.seen.next)
    BY <1>3, KeyKinds DEF QueueRun, QueueInv, TypeInv, Moments
  <2>2. job'[scan.seen.next] # "none"
    BY <2>1 DEF Ensure, QueueInv, TypeInv, TypeOK
  <2>3. scan'.seen = scan.seen
    BY <1>3, RowTypes DEF QueueRun, ScanType, QueueInv, TypeInv
  <2>4. QED  BY <2>2, <2>3 DEF QueuedHasJob
<1>4. CASE LoadDue \/ StoreNext \/ ScanFails
  BY <1>4, RestTypes DEF LoadDue, FirstStep, StoreNext, ScanFails, QueuedHasJob
<1>5. CASE ~(LoadDue \/ QueueRun \/ StoreNext \/ ScanFails)
  <2>1. scan' = scan
    BY <1>5
       DEF Next, vars, CreateWorkflow, DeleteWorkflow, LoadEdit, CommitEdit, EditFails, RunNow,
           ItemArrives, TakeJob, Execute, Generate, Debit, StoreResult, Complete,
           ProviderFails, DebitRefused, WorkerDies, Tick
  <2>2. QED  BY <1>2, <2>1
<1>6. QED  BY <1>3, <1>4, <1>5

LEMMA ScanSkipsNothing ==
  ASSUME QueueInv, [Next]_vars, scan' # scan, workflow' # workflow
  PROVE  job[scan.seen.next] # "none"
<1>1. CASE StoreNext
  BY <1>1 DEF StoreNext, QueueInv, QueuedHasJob
<1>2. CASE ~StoreNext
  BY <1>2
     DEF Next, vars, CreateWorkflow, DeleteWorkflow, LoadEdit, CommitEdit, EditFails, RunNow,
         ItemArrives, LoadDue, QueueRun, ScanFails, TakeJob, Execute, Generate, Debit,
         StoreResult, Complete, ProviderFails, DebitRefused, WorkerDies, Tick
<1>3. QED  BY <1>1, <1>2

(***************************************************************************)
(* A job generates once.                                                   *)
(***************************************************************************)
OnceInv == TypeInv /\ OnceParts

\* A job that a step leaves alone.
LEMMA OnceElsewhere ==
  ASSUME OnceInv, NEW k \in Keys, k \notin excused', excused \subseteq excused',
         drafts'[k] = drafts[k], job[k] = "done" => job'[k] = "done",
         \A w \in Workers : worker'[w] = worker[w] \/ (~At(w, k) /\ ~At(w, k)')
  PROVE  OnceOK(k)'
<1>1. OnceOK(k)
  BY DEF OnceInv, OnceParts
<1>2. \A w \in Workers : At(w, k)' => At(w, k) /\ worker'[w] = worker[w]
  BY DEF At
<1>3. \A w \in Workers : At(w, k) => At(w, k)' /\ worker'[w] = worker[w]
  BY DEF At
<1>4. QED  BY <1>1, <1>2, <1>3 DEF OnceOK, Landing

\* The job of the worker that takes a step, when no other worker is at it.
LEMMA OnceHere ==
  ASSUME OnceInv, NEW w \in Workers, NEW k \in Keys, NEW n,
         \A v \in Workers : v # w => ~At(v, k),
         worker' = [worker EXCEPT ![w] = n],
         drafts'[k] \in {0, 1},
         n.pc = "loaded" => drafts'[k] = 0,
         drafts'[k] = 1 =>
           job'[k] = "done" \/ (n.pc \in {"generated", "debited", "stored"} /\ n.key = k)
  PROVE  OnceOK(k)'
<1>1. worker'[w] = n /\ \A v \in Workers : v # w => worker'[v] = worker[v]
  BY DEF OnceInv, TypeInv, TypeOK
<1>2. \A v \in Workers : v # w => ~At(v, k)'
  BY <1>1 DEF At
<1>3. n.pc \in {"generated", "debited", "stored"} /\ n.key = k => At(w, k)' /\ Landing(w)'
  BY <1>1 DEF At, Landing
<1>4. QED  BY <1>1, <1>2, <1>3 DEF OnceOK

\* The step of a busy worker changes one job, its own.
LEMMA OnceBusy ==
  ASSUME OnceInv, NEW w \in Workers, NEW h \in Keys, At(w, h),
         NEW n, worker' = [worker EXCEPT ![w] = n],
         n.pc # "idle" => n.key = h,
         excused \subseteq excused',
         \A j \in Keys : j # h => drafts'[j] = drafts[j] /\ job'[j] = job[j],
         h \notin excused' => OnceOK(h)'
  PROVE  OnceParts'
<1>1. worker'[w] = n /\ \A v \in Workers : v # w => worker'[v] = worker[v]
  BY DEF OnceInv, TypeInv, TypeOK
<1>2. ASSUME NEW k \in Keys, k \notin excused'
      PROVE  OnceOK(k)'
  <2>1. CASE k = h
    BY <1>2, <2>1
  <2>2. CASE k # h
    <3>1. ~At(w, k) /\ ~At(w, k)'
      BY <1>1, <2>2 DEF At
    <3>2. \A v \in Workers : worker'[v] = worker[v] \/ (~At(v, k) /\ ~At(v, k)')
      BY <1>1, <3>1
    <3>3. QED  BY <1>2, <2>2, <3>2, OnceElsewhere
  <2>3. QED  BY <2>1, <2>2
<1>3. QED  BY <1>2 DEF OnceParts

LEMMA Sole ==
  ASSUME OnceInv, NEW w \in Workers, NEW h \in Keys, At(w, h), h \notin excused
  PROVE  /\ \A v \in Workers : v # w => ~At(v, h)
         /\ drafts[h] \in {0, 1}
         /\ drafts[h] = 1 => job[h] = "done" \/ Landing(w)
         /\ worker[w].pc = "loaded" => drafts[h] = 0
<1>1. OnceOK(h) /\ drafts[h] \in Nat
  BY DEF OnceInv, OnceParts, TypeInv, TypeOK
<1>2. \A v \in Workers : At(v, h) => v = w
  BY <1>1 DEF OnceOK
<1>3. drafts[h] \in {0, 1}
  BY <1>1 DEF OnceOK
<1>4. QED  BY <1>1, <1>2, <1>3 DEF OnceOK

LEMMA TakeOnce ==
  ASSUME OnceInv, NEW w \in Workers, NEW k \in Keys, TakeJob(w, k)
  PROVE  OnceParts'
<1>1. /\ UNCHANGED <<job, drafts>> /\ worker[w].pc = "idle" /\ job[k] = "open"
      /\ excused' = IF Overlap(k) THEN excused \cup {k} ELSE excused
  BY DEF TakeJob, Runnable
<1>2. CASE worker' = worker
  BY <1>1, <1>2, OnceElsewhere DEF OnceParts
<1>3. CASE worker' # worker
  <2>1. PICK n \in WorkerType :
          worker' = [worker EXCEPT ![w] = n] /\ n.key = k /\ n.pc \in {"loaded", "skipped"}
    BY <1>3, TakeStep, TakenFields DEF OnceInv, TypeInv
  <2>2. worker'[w] = n /\ \A v \in Workers : v # w => worker'[v] = worker[v]
    BY <2>1 DEF OnceInv, TypeInv, TypeOK
  <2>3. ASSUME NEW j \in Keys, j # k, j \notin excused'
        PROVE  OnceOK(j)'
    <3>1. ~At(w, j) /\ ~At(w, j)'
      BY <1>1, <2>1, <2>2, <2>3 DEF At
    <3>2. \A v \in Workers : worker'[v] = worker[v] \/ (~At(v, j) /\ ~At(v, j)')
      BY <2>2, <3>1
    <3>3. QED  BY <1>1, <2>3, <3>2, OnceElsewhere
  <2>4. ASSUME k \notin excused'
        PROVE  OnceOK(k)'
    <3>1. ~Overlap(k) /\ k \notin excused
      BY <1>1, <2>4
    <3>2. \A v \in Workers : ~At(v, k)
      BY <3>1 DEF Overlap, At
    <3>3. OnceOK(k) /\ drafts[k] \in Nat
      BY <3>1 DEF OnceInv, OnceParts, TypeInv, TypeOK
    <3>4. drafts[k] = 0
      BY <1>1, <3>2, <3>3 DEF OnceOK
    <3>5. drafts'[k] = 0 /\ drafts'[k] \in {0, 1} /\ drafts'[k] # 1
      BY <1>1, <3>4
    <3>6. \A v \in Workers : v # w => ~At(v, k)
      BY <3>2
    <3>7. QED  BY <2>1, <3>5, <3>6, OnceHere
  <2>5. QED  BY <2>3, <2>4 DEF OnceParts
<1>4. QED  BY <1>2, <1>3

\* The steps between two commits of a run.
LEMMA RunOnce ==
  ASSUME OnceInv, NEW w \in Workers, Generate(w) \/ Debit(w) \/ StoreResult(w)
  PROVE  OnceParts'
<1>1. PICK h \in Keys : h = worker[w].key
  BY DEF Generate, Debit, StoreResult, OnceInv, TypeInv, Moments
<1>2. At(w, h) /\ UNCHANGED <<job, excused>>
  BY <1>1 DEF At, Generate, Debit, StoreResult
<1>3. PICK n \in WorkerType :
        /\ worker' = [worker EXCEPT ![w] = n] /\ n.key = h
        /\ n.pc \in {"generated", "debited", "stored"}
  <2>1. worker[w].pc # "idle"
    BY <1>2 DEF At
  <2> DEFINE kept(pc) == [worker[w] EXCEPT !.pc = pc]
             ended(pc) == [IdleWorker EXCEPT !.pc = pc, !.key = worker[w].key]
  <2>2. /\ \E pc \in {"generated", "debited", "stored"} :
             worker' = [worker EXCEPT ![w] = kept(pc)] \/ worker' = [worker EXCEPT ![w] = ended(pc)]
    BY DEF Generate, Debit, StoreResult, Ended, OnceInv, TypeInv, TypeOK
  <2>3. ASSUME NEW pc \in {"generated", "debited", "stored"}
        PROVE  /\ kept(pc) \in WorkerType /\ kept(pc).pc = pc /\ kept(pc).key = h
               /\ ended(pc) \in WorkerType /\ ended(pc).pc = pc /\ ended(pc).key = h
    <3>1. worker[w] \in WorkerType /\ IdleWorker \in WorkerType
      BY <1>1, RowTypes, TakenFields DEF OnceInv, TypeInv
    <3>2. kept(pc) \in WorkerType /\ kept(pc).pc = pc /\ kept(pc).key = h
      BY <1>1, <3>1 DEF WorkerType
    <3>3. ended(pc) \in WorkerType /\ ended(pc).pc = pc /\ ended(pc).key = h
      BY <1>1, <3>1 DEF WorkerType
    <3>4. QED  BY <3>2, <3>3
  <2> HIDE DEF kept, ended
  <2>4. QED  BY <2>2, <2>3
<1>4. drafts \in [Keys -> Nat]
  BY DEF OnceInv, TypeInv, TypeOK
<1>5. CASE Generate(w)
  <2>1. worker[w].pc = "loaded" /\ drafts' = [drafts EXCEPT ![h] = drafts[h] + 1]
    BY <1>1, <1>5 DEF Generate
  <2>2. drafts'[h] = drafts[h] + 1 /\ \A j \in Keys : j # h => drafts'[j] = drafts[j]
    BY <1>4, <2>1
  <2>3. ASSUME h \notin excused'
        PROVE  OnceOK(h)'
    <3>1. (\A v \in Workers : v # w => ~At(v, h)) /\ drafts[h] = 0
      BY <1>2, <2>1, <2>3, Sole
    <3>2. drafts'[h] = 1
      BY <2>2, <3>1
    <3>3. QED  BY <1>3, <3>1, <3>2, OnceHere
  <2>4. QED  BY <1>2, <1>3, <2>2, <2>3, OnceBusy
<1>6. CASE Debit(w) \/ StoreResult(w)
  <2>1. drafts' = drafts
    BY <1>6 DEF Debit, StoreResult
  <2>2. ASSUME h \notin excused'
        PROVE  OnceOK(h)'
    <3>1. (\A v \in Workers : v # w => ~At(v, h)) /\ drafts[h] \in {0, 1}
      BY <1>2, <2>2, Sole
    <3>2. QED  BY <1>3, <2>1, <3>1, OnceHere
  <2>3. QED  BY <1>2, <1>3, <2>1, <2>2, OnceBusy
<1>7. QED  BY <1>5, <1>6

\* The steps that end a run.
LEMMA EndOnce ==
  ASSUME OnceInv, NEW w \in Workers,
         Complete(w) \/ ProviderFails(w) \/ DebitRefused(w) \/ WorkerDies(w)
  PROVE  OnceParts'
<1>1. PICK h \in Keys : h = worker[w].key
  BY DEF Complete, ProviderFails, DebitRefused, WorkerDies, OnceInv, TypeInv, Moments
<1>2. /\ At(w, h) /\ UNCHANGED drafts /\ worker' = [worker EXCEPT ![w] = IdleWorker]
      /\ excused \subseteq excused'
  BY <1>1 DEF At, Complete, ProviderFails, DebitRefused, WorkerDies
<1>3. PICK n \in WorkerType : n.pc = "idle" /\ worker' = [worker EXCEPT ![w] = n]
  BY <1>1, <1>2, TakenFields, RestTypes DEF OnceInv, TypeInv
<1>4. job \in [Keys -> {"none", "open", "done"}]
  BY DEF OnceInv, TypeInv, TypeOK
<1>5. \A j \in Keys : j # h => job'[j] = job[j]
  BY <1>1, <1>4 DEF Complete, ProviderFails, DebitRefused, WorkerDies, Reopened
<1>6. ASSUME h \notin excused'
      PROVE  OnceOK(h)'
  <2>1. /\ \A v \in Workers : v # w => ~At(v, h)
        /\ drafts[h] \in {0, 1} /\ drafts'[h] = drafts[h]
        /\ drafts[h] = 1 => job[h] = "done" \/ Landing(w)
        /\ worker[w].pc = "loaded" => drafts[h] = 0
    BY <1>2, <1>6, Sole
  <2>2. drafts'[h] = 1 => job'[h] = "done"
    <3>1. CASE Complete(w)
      BY <1>1, <1>4, <3>1 DEF Complete
    <3>2. CASE ProviderFails(w)
      BY <2>1, <3>2 DEF ProviderFails
    <3>3. CASE DebitRefused(w)
      BY <1>1, <1>6, <3>3 DEF DebitRefused
    <3>4. CASE WorkerDies(w)
      BY <1>1, <1>6, <2>1, <3>4 DEF WorkerDies, Landing
    <3>5. QED  BY <3>1, <3>2, <3>3, <3>4
  <2>3. QED  BY <1>3, <2>1, <2>2, OnceHere
<1>7. QED  BY <1>2, <1>3, <1>5, <1>6, OnceBusy

LEMMA OnceStep ==
  ASSUME OnceInv, [Next]_vars
  PROVE  OnceInv'
<1>1. SUFFICES OnceParts'
  BY TypeStep DEF OnceInv
<1>2. ASSUME UNCHANGED <<worker, drafts, excused>>,
             \A k \in Keys : job[k] = "done" => job'[k] = "done"
      PROVE  OnceParts'
  BY <1>2, OnceElsewhere DEF OnceParts
<1>3. CASE \E w \in Workers :
             \/ \E k \in Keys : TakeJob(w, k)
             \/ Execute(w) \/ ProviderFails(w) \/ DebitRefused(w) \/ WorkerDies(w)
  BY <1>3, TakeOnce, RunOnce, EndOnce DEF Execute
<1>4. CASE ~\E w \in Workers :
             \/ \E k \in Keys : TakeJob(w, k)
             \/ Execute(w) \/ ProviderFails(w) \/ DebitRefused(w) \/ WorkerDies(w)
  <2>1. UNCHANGED <<worker, drafts, excused>>
    BY <1>4
       DEF Next, vars, CreateWorkflow, DeleteWorkflow, LoadEdit, CommitEdit, EditFails, RunNow,
           ItemArrives, LoadDue, QueueRun, StoreNext, ScanFails, Tick
  <2>2. UNCHANGED job \/ \E k : Ensure(k)
    BY <1>4
       DEF Next, vars, CreateWorkflow, DeleteWorkflow, LoadEdit, CommitEdit, EditFails, RunNow,
           ItemArrives, LoadDue, QueueRun, StoreNext, ScanFails, Tick
  <2>3. \A k \in Keys : job[k] = "done" => job'[k] = "done"
    BY <2>2 DEF Ensure, OnceInv, TypeInv, TypeOK
  <2>4. QED  BY <1>2, <2>1, <2>3
<1>5. QED  BY <1>3, <1>4

(***************************************************************************)
(* The theorems.                                                           *)
(***************************************************************************)
LEMMA InitAll ==
  ASSUME Init
  PROVE  TypeInv /\ SlotParts /\ QueuedHasJob /\ OnceParts
<1> USE DEF Init
<1>1. /\ \A w \in Workers : worker[w].pc = "idle"
      /\ scan.pc = "idle" /\ \A e \in Edits : edit[e].pc = "new"
  BY RestTypes DEF NoEdit
<1>2. NoWorkflow \in Workflow
  BY AutomationAssumption DEF NoWorkflow, Workflow, Slots
<1>3. TypeOK
  <2>1. IdleScan \in ScanType /\ IdleWorker \in WorkerType
    BY RestTypes DEF IdleScan, IdleWorker, ScanType, WorkerType
  <2>2. NoEdit("new") \in EditType
    BY <1>2 DEF NoEdit, EditType
  <2>3. QED  BY <1>2, <2>1, <2>2 DEF TypeOK, ScanType, WorkerType, EditType
<1>4. now \in Times
  BY AutomationAssumption DEF Times
<1>5. SlotParts
  BY <1>1 DEF SlotParts, EditsAgree, SlotRespected, Exists, NoWorkflow
<1>6. OnceParts
  BY <1>1 DEF OnceParts, OnceOK, At
<1>7. QED  BY <1>1, <1>3, <1>4, <1>5, <1>6 DEF TypeInv, Moments, QueuedHasJob

\* The workflow, its sessions and the jobs keep their types.
THEOREM TypeCorrect == Spec => []TypeOK
<1>1. Init => TypeInv
  BY InitAll
<1>2. TypeInv /\ [Next]_vars => TypeInv'
  BY TypeStep
<1>3. TypeInv => TypeOK
  BY DEF TypeInv
<1>4. QED  BY <1>1, <1>2, <1>3, PTL DEF Spec

\* _compute_next_run_at and its four callers: for days of any length and any number of
\* updates, the next run is at the workflow's local time unless a session stored what it
\* had computed from a row that was rescheduled meanwhile.
THEOREM NextRunAtSlot == Spec => []SlotRespected
<1>1. Init => SlotInv
  BY InitAll DEF SlotInv
<1>2. SlotInv /\ [Next]_vars => SlotInv'
  BY SlotStep
<1>3. SlotInv => SlotRespected
  BY DEF SlotInv, SlotParts
<1>4. QED  BY <1>1, <1>2, <1>3, PTL DEF Spec

\* scan_due_automation_workflows moves the next run past one only when that one has its
\* job, although the two are separate commits and the scan may die in between.
THEOREM NoRunSkipped == Spec => RunNotSkipped
<1>1. Init => QueueInv
  BY InitAll DEF QueueInv
<1>2. QueueInv /\ [Next]_vars => QueueInv'
  BY QueueStep
<1>3. QueueInv /\ [Next]_vars =>
        [scan' # scan /\ workflow' # workflow => job[scan.seen.next] # "none"]_vars
  BY ScanSkipsNothing
<1>4. QED  BY <1>1, <1>2, <1>3, PTL DEF Spec, RunNotSkipped

\* For any number of jobs and workers, a job stores a second draft or reply only if two
\* of its runs overlapped or one ended between the draft and its completion.
THEOREM SecondDraftHasReason == Spec => []SecondDraftExplained
<1>1. Init => OnceInv
  BY InitAll DEF OnceInv
<1>2. OnceInv /\ [Next]_vars => OnceInv'
  BY OnceStep
<1>3. OnceInv => SecondDraftExplained
  <2>1. ASSUME OnceInv, NEW k \in Keys, drafts[k] > 1, k \notin excused
        PROVE  FALSE
    BY <2>1 DEF OnceInv, OnceParts, OnceOK, TypeInv, TypeOK
  <2>2. QED  BY <2>1 DEF SecondDraftExplained
<1>4. QED  BY <1>1, <1>2, <1>3, PTL DEF Spec

(***************************************************************************)
(* Prompts: why a scope has one active prompt.  A request that is alone    *)
(* has seen the prompts of its scope as they are stored, so the siblings   *)
(* it deactivates are all there are.                                       *)
(***************************************************************************)
SeenFits(q, rows) ==
  /\ q.op = "update" => q.id \in Stored(q.seen) /\ q.seen[q.id].scope = q.scope
  /\ q.op \notin {"create", "update"} => ~q.on
  /\ q.op # "none" /\ q.alone =>
       \A i \in InScope(q.seen, q.scope) \cup InScope(rows, q.scope) : q.seen[i] = rows[i]
SeenOK(q) == SeenFits(q, prompt)
RequestsOK == \A r \in Requests : SeenOK(request[r])

\* A version is one more than those seen, and every request is a new one.
VersionsBounded ==
  /\ served <= MaxServed
  /\ \A i \in Ids : prompt[i].version <= served
  /\ \A r \in Requests : request[r].op # "none" =>
       \A i \in Ids : request[r].seen[i].version < served

PromptInv == PromptTypeOK /\ RequestsOK /\ VersionsBounded /\ OneActive

Request == [op : {"none", "create", "update", "delete", "agent", "connection"}, id : Ids \cup {None},
            scope : Scopes, on : BOOLEAN, seen : [Ids -> Row], alone : BOOLEAN]

LEMMA PromptTypes ==
  ASSUME PromptTypeOK
  PROVE  /\ prompt \in [Ids -> Row]
         /\ \A r \in Requests : request[r] \in Request
         /\ \A r \in Requests : /\ request[r].seen \in [Ids -> Row] /\ request[r].scope \in Scopes
                                /\ request[r].on \in BOOLEAN /\ request[r].alone \in BOOLEAN
<1>1. prompt \in [Ids -> Row] /\ request \in [Requests -> Request]
  BY DEF PromptTypeOK, Request
<1>2. QED  BY <1>1 DEF Request

LEMMA NoPromptType == NoPrompt \in Row /\ NoPrompt.version = 0 /\ Default \in Scopes
  BY DEF NoPrompt, Row, Default, Scopes

LEMMA NoRequestOK == NoRequest \in Request /\ NoRequest.op = "none" /\ ~NoRequest.on
  BY NoPromptType DEF NoRequest, Request

(***************************************************************************)
(* Versions.                                                               *)
(***************************************************************************)
LEMMA Smallest ==
  ASSUME NEW T \in SUBSET Nat, T # {}
  PROVE  \E n \in T : \A m \in T : n <= m
<1>1. \A m, n \in Nat : <<m, n>> \in OpToRel(<, Nat) <=> m < n
  BY DEF OpToRel
<1>2. \E n \in T : \A m \in T : ~(<<m, n>> \in OpToRel(<, Nat))
  BY NatLessThanWellFounded, WFMin
<1>3. PICK n \in T : \A m \in T : ~(<<m, n>> \in OpToRel(<, Nat))
  BY <1>2
<1>4. \A m \in T : ~(m < n)
  BY <1>1, <1>3
<1>5. \A m \in T : n <= m
  BY <1>4
<1>6. QED  BY <1>5

\* _next_prompt_version finds one that is higher than all of the scope, and no higher
\* than the number of requests so far.
LEMMA NextVersionBounded ==
  ASSUME NEW seen \in [Ids -> Row], NEW scope, NEW n \in Nat \ {0}, n <= MaxServed,
         \A i \in Ids : seen[i].version < n
  PROVE  NextVersion(seen, scope) \in 1..n
<1>0. MaxServed \in Nat /\ \A i \in Ids : seen[i].version \in Nat
  BY PromptsAssumption DEF Row
<1> DEFINE Higher == {v \in 1..(MaxServed + 1) : \A i \in InScope(seen, scope) : seen[i].version < v}
           Is(v) == /\ \A i \in InScope(seen, scope) : seen[i].version < v
                    /\ v = 1 \/ \E i \in InScope(seen, scope) : seen[i].version = v - 1
<1>1. \A i \in InScope(seen, scope) : i \in Ids
  BY DEF InScope, Stored
<1>2. Higher \in SUBSET Nat /\ \A v \in Higher : v \in 1..(MaxServed + 1)
  OBVIOUS
<1>3. Higher # {}
  <2>1. MaxServed + 1 \in Higher
    BY <1>0, <1>1
  <2>2. QED  BY <2>1
<1>4. PICK v \in Higher : \A w \in Higher : v <= w
  <2> HIDE DEF Higher
  <2>1. QED  BY <1>2, <1>3, Smallest
<1>5. v = 1 \/ \E i \in InScope(seen, scope) : seen[i].version = v - 1
  <2>1. SUFFICES ASSUME v # 1 PROVE \E i \in InScope(seen, scope) : seen[i].version = v - 1
    OBVIOUS
  <2>2. v - 1 \in 1..(MaxServed + 1) /\ v - 1 \notin Higher
    <3>1. v \in Nat /\ v - 1 \in 1..(MaxServed + 1)
      BY <1>0, <1>2, <2>1
    <3> HIDE DEF Higher
    <3>2. v - 1 \in Higher => v <= v - 1
      BY <1>4
    <3>3. QED  BY <3>1, <3>2
  <2>3. PICK i \in InScope(seen, scope) : ~(seen[i].version < v - 1)
    BY <2>2
  <2>4. seen[i].version < v /\ seen[i].version \in Nat /\ v \in Nat
    BY <1>0, <1>1, <1>2
  <2>5. QED  BY <2>3, <2>4
<1>6. v \in 1..(MaxServed + 1) /\ Is(v)
  BY <1>5
<1>7. NextVersion(seen, scope) = CHOOSE u \in 1..(MaxServed + 1) : Is(u)
  BY Zenon DEF NextVersion
<1> DEFINE w == CHOOSE u \in 1..(MaxServed + 1) : Is(u)
<1>8. w \in 1..(MaxServed + 1) /\ Is(w)
  <2> HIDE DEF Is
  <2>1. QED  BY <1>6, Zenon
<1> HIDE DEF w
<1>9. w \in 1..n
  <2>1. CASE w = 1
    BY <2>1
  <2>2. CASE \E i \in InScope(seen, scope) : seen[i].version = w - 1
    BY <1>0, <1>1, <1>8, <2>2
  <2>3. QED  BY <1>8, <2>1, <2>2
<1>10. QED  BY <1>7, <1>9 DEF w

(***************************************************************************)
(* What a commit writes.                                                   *)
(***************************************************************************)
\* The deactivation of the siblings changes nothing else.
LEMMA DeactivatedRows ==
  ASSUME PromptTypeOK, NEW r \in Requests, NEW id
  PROVE  LET new == Deactivated(r, id)
             ids == Siblings(request[r].seen, request[r].scope, id)
         IN  /\ new \in [Ids -> Row]
             /\ \A j \in Ids :
                  /\ new[j].scope = prompt[j].scope /\ new[j].version = prompt[j].version
                  /\ new[j].active <=> prompt[j].active /\ ~(request[r].on /\ j \in ids)
<1> DEFINE ids == Siblings(request[r].seen, request[r].scope, id)
           off == IF request[r].on THEN ids ELSE {}
           new == Deactivated(r, id)
<1>1. new = [j \in Ids |-> [prompt[j] EXCEPT !.active = prompt[j].active /\ j \notin off]]
  BY PromptTypes, Zenon DEF Deactivated
<1> HIDE DEF off, new
<1>2. ASSUME NEW j \in Ids
      PROVE  /\ new[j] \in Row
             /\ new[j].scope = prompt[j].scope /\ new[j].version = prompt[j].version
             /\ new[j].active <=> prompt[j].active /\ j \notin off
  <2> DEFINE b == prompt[j].active /\ j \notin off
  <2>1. b \in BOOLEAN /\ prompt[j] \in Row
    BY PromptTypes
  <2>2. new[j] = [prompt[j] EXCEPT !.active = b]
    BY <1>1
  <2> HIDE DEF b
  <2>3. new[j] \in Row /\ new[j].active = b
        /\ new[j].scope = prompt[j].scope /\ new[j].version = prompt[j].version
    BY <2>1, <2>2 DEF Row
  <2>4. QED  BY <2>3 DEF b
<1>3. new \in [Ids -> Row]
  <2>1. DOMAIN new = Ids /\ new = [j \in Ids |-> new[j]]
    BY <1>1
  <2>2. QED  BY <1>2, <2>1
<1>4. QED  BY <1>2, <1>3 DEF off, new

\* A create or an update writes one row and deactivates others.
Target(r) == IF request[r].op = "create" THEN Fresh ELSE request[r].id
Wrote(r) ==
  LET id == Target(r)
      ids == Siblings(request[r].seen, request[r].scope, id)
  IN  /\ prompt' \in [Ids -> Row]
      /\ \A j \in Ids : j # id =>
           /\ prompt'[j].scope = prompt[j].scope /\ prompt'[j].version = prompt[j].version
           /\ prompt'[j].active <=> prompt[j].active /\ ~(request[r].on /\ j \in ids)
      /\ request' = Finished(r) /\ Activation(r, id)
      /\ UNCHANGED <<agents, conns, served>>

LEMMA FreshIsSpare ==
  ASSUME \E i \in Ids : Spare(i)
  PROVE  Fresh \in Ids /\ Spare(Fresh)
  BY Zenon DEF Fresh

LEMMA CreateWrites ==
  ASSUME PromptInv, NEW r \in Requests, CommitCreate(r)
  PROVE  /\ Wrote(r) /\ Target(r) \in Ids /\ Spare(Target(r))
         /\ prompt'[Target(r)].scope = request[r].scope
         /\ prompt'[Target(r)].version \in 1..served
         /\ prompt'[Target(r)].active = request[r].on
<1> DEFINE q == request[r]
           v == NextVersion(q.seen, q.scope)
           row == [scope |-> q.scope, version |-> v, active |-> q.on]
           old == Deactivated(r, Fresh)
<1>1. /\ q.op = "create" /\ Target(r) = Fresh /\ Fresh \in Ids /\ Spare(Fresh)
      /\ prompt' = [old EXCEPT ![Fresh] = row]
      /\ Activation(r, Fresh) /\ request' = Finished(r)
      /\ UNCHANGED <<agents, conns, link, served>>
  BY FreshIsSpare DEF CommitCreate, Target
<1>2. q.seen \in [Ids -> Row] /\ q.scope \in Scopes /\ q.on \in BOOLEAN
  BY PromptTypes DEF PromptInv
<1>3. v \in 1..served /\ v \in Nat /\ v # 0
  <2>1. served \in Nat /\ served <= MaxServed /\ \A i \in Ids : q.seen[i].version < served
    BY <1>1 DEF PromptInv, VersionsBounded, PromptTypeOK
  <2>2. q.seen[Fresh].version \in Nat
    BY <1>1, <1>2 DEF Row
  <2>3. served \in Nat \ {0}
    BY <1>1, <2>1, <2>2
  <2>4. v \in 1..served
    BY <1>2, <2>1, <2>3, NextVersionBounded
  <2>5. QED  BY <2>3, <2>4
<1> HIDE DEF v
<1>4. row \in Row /\ row.scope = q.scope /\ row.version = v /\ row.active = q.on
  BY <1>2, <1>3 DEF Row
<1> HIDE DEF row
<1>5. old \in [Ids -> Row]
  BY DeactivatedRows DEF PromptInv
<1>6. /\ prompt' \in [Ids -> Row] /\ prompt'[Fresh] = row
      /\ \A j \in Ids : j # Fresh => prompt'[j] = old[j]
  BY <1>1, <1>4, <1>5
<1>7. Wrote(r)
  BY <1>1, <1>6, DeactivatedRows DEF Wrote, PromptInv
<1>8. QED  BY <1>1, <1>3, <1>4, <1>6, <1>7

LEMMA UpdateWrites ==
  ASSUME PromptInv, NEW r \in Requests, CommitUpdate(r)
  PROVE  /\ Wrote(r) /\ Target(r) \in Ids
         /\ Target(r) \in Stored(request[r].seen)
         /\ request[r].seen[Target(r)].scope = request[r].scope
         /\ prompt'[Target(r)].scope = prompt[Target(r)].scope
         /\ prompt'[Target(r)].version = prompt[Target(r)].version
         /\ prompt'[Target(r)].active =
              AssignedActive(request[r].on, request[r].seen[Target(r)].active,
                             prompt[Target(r)].active)
<1> DEFINE q == request[r]
           i == request[r].id
           old == Deactivated(r, i)
           b == AssignedActive(q.on, q.seen[i].active, old[i].active)
<1>1. /\ q.op = "update" /\ Target(r) = i
      /\ prompt' = [old EXCEPT ![i].active = b]
      /\ Activation(r, i) /\ request' = Finished(r)
      /\ UNCHANGED <<agents, conns, link, served>>
  BY DEF CommitUpdate, Target
<1>2. i \in Stored(q.seen) /\ i \in Ids /\ q.seen[i].scope = q.scope
  BY <1>1 DEF PromptInv, RequestsOK, SeenOK, SeenFits, Stored
<1>3. /\ old \in [Ids -> Row] /\ old[i] \in Row
      /\ old[i].scope = prompt[i].scope /\ old[i].version = prompt[i].version
      /\ old[i].active = prompt[i].active
  <2>1. i \notin Siblings(q.seen, q.scope, i)
    BY DEF Siblings
  <2>2. old \in [Ids -> Row] /\ old[i].scope = prompt[i].scope
        /\ old[i].version = prompt[i].version /\ (old[i].active <=> prompt[i].active)
    BY <1>2, <2>1, DeactivatedRows DEF PromptInv
  <2>3. old[i].active \in BOOLEAN /\ prompt[i].active \in BOOLEAN
    BY <1>2, <2>2, PromptTypes DEF Row, PromptInv
  <2>4. QED  BY <1>2, <2>2, <2>3
<1>4. b \in BOOLEAN
  <2>1. q.on \in BOOLEAN /\ old[i].active \in BOOLEAN
    BY <1>3, PromptTypes DEF Row, PromptInv
  <2>2. QED  BY <2>1 DEF AssignedActive
<1> HIDE DEF b
<1>5. [old[i] EXCEPT !.active = b] \in Row
      /\ [old[i] EXCEPT !.active = b].active = b
      /\ [old[i] EXCEPT !.active = b].scope = old[i].scope
      /\ [old[i] EXCEPT !.active = b].version = old[i].version
  BY <1>3, <1>4 DEF Row
<1>6. prompt' = [old EXCEPT ![i] = [old[i] EXCEPT !.active = b]]
  BY <1>1, <1>2, <1>3
<1>7. /\ prompt' \in [Ids -> Row] /\ prompt'[i] = [old[i] EXCEPT !.active = b]
      /\ \A j \in Ids : j # i => prompt'[j] = old[j]
  <2> DEFINE row == [old[i] EXCEPT !.active = b]
  <2>1. row \in Row
    BY <1>5
  <2> HIDE DEF row
  <2>2. prompt' = [old EXCEPT ![i] = row]
    BY <1>6 DEF row
  <2>3. /\ prompt' \in [Ids -> Row] /\ prompt'[i] = row
        /\ \A j \in Ids : j # i => prompt'[j] = old[j]
    BY <1>2, <1>3, <2>1, <2>2
  <2>4. QED  BY <2>3 DEF row
<1>8. Wrote(r)
  BY <1>1, <1>7, DeactivatedRows DEF Wrote, PromptInv
<1>9. QED  BY <1>1, <1>2, <1>3, <1>5, <1>7, <1>8 DEF b

(***************************************************************************)
(* The requests that go on.  One whose scope the commit changed is no      *)
(* longer alone, so the others have still seen what is stored.             *)
(***************************************************************************)
LEMMA FinishedRequests ==
  ASSUME PromptInv, prompt' \in [Ids -> Row], served' = served, NEW r \in Requests,
         request' = Finished(r), \A i \in Ids : prompt'[i].version <= served
  PROVE  request' \in [Requests -> Request] /\ RequestsOK' /\ VersionsBounded'
<1> DEFINE alone(q) == request[q].alone /\ request[q].scope \notin ChangedScopes
<1>1. request' = [q \in Requests |->
        IF q = r \/ request[q].op = "none" THEN NoRequest
        ELSE [request[q] EXCEPT !.alone = alone(q)]]
  BY PromptTypes DEF Finished, PromptInv, Request
<1>2. ASSUME NEW q \in Requests
      PROVE  /\ request'[q] \in Request /\ SeenOK(request[q])'
             /\ request'[q].op # "none" =>
                  request[q].op # "none" /\ request'[q].seen = request[q].seen
  <2>1. CASE q = r \/ request[q].op = "none"
    <3>1. request'[q] = NoRequest
      BY <1>1, <2>1
    <3> DEFINE new == request'[q]
    <3>2. new \in Request /\ new.op = "none" /\ ~new.on
      BY <3>1, NoRequestOK
    <3> HIDE DEF new
    <3>3. SeenFits(new, prompt')
      BY <3>2 DEF SeenFits
    <3>4. SeenOK(request[q])'
      BY <3>3 DEF SeenOK, new
    <3>5. QED  BY <3>2, <3>4 DEF new
  <2>2. CASE ~(q = r \/ request[q].op = "none")
    <3> DEFINE b == alone(q)
               new == request'[q]
    <3>1. new = [request[q] EXCEPT !.alone = b]
      BY <1>1, <2>2
    <3>2. b \in BOOLEAN /\ request[q] \in Request
      BY PromptTypes DEF PromptInv
    <3> HIDE DEF b, new
    <3>3. /\ new \in Request /\ new.op = request[q].op /\ new.id = request[q].id
          /\ new.scope = request[q].scope /\ new.on = request[q].on
          /\ new.seen = request[q].seen /\ new.alone = b
      BY <3>1, <3>2 DEF Request
    <3>4. SeenOK(request[q])
      BY DEF PromptInv, RequestsOK
    <3>5. ASSUME b, new.op # "none",
                 NEW i \in InScope(new.seen, new.scope) \cup InScope(prompt', new.scope)
          PROVE  new.seen[i] = prompt'[i]
      <4> DEFINE t == request[q].scope
      <4>1. i \in Ids /\ request[q].alone /\ t \notin ChangedScopes
        BY <3>5 DEF InScope, Stored, b
      <4>2. CASE prompt'[i] = prompt[i]
        <5>1. i \in InScope(request[q].seen, t) \cup InScope(prompt, t)
          BY <3>3, <3>5, <4>1, <4>2 DEF InScope, Stored
        <5>2. QED  BY <2>2, <3>3, <3>4, <4>1, <4>2, <5>1 DEF SeenOK, SeenFits
      <4>3. CASE prompt'[i] # prompt[i]
        <5>1. i \notin InScope(prompt, t) /\ i \notin InScope(prompt', t)
          BY <4>1, <4>3 DEF ChangedScopes, InScope, Stored
        <5>2. i \in InScope(request[q].seen, t)
          BY <3>3, <3>5, <5>1
        <5>3. request[q].seen[i] = prompt[i]
          BY <2>2, <3>4, <4>1, <5>2 DEF SeenOK, SeenFits
        <5>4. QED  BY <5>1, <5>2, <5>3 DEF InScope, Stored
      <4>4. QED  BY <4>2, <4>3
    <3>6. SeenFits(new, prompt')
      BY <3>3, <3>4, <3>5 DEF SeenOK, SeenFits
    <3>7. SeenOK(request[q])'
      BY <3>6 DEF SeenOK, new
    <3>8. QED  BY <2>2, <3>3, <3>7 DEF new
  <2>3. QED  BY <2>1, <2>2
<1>3. request' \in [Requests -> Request]
  BY <1>1, <1>2
<1>4. QED  BY <1>2, <1>3 DEF RequestsOK, VersionsBounded, PromptInv

\* What keeps the active prompts of a scope one: every other one is as it was, and one
\* that has just become active is the only one of its scope.
LEMMA OneActiveKept ==
  ASSUME OneActive, NEW id,
         \A i \in Active(prompt') \ (moved' \cup crossed') : i # id =>
           i \in Active(prompt) \ (moved \cup crossed) /\ prompt'[i].scope = prompt[i].scope,
         id \in Active(prompt') \ (moved' \cup crossed') =>
           \A j \in Active(prompt') : prompt'[j].scope = prompt'[id].scope => j = id
  PROVE  OneActive'
  BY DEF OneActive

\* A request that activates a prompt, alone, leaves it the one active in its scope.
LEMMA Activates ==
  ASSUME PromptInv, NEW r \in Requests, CommitCreate(r) \/ CommitUpdate(r),
         request[r].on, request[r].alone
  PROVE  LET id == Target(r)
         IN  /\ id \in Active(prompt') /\ prompt'[id].scope = request[r].scope
             /\ \A j \in Active(prompt') : prompt'[j].scope = request[r].scope => j = id
<1> DEFINE q == request[r]
           id == Target(r)
<1>1. Wrote(r) /\ id \in Ids
  BY CreateWrites, UpdateWrites
<1>2. q.op # "none" /\ SeenOK(q)
  BY DEF CommitCreate, CommitUpdate, PromptInv, RequestsOK
<1>3. \A i \in InScope(q.seen, q.scope) \cup InScope(prompt, q.scope) : q.seen[i] = prompt[i]
  BY <1>2 DEF SeenOK, SeenFits
<1>4. id \in Active(prompt') /\ prompt'[id].scope = q.scope
  <2>1. CASE CommitCreate(r)
    <3>1. prompt'[id].version \in 1..served /\ served \in Nat
      BY <2>1, CreateWrites DEF PromptInv, PromptTypeOK
    <3>2. prompt'[id].version > 0
      BY <3>1
    <3>3. QED  BY <1>1, <2>1, <3>2, CreateWrites DEF Active, Stored
  <2>2. CASE CommitUpdate(r)
    <3>1. id \in InScope(q.seen, q.scope)
      BY <2>2, UpdateWrites DEF InScope
    <3>2. q.seen[id] = prompt[id]
      BY <1>3, <3>1
    <3>3. /\ prompt[id].version > 0 /\ prompt[id].scope = q.scope
      BY <3>1, <3>2 DEF InScope, Stored
    <3>4. prompt'[id].active = AssignedActive(q.on, prompt[id].active, prompt[id].active)
      BY <2>2, <3>2, UpdateWrites
    <3>5. q.on \in BOOLEAN /\ prompt[id].active \in BOOLEAN
      BY <1>1, PromptTypes DEF Row, PromptInv
    <3>6. prompt'[id].active
      BY <3>4, <3>5 DEF AssignedActive
    <3>7. QED  BY <1>1, <2>2, <3>3, <3>6, UpdateWrites DEF Active, Stored
  <2>3. QED  BY <2>1, <2>2
<1>5. ASSUME NEW j \in Active(prompt'), prompt'[j].scope = q.scope, j # id
      PROVE  FALSE
  <2>1. j \in Ids /\ prompt'[j].version > 0 /\ prompt'[j].active
    BY DEF Active, Stored
  <2>2. /\ prompt[j].scope = q.scope /\ prompt[j].version > 0 /\ prompt[j].active
        /\ j \notin Siblings(q.seen, q.scope, id)
    BY <1>1, <1>5, <2>1 DEF Wrote
  <2>3. j \in InScope(prompt, q.scope)
    BY <2>1, <2>2 DEF InScope, Stored
  <2>4. q.seen[j] = prompt[j]
    BY <1>3, <2>3
  <2>5. QED  BY <1>5, <2>1, <2>2, <2>4 DEF Siblings, Active, InScope, Stored
<1>6. QED  BY <1>4, <1>5

LEMMA WriteKeepsOne ==
  ASSUME PromptInv, NEW r \in Requests, CommitCreate(r) \/ CommitUpdate(r)
  PROVE  OneActive' /\ moved' \in SUBSET Ids /\ crossed' \in SUBSET Ids
<1> DEFINE q == request[r]
           id == Target(r)
<1>1. Wrote(r) /\ id \in Ids
  BY CreateWrites, UpdateWrites
<1>2. Activation(r, id)
  BY <1>1 DEF Wrote
<1>3. /\ moved' \in SUBSET Ids /\ crossed' \in SUBSET Ids
      /\ moved \subseteq moved' \cup {id} /\ crossed \subseteq crossed' \cup {id}
  BY <1>1, <1>2 DEF Activation, PromptInv, PromptTypeOK
<1>4. ASSUME NEW i \in Active(prompt') \ (moved' \cup crossed'), i # id
      PROVE  i \in Active(prompt) \ (moved \cup crossed) /\ prompt'[i].scope = prompt[i].scope
  BY <1>1, <1>3, <1>4 DEF Wrote, Active, Stored
<1>5. CASE q.on /\ q.alone
  <2>1. \A j \in Active(prompt') : prompt'[j].scope = prompt'[id].scope => j = id
    BY <1>5, Activates
  <2>2. QED  BY <1>3, <1>4, <2>1, OneActiveKept DEF PromptInv
<1>6. CASE q.on /\ ~q.alone
  <2>1. id \notin Active(prompt') \ (moved' \cup crossed')
    BY <1>2, <1>6 DEF Activation, Active
  <2>2. QED  BY <1>3, <1>4, <2>1, OneActiveKept DEF PromptInv
<1>7. CASE ~q.on
  <2>1. UNCHANGED <<moved, crossed>>
    BY <1>2, <1>7 DEF Activation
  <2>2. id \in Active(prompt') => id \in Active(prompt) /\ prompt'[id].scope = prompt[id].scope
    <3>1. CASE CommitCreate(r)
      BY <1>7, <3>1, CreateWrites DEF Active
    <3>2. CASE CommitUpdate(r)
      <4>1. q.on \in BOOLEAN /\ prompt[id].active \in BOOLEAN
        BY <1>1, PromptTypes DEF Row, PromptInv
      <4>2. prompt'[id].active => prompt[id].active
        BY <1>7, <3>2, <4>1, UpdateWrites DEF AssignedActive
      <4>3. QED  BY <1>1, <3>2, <4>2, UpdateWrites DEF Active, Stored
    <3>3. QED  BY <3>1, <3>2
  <2>3. \A i \in Active(prompt') \ (moved' \cup crossed') :
          i \in Active(prompt) \ (moved \cup crossed) /\ prompt'[i].scope = prompt[i].scope
    BY <1>4, <2>1, <2>2
  <2>4. OneActive'
    BY <2>3 DEF PromptInv, OneActive
  <2>5. QED  BY <1>3, <2>4
<1>8. QED  BY <1>5, <1>6, <1>7

(***************************************************************************)
(* The steps.                                                              *)
(***************************************************************************)
LEMMA BeginKeeps ==
  ASSUME PromptInv, NEW r \in Requests,
         NEW op \in {"create", "update", "delete", "agent", "connection"},
         NEW id \in Ids \cup {None}, NEW scope \in Scopes, NEW on \in BOOLEAN,
         op = "update" => id \in Stored(prompt) /\ prompt[id].scope = scope,
         op \notin {"create", "update"} => ~on,
         Begin(r, op, id, scope, on)
  PROVE  PromptInv'
<1> DEFINE q == [op |-> op, id |-> id, scope |-> scope, on |-> on, seen |-> prompt, alone |-> TRUE]
<1>1. /\ served < MaxServed /\ served' = served + 1
      /\ request' = [request EXCEPT ![r] = q]
      /\ UNCHANGED <<agents, conns, link, prompt, moved, crossed>>
  BY DEF Begin
<1>2. /\ q \in Request /\ q.op = op /\ q.id = id /\ q.scope = scope /\ q.on = on
      /\ q.seen = prompt
  BY PromptTypes DEF PromptInv, Request
<1> HIDE DEF q
<1>3. request \in [Requests -> Request]
  BY DEF PromptInv, PromptTypeOK, Request
<1>4. /\ request' \in [Requests -> Request] /\ request'[r] = q
      /\ \A p \in Requests : p # r => request'[p] = request[p]
  BY <1>1, <1>2, <1>3
<1>5. PromptTypeOK'
  BY <1>1, <1>4 DEF PromptInv, PromptTypeOK, Request
<1>6. RequestsOK'
  <2>1. SeenFits(q, prompt)
    BY <1>2 DEF SeenFits
  <2>2. ASSUME NEW p \in Requests PROVE SeenFits(request'[p], prompt')
    BY <1>1, <1>4, <2>1 DEF PromptInv, RequestsOK, SeenOK
  <2>3. QED  BY <2>2 DEF RequestsOK, SeenOK
<1>7. VersionsBounded'
  <2>1. MaxServed \in Nat /\ served \in Nat /\ \A i \in Ids : prompt[i].version \in Nat
    BY PromptTypes, PromptsAssumption DEF PromptInv, PromptTypeOK, Row
  <2>2. \A p \in Requests : \A i \in Ids : request[p].seen[i].version \in Nat
    BY PromptTypes DEF PromptInv, Row
  <2>3. served' <= MaxServed /\ \A i \in Ids : prompt'[i].version <= served'
    BY <1>1, <2>1 DEF PromptInv, VersionsBounded
  <2>4. ASSUME NEW p \in Requests, request'[p].op # "none", NEW i \in Ids
        PROVE  request'[p].seen[i].version < served'
    <3>1. CASE p = r
      BY <1>1, <1>2, <1>4, <2>1, <3>1 DEF PromptInv, VersionsBounded
    <3>2. CASE p # r
      <4>1. request[p].seen[i].version < served
        BY <1>4, <2>4, <3>2 DEF PromptInv, VersionsBounded
      <4>2. QED  BY <1>1, <1>4, <2>1, <2>2, <3>2, <4>1
    <3>3. QED  BY <3>1, <3>2
  <2>5. QED  BY <2>3, <2>4 DEF VersionsBounded
<1>8. OneActive'
  BY <1>1 DEF PromptInv, OneActive, Active, Stored
<1>9. QED  BY <1>5, <1>6, <1>7, <1>8 DEF PromptInv

LEMMA BeginRequestKeeps ==
  ASSUME PromptInv, NEW r \in Requests, BeginRequest(r)
  PROVE  PromptInv'
<1>1. agents \subseteq Agents /\ conns \subseteq Conns
  BY DEF PromptInv, PromptTypeOK
<1>2. CASE BeginCreate(r)
  <2>1. PICK a \in agents \cup {None}, c \in conns \cup {None}, on \in BOOLEAN :
          Begin(r, "create", None, <<a, c>>, on)
    BY <1>2 DEF BeginCreate
  <2>2. <<a, c>> \in Scopes
    BY <1>1 DEF Scopes
  <2>3. QED  BY <2>1, <2>2, BeginKeeps
<1>3. CASE BeginUpdate(r)
  <2>1. PICK i \in Stored(prompt), on \in BOOLEAN : Begin(r, "update", i, prompt[i].scope, on)
    BY <1>3 DEF BeginUpdate
  <2>2. i \in Ids /\ prompt[i].scope \in Scopes
    BY PromptTypes DEF Stored, Row, PromptInv
  <2>3. QED  BY <2>1, <2>2, BeginKeeps
<1>4. CASE BeginDelete(r)
  <2>1. PICK i \in Stored(prompt) : Begin(r, "delete", i, prompt[i].scope, FALSE)
    BY <1>4 DEF BeginDelete
  <2>2. i \in Ids /\ prompt[i].scope \in Scopes
    BY PromptTypes DEF Stored, Row, PromptInv
  <2>3. QED  BY <2>1, <2>2, BeginKeeps
<1>5. CASE BeginDeleteAgent(r)
  <2>1. PICK a \in agents : Begin(r, "agent", None, <<a, None>>, FALSE)
    BY <1>5 DEF BeginDeleteAgent
  <2>2. <<a, None>> \in Scopes
    BY <1>1 DEF Scopes
  <2>3. QED  BY <2>1, <2>2, BeginKeeps
<1>6. CASE BeginDeleteConnection(r)
  <2>1. PICK c \in conns : Begin(r, "connection", None, <<None, c>>, FALSE)
    BY <1>6 DEF BeginDeleteConnection
  <2>2. <<None, c>> \in Scopes
    BY <1>1 DEF Scopes
  <2>3. QED  BY <2>1, <2>2, BeginKeeps
<1>7. QED  BY <1>2, <1>3, <1>4, <1>5, <1>6 DEF BeginRequest

LEMMA WriteKeeps ==
  ASSUME PromptInv, NEW r \in Requests, CommitCreate(r) \/ CommitUpdate(r)
  PROVE  PromptInv'
<1>1. /\ prompt' \in [Ids -> Row] /\ request' = Finished(r)
      /\ UNCHANGED <<agents, conns, link, served>>
  BY CreateWrites, UpdateWrites DEF Wrote, CommitCreate, CommitUpdate
<1>2. \A i \in Ids : prompt'[i].version <= served
  <2>1. served \in Nat /\ \A i \in Ids : prompt[i].version <= served
    BY DEF PromptInv, VersionsBounded, PromptTypeOK
  <2>2. prompt'[Target(r)].version <= served /\ Target(r) \in Ids
    BY <2>1, CreateWrites, UpdateWrites
  <2>3. \A i \in Ids : i # Target(r) => prompt'[i].version = prompt[i].version
    BY CreateWrites, UpdateWrites DEF Wrote
  <2>4. QED  BY <2>1, <2>2, <2>3
<1>3. request' \in [Requests -> Request] /\ RequestsOK' /\ VersionsBounded'
  BY <1>1, <1>2, FinishedRequests
<1>4. OneActive' /\ moved' \in SUBSET Ids /\ crossed' \in SUBSET Ids
  BY WriteKeepsOne
<1>5. PromptTypeOK'
  BY <1>1, <1>3, <1>4 DEF PromptInv, PromptTypeOK, Request
<1>6. QED  BY <1>3, <1>4, <1>5 DEF PromptInv

\* The removal of prompts, and their leaving the scope of a deleted connection.
LEMMA TakenAway ==
  ASSUME PromptInv, NEW r \in Requests, NEW ids \in SUBSET Ids, prompt' = Removed(ids),
         Forgotten(ids), request' = Finished(r), served' = served,
         agents' \subseteq Agents, conns' \subseteq Conns, link' \in [Agents -> Conns \cup {None}]
  PROVE  PromptInv'
<1>1. /\ prompt \in [Ids -> Row] /\ NoPrompt \in Row /\ NoPrompt.version = 0 /\ served \in Nat
      /\ moved \subseteq Ids /\ crossed \subseteq Ids
      /\ \A i \in Ids : prompt[i].version <= served
  BY NoPromptType DEF PromptInv, PromptTypeOK, VersionsBounded
<1>2. \A i \in Ids : prompt'[i] = IF i \in ids THEN NoPrompt ELSE prompt[i]
  BY DEF Removed
<1>3. prompt' \in [Ids -> Row] /\ \A i \in Ids : prompt'[i].version <= served
  <2>1. prompt' \in [Ids -> Row]
    BY <1>1 DEF Removed
  <2>2. QED  BY <1>1, <1>2, <2>1
<1>4. request' \in [Requests -> Request] /\ RequestsOK' /\ VersionsBounded'
  BY <1>3, FinishedRequests
<1>5. OneActive'
  <2>1. \A i \in Active(prompt') \ (moved' \cup crossed') :
          /\ i \in Active(prompt) \ (moved \cup crossed)
          /\ prompt'[i].scope = prompt[i].scope
    BY <1>1, <1>2 DEF Active, Stored, Forgotten
  <2>2. QED  BY <2>1 DEF OneActive, PromptInv
<1>6. moved' \subseteq Ids /\ crossed' \subseteq Ids
  BY <1>1 DEF Forgotten
<1>7. PromptTypeOK'
  BY <1>1, <1>3, <1>4, <1>6 DEF PromptTypeOK, Request
<1>8. QED  BY <1>4, <1>5, <1>7 DEF PromptInv

LEMMA DeleteConnectionKeeps ==
  ASSUME PromptInv, NEW r \in Requests, CommitDeleteConnection(r)
  PROVE  PromptInv'
<1> DEFINE q == request[r]
           c == request[r].scope[2]
           mine == {i \in Stored(q.seen) : q.seen[i].scope[2] = c}
<1>1. /\ conns' = conns \ {c} /\ link' = [a \in Agents |-> IF link[a] = c THEN None ELSE link[a]]
      /\ prompt' = [i \in Ids |-> IF i \in mine THEN [prompt[i] EXCEPT !.scope[2] = None]
                                  ELSE prompt[i]]
      /\ moved' = moved \cup mine /\ request' = Finished(r)
      /\ UNCHANGED <<agents, served, crossed>>
  BY DEF CommitDeleteConnection
<1>2. mine \in SUBSET Ids
  BY DEF Stored
<1> HIDE DEF mine, c
<1>3. /\ prompt \in [Ids -> Row] /\ served \in Nat
      /\ moved \subseteq Ids /\ crossed \subseteq Ids
      /\ agents \subseteq Agents /\ conns \subseteq Conns /\ link \in [Agents -> Conns \cup {None}]
      /\ \A i \in Ids : prompt[i].version <= served
  BY DEF PromptInv, PromptTypeOK, VersionsBounded
<1>4. ASSUME NEW i \in Ids
      PROVE  /\ prompt'[i] \in Row /\ prompt'[i].version = prompt[i].version
             /\ prompt'[i].active = prompt[i].active
             /\ i \notin mine => prompt'[i] = prompt[i]
  <2>1. CASE i \notin mine
    BY <1>1, <1>3, <2>1
  <2>2. CASE i \in mine
    <3>1. prompt[i] \in Row /\ prompt[i].scope \in (Agents \cup {None}) \X (Conns \cup {None})
      BY <1>3 DEF Row, Scopes
    <3> DEFINE s == [prompt[i].scope EXCEPT ![2] = None]
    <3>2. s \in Scopes
      BY <3>1 DEF Scopes
    <3>3. prompt'[i] = [prompt[i] EXCEPT !.scope = s]
      BY <1>1, <2>2, <3>1 DEF Row
    <3> HIDE DEF s
    <3>4. QED  BY <2>2, <3>1, <3>2, <3>3 DEF Row
  <2>3. QED  BY <2>1, <2>2
<1>5. prompt' \in [Ids -> Row] /\ \A i \in Ids : prompt'[i].version <= served
  BY <1>1, <1>3, <1>4
<1>6. request' \in [Requests -> Request] /\ RequestsOK' /\ VersionsBounded'
  BY <1>1, <1>5, FinishedRequests
<1>7. OneActive'
  <2>1. \A i \in Active(prompt') \ (moved' \cup crossed') :
          /\ i \in Active(prompt) \ (moved \cup crossed)
          /\ prompt'[i].scope = prompt[i].scope
    BY <1>1, <1>4 DEF Active, Stored
  <2>2. QED  BY <2>1 DEF OneActive, PromptInv
<1>8. PromptTypeOK'
  BY <1>1, <1>2, <1>3, <1>5, <1>6 DEF PromptTypeOK, Request
<1>9. QED  BY <1>6, <1>7, <1>8 DEF PromptInv

LEMMA CommitKeeps ==
  ASSUME PromptInv, NEW r \in Requests, CommitRequest(r)
  PROVE  PromptInv'
<1>1. CASE CommitCreate(r) \/ CommitUpdate(r)
  BY <1>1, WriteKeeps
<1>2. CASE CommitDelete(r)
  <2> DEFINE ids == {request[r].id} \cap Ids
  <2>1. prompt' = Removed({request[r].id}) /\ Forgotten({request[r].id})
    BY <1>2 DEF CommitDelete
  <2>2. prompt' = Removed(ids) /\ Forgotten(ids)
    <3>1. Removed({request[r].id}) = Removed(ids)
      BY DEF Removed
    <3>2. moved \subseteq Ids /\ crossed \subseteq Ids
      BY DEF PromptInv, PromptTypeOK
    <3>3. moved \ {request[r].id} = moved \ ids /\ crossed \ {request[r].id} = crossed \ ids
      BY <3>2
    <3>4. QED  BY <2>1, <3>1, <3>3 DEF Forgotten
  <2> HIDE DEF ids
  <2>3. ids \in SUBSET Ids
    BY DEF ids
  <2>4. /\ request' = Finished(r) /\ served' = served
        /\ agents' \subseteq Agents /\ conns' \subseteq Conns /\ link' \in [Agents -> Conns \cup {None}]
    BY <1>2 DEF CommitDelete, PromptInv, PromptTypeOK
  <2>5. QED  BY <2>2, <2>3, <2>4, TakenAway
<1>3. CASE CommitDeleteAgent(r)
  <2> DEFINE a == request[r].scope[1]
             mine == {i \in Stored(request[r].seen) : request[r].seen[i].scope[1] = a}
  <2>1. prompt' = Removed(mine) /\ Forgotten(mine)
    BY <1>3 DEF CommitDeleteAgent
  <2>2. mine \in SUBSET Ids
    BY DEF Stored
  <2> HIDE DEF mine
  <2>3. /\ request' = Finished(r) /\ served' = served
        /\ agents' \subseteq Agents /\ conns' \subseteq Conns /\ link' \in [Agents -> Conns \cup {None}]
    BY <1>3 DEF CommitDeleteAgent, PromptInv, PromptTypeOK
  <2>4. QED  BY <2>1, <2>2, <2>3, TakenAway
<1>4. CASE CommitDeleteConnection(r)
  BY <1>4, DeleteConnectionKeeps
<1>5. QED  BY <1>1, <1>2, <1>3, <1>4 DEF CommitRequest

\* Every other step leaves the prompts and what the requests have seen of them.
LEMMA RestKeeps ==
  ASSUME PromptInv, agents' \subseteq Agents, conns' \subseteq Conns,
         link' \in [Agents -> Conns \cup {None}], UNCHANGED <<prompt, served, moved, crossed>>,
         request' = request \/ \E r \in Requests : request' = [request EXCEPT ![r] = NoRequest]
  PROVE  PromptInv'
<1>1. request \in [Requests -> Request]
  BY DEF PromptInv, PromptTypeOK, Request
<1>2. /\ request' \in [Requests -> Request]
      /\ \A q \in Requests : request'[q] = request[q] \/ request'[q] = NoRequest
  BY <1>1, NoRequestOK
<1>3. PromptTypeOK'
  BY <1>2 DEF PromptInv, PromptTypeOK, Request
<1>4. RequestsOK'
  <2>1. SeenFits(NoRequest, prompt)
    BY NoRequestOK DEF SeenFits
  <2>2. ASSUME NEW q \in Requests PROVE SeenFits(request'[q], prompt')
    BY <1>2, <2>1 DEF PromptInv, RequestsOK, SeenOK
  <2>3. QED  BY <2>2 DEF RequestsOK, SeenOK
<1>5. VersionsBounded'
  BY <1>2, NoRequestOK DEF PromptInv, VersionsBounded
<1>6. OneActive'
  BY DEF PromptInv, OneActive, Active, Stored
<1>7. QED  BY <1>3, <1>4, <1>5, <1>6 DEF PromptInv

LEMMA PromptStep ==
  ASSUME PromptInv, PromptNext
  PROVE  PromptInv'
<1>0. agents \subseteq Agents /\ conns \subseteq Conns /\ link \in [Agents -> Conns \cup {None}]
  BY DEF PromptInv, PromptTypeOK
<1>1. CASE \E a \in Agents : CreateAgent(a) \/ UpdateAgent(a)
  <2>1. /\ agents' \subseteq Agents /\ conns' = conns /\ link' \in [Agents -> Conns \cup {None}]
        /\ UNCHANGED <<prompt, request, served, moved, crossed>>
    BY <1>0, <1>1 DEF CreateAgent, UpdateAgent
  <2>2. QED  BY <1>0, <2>1, RestKeeps
<1>2. CASE \E c \in Conns : Connect(c)
  BY <1>0, <1>2, RestKeeps DEF Connect
<1>3. ASSUME NEW r \in Requests, BeginRequest(r) \/ CommitRequest(r) \/ RequestFails(r)
      PROVE  PromptInv'
  <2>1. CASE RequestFails(r)
    BY <1>0, <2>1, RestKeeps DEF RequestFails
  <2>2. QED  BY <1>3, <2>1, BeginRequestKeeps, CommitKeeps
<1>4. QED  BY <1>1, <1>2, <1>3 DEF PromptNext

LEMMA PromptStart == PromptInit => PromptInv
<1> SUFFICES ASSUME PromptInit PROVE PromptInv
  OBVIOUS
<1>1. \A i \in Ids : prompt[i] = NoPrompt
  BY DEF PromptInit
<1>2. PromptTypeOK
  BY NoPromptType, NoRequestOK DEF PromptInit, PromptTypeOK, Request
<1>3. RequestsOK
  <2>1. SeenFits(NoRequest, prompt)
    BY NoRequestOK DEF SeenFits
  <2>2. QED  BY <2>1 DEF RequestsOK, SeenOK, PromptInit
<1>4. VersionsBounded
  <2>1. \A q \in Requests : request[q].op = "none"
    BY NoRequestOK DEF PromptInit
  <2>2. QED  BY <1>1, <2>1, NoPromptType, PromptsAssumption DEF VersionsBounded, PromptInit
<1>5. OneActive
  BY <1>1, NoPromptType DEF OneActive, Active, Stored
<1>6. QED  BY <1>2, <1>3, <1>4, <1>5 DEF PromptInv

LEMMA PromptInvariant == PromptSpec => []PromptInv
<1>1. PromptInit => PromptInv
  BY PromptStart
<1>2. PromptInv /\ [PromptNext]_promptVars => PromptInv'
  <2>1. CASE UNCHANGED promptVars
    BY <2>1 DEF promptVars, PromptInv, PromptTypeOK, RequestsOK, SeenOK, SeenFits,
                VersionsBounded, OneActive, Active, Stored, InScope
  <2>2. QED  BY <2>1, PromptStep
<1>3. QED  BY <1>1, <1>2, PTL DEF PromptSpec

\* The rows of the prompts, and what each request holds of them, keep their types.
THEOREM PromptTypeCorrect == PromptSpec => []PromptTypeOK
<1>1. PromptInv => PromptTypeOK
  BY DEF PromptInv
<1>2. QED  BY <1>1, PromptInvariant, PTL

\* However requests interleave, fail and find rows gone, two prompts of a scope are
\* active only if one was activated by a request that overlapped another of the scope,
\* or came into the scope when its connection was deleted.
THEOREM OneActiveAlways == PromptSpec => []OneActive
<1>1. PromptInv => OneActive
  BY DEF PromptInv
<1>2. QED  BY <1>1, PromptInvariant, PTL

(***************************************************************************)
(* The prompt a reply is written with.                                     *)
(***************************************************************************)
LEMMA Subtract ==
  ASSUME NEW n \in Nat, NEW v \in Nat, NEW w \in Nat, n - v <= n - w
  PROVE  w <= v
  OBVIOUS

\* Of some prompts there is one with the highest version.
LEMMA NewestExists ==
  ASSUME NEW ids \in SUBSET Active(prompt'), ids # {},
         prompt' \in [Ids -> Row], VersionsBounded', served' \in Nat
  PROVE  {i \in ids : \A j \in ids : prompt'[j].version <= prompt'[i].version} # {}
<1>1. \A i \in ids : i \in Ids /\ prompt'[i].version \in Nat /\ prompt'[i].version <= served'
  BY DEF Active, Stored, VersionsBounded, Row
<1> DEFINE T == {served' - prompt'[i].version : i \in ids}
<1>2. T \in SUBSET Nat /\ T # {}
  BY <1>1
<1>3. PICK n \in T : \A m \in T : n <= m
  <2> HIDE DEF T
  <2>1. QED  BY <1>2, Smallest
<1>4. PICK i \in ids : n = served' - prompt'[i].version
  BY <1>3
<1>5. ASSUME NEW j \in ids PROVE prompt'[j].version <= prompt'[i].version
  <2>1. served' - prompt'[i].version <= served' - prompt'[j].version
    BY <1>3, <1>4
  <2>2. prompt'[i].version \in Nat /\ prompt'[j].version \in Nat
    BY <1>1
  <2>3. QED  BY <2>1, <2>2, Subtract
<1>6. QED  BY <1>5

\* Only active prompts are used.
LEMMA UsedAreActive ==
  ASSUME NEW a, NEW c
  PROVE  Resolved(a, c)' \subseteq Active(prompt')
  BY DEF Resolved, Newest, AgentLevel, ConnectionLevel, AccountLevel, InScope

\* An active prompt of the very scope asked for leaves some prompt to use.
LEMMA SomeUsed ==
  ASSUME NEW i \in Active(prompt'), prompt' \in [Ids -> Row], VersionsBounded', served' \in Nat,
         NEW s \in Scopes, prompt'[i].scope = s
  PROVE  Resolved(s[1], s[2])' # {}
<1>1. s = <<s[1], s[2]>>
  BY DEF Scopes
<1>2. CASE AgentLevel(s[1])' # {}
  <2>1. Resolved(s[1], s[2])' = Newest(AgentLevel(s[1]))'
    BY <1>2 DEF Resolved
  <2>2. AgentLevel(s[1])' \subseteq Active(prompt')
    BY DEF AgentLevel
  <2>3. QED  BY <1>2, <2>1, <2>2, NewestExists DEF Newest
<1>3. CASE AgentLevel(s[1])' = {}
  <2>1. s[1] = None
    BY <1>3 DEF AgentLevel
  <2>2. CASE ConnectionLevel(s[2])' # {}
    <3>1. Resolved(s[1], s[2])' = Newest(ConnectionLevel(s[2]))'
      BY <1>3, <2>1, <2>2 DEF Resolved
    <3>2. ConnectionLevel(s[2])' \subseteq Active(prompt')
      BY DEF ConnectionLevel
    <3>3. QED  BY <2>2, <3>1, <3>2, NewestExists DEF Newest
  <2>3. CASE ConnectionLevel(s[2])' = {}
    <3>1. s[2] = None
      BY <1>1, <2>1, <2>3 DEF ConnectionLevel
    <3>2. Resolved(s[1], s[2])' = Newest(AccountLevel)'
      BY <1>3, <2>1, <2>3 DEF Resolved
    <3>3. i \in AccountLevel'
      BY <1>1, <2>1, <3>1 DEF AccountLevel, InScope, Default, Active
    <3>4. AccountLevel' \subseteq Active(prompt')
      BY DEF AccountLevel
    <3>5. QED  BY <3>2, <3>3, <3>4, NewestExists DEF Newest
  <2>4. QED  BY <2>2, <2>3
<1>4. QED  BY <1>2, <1>3

\* README.md:230: a request that activates a prompt, alone in its scope, makes it the one
\* that replies of the scope are written with, unless the agent has one of a higher or
\* equal version for another connection; no other prompt of the scope is used any more.
THEOREM ActivationIsUsed == PromptSpec => ActivatedIsUsed
<1>1. ASSUME PromptInv, PromptInv', NEW r \in Requests, NEW s \in Scopes,
             request[r].on, request[r].alone, request[r].scope = s, CommitRequest(r)
      PROVE  LET i == IF request[r].op = "create" THEN Fresh ELSE request[r].id
                 used == Resolved(s[1], s[2])'
             IN  /\ used = {i} \/ \E j \in used \ {i} : prompt'[j].scope # s
                 /\ \A a \in agents \cup {None}, c \in conns \cup {None} :
                      \A j \in Resolved(a, c)' : prompt'[j].scope = s => j = i
  <2>1. request[r].op \in {"create", "update"}
    BY <1>1 DEF PromptInv, RequestsOK, SeenOK, SeenFits
  <2>2. CommitCreate(r) \/ CommitUpdate(r)
    BY <1>1, <2>1 DEF CommitRequest, CommitDelete, CommitDeleteAgent, CommitDeleteConnection
  <2> DEFINE i == Target(r)
             used == Resolved(s[1], s[2])'
  <2>3. /\ i \in Active(prompt') /\ prompt'[i].scope = s
        /\ \A j \in Active(prompt') : prompt'[j].scope = s => j = i
    BY <1>1, <2>2, Activates
  <2>4. used # {}
    BY <1>1, <2>3, SomeUsed DEF PromptInv, PromptTypeOK
  <2>5. used \subseteq Active(prompt')
    BY UsedAreActive
  <2> HIDE DEF i, used
  <2>6. used = {i} \/ \E j \in used \ {i} : prompt'[j].scope # s
    BY <2>3, <2>4, <2>5
  <2>7. \A a \in agents \cup {None}, c \in conns \cup {None} :
          \A j \in Resolved(a, c)' : prompt'[j].scope = s => j = i
    BY <2>3, UsedAreActive
  <2>8. QED  BY <2>6, <2>7 DEF i, used, Target
<1>2. PromptInv /\ PromptInv' /\ [PromptNext]_promptVars =>
        [\A r \in Requests, s \in Scopes :
           request[r].on /\ request[r].alone /\ request[r].scope = s /\ CommitRequest(r) =>
             LET i == IF request[r].op = "create" THEN Fresh ELSE request[r].id
                 used == Resolved(s[1], s[2])'
             IN  /\ used = {i} \/ \E j \in used \ {i} : prompt'[j].scope # s
                 /\ \A a \in agents \cup {None}, c \in conns \cup {None} :
                      \A j \in Resolved(a, c)' : prompt'[j].scope = s => j = i]_promptVars
  BY <1>1
<1>3. QED  BY <1>2, PromptInvariant, PTL DEF PromptSpec, ActivatedIsUsed
================================================================================
