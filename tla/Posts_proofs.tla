------------------------------ MODULE Posts_proofs ------------------------------
(***************************************************************************)
(* Proofs about Posts.  A post is stored as published only after Facebook  *)
(* accepted it, it goes out twice only for a reason the model names, and   *)
(* one that requires approval is scheduled only with approved content      *)
(* unless two requests crossed: for any number of requests and publishers, *)
(* whatever fails.                                                         *)
(***************************************************************************)
EXTENDS Posts, TLAPS

(***************************************************************************)
(* What a stored PUBLISHED rests on: only a publisher whose post Facebook  *)
(* took writes it, and no request does.                                    *)
(***************************************************************************)
AcceptedFirst ==
  \A p \in Publishers : pub[p].result = "PUBLISHED" => published > 0
NeverAsked == \A q \in Requests : req[q].update.status # "PUBLISHED"
PublishedParts == AcceptedFirst /\ NeverAsked /\ PublishedWasAccepted

(***************************************************************************)
(* Why a post goes out once while nothing excuses a second time: one       *)
(* publisher is at work, and a post that went out is about to be stored as *)
(* published, or is stored so (or is gone) and no task has loaded it since. *)
(***************************************************************************)
AtWork(p) == pub[p].pc # "idle"
Landing(p) == pub[p].pc = "called" /\ pub[p].result = "PUBLISHED"
Landed ==
  /\ post.status \in {"PUBLISHED", "deleted"}
  /\ \A p \in Publishers : pub[p].pc # "loaded"
OnceParts ==
  ~excused =>
    /\ \A p, q \in Publishers : AtWork(p) /\ AtWork(q) => p = q
    /\ published <= 1
    /\ published = 1 => Landed \/ \E p \in Publishers : Landing(p)

\* What publishers hold between their steps.
HeldOK(h) ==
  /\ h.pc # "idle" => h.seen.status \in {"SCHEDULED", "FAILED"}
  /\ h.pc \in {"idle", "loaded"} => h.result = "none"
  /\ h.pc \in {"called", "failed"} => h.result # "none"
  /\ h.pc = "failed" => h.result = "FAILED"
PublishersOK == \A p \in Publishers : HeldOK(pub[p])

(***************************************************************************)
(* Why a post that requires approval is scheduled only when approved,      *)
(* until a request writes it while another has it loaded: what a request   *)
(* has loaded was then changed only by publishers, which store PUBLISHED   *)
(* or FAILED.                                                              *)
(***************************************************************************)
Approving == {"APPROVED", "SCHEDULED"}
ApprovedIsCleared ==
  post.status \in Approving /\ post.approval = "required" => cleared
RequestOK(q) ==
  LET u == q.update IN
  /\ q.op = "update" => u.status = "keep" /\ post.status \notin Approving
  /\ q.op = "approve" => u.status = "APPROVED"
  /\ q.op = "reject" => u.status = "REJECTED"
  /\ q.op = "generate" => \/ u.status = "DRAFT"
                          \/ u.status = "keep" /\ post.status \notin Approving
  /\ q.op \in {"schedule", "publish"} => u.status = "SCHEDULED" /\ (post.approval = "required" => cleared)
  /\ q.op \in {"approve", "reject", "schedule", "publish"} => u.approval = "keep"
NobodyBefore == post.status = "none" => \A q \in Requests : req[q].op = "none"
ApprovalParts ==
  /\ NobodyBefore
  /\ ~crossed => ApprovedIsCleared /\ \A q \in Requests : RequestOK(req[q])

(***************************************************************************)
(* Types.                                                                  *)
(***************************************************************************)
\* What an UPDATE leaves of the stored row, column by column.
LEMMA StoredPost ==
  ASSUME post \in Post, NEW u \in Update, post.status # "deleted" \/ u.status = "keep"
  PROVE  LET new == Stored(u) IN
         /\ new \in Post
         /\ new.status = IF u.status = "keep" THEN post.status ELSE u.status
         /\ new.approval = IF u.approval = "keep" THEN post.approval ELSE u.approval
  BY DEF Stored, Post, Update

\* The UPDATEs of a request are UPDATEs, and say of the status what the proofs need.
LEMMA UpdatesType ==
  ASSUME NEW op \in Ops, NEW r \in Post, r.status \in PostStatuses, Allowed(op, r),
         NEW u \in Updates(op, r)
  PROVE  /\ u \in Update
         /\ u.status \in {"keep", "APPROVED", "REJECTED", "SCHEDULED", "DRAFT"}
         /\ op = "update" => u.status = "keep" /\ r.status \in {"DRAFT", "REJECTED", "FAILED"}
         /\ op = "approve" => u.status = "APPROVED"
         /\ op = "reject" => u.status = "REJECTED"
         /\ op = "generate" => \/ u.status = "DRAFT"
                               \/ u.status = "keep" /\ r.status = "DRAFT"
         /\ op \in {"schedule", "publish"} =>
              u.status = "SCHEDULED" /\ (r.approval = "required" => r.status = "APPROVED")
         /\ op \in {"approve", "reject", "schedule", "publish"} => u.approval = "keep"
<1>1. CASE op = "update"
  BY <1>1 DEF Updates, Allowed, Changed, Keep, Update, Post
<1>2. CASE op = "delete"
  BY <1>2 DEF Updates, Keep, Update
<1>3. CASE op = "approve"
  BY <1>3 DEF Updates, Allowed, Changed, Keep, Update, Post, PostStatuses
<1>4. CASE op = "reject"
  BY <1>4 DEF Updates, Allowed, Changed, Keep, Update, Post, PostStatuses
<1>5. CASE op = "schedule"
  BY <1>5 DEF Updates, Allowed, PublishReady, Changed, Keep, Update, Post, PostStatuses
<1>6. CASE op = "publish"
  BY <1>6 DEF Updates, Allowed, PublishReady, Changed, Keep, Update, Post, PostStatuses
<1>7. CASE op = "generate"
  <2>1. PICK a \in {"required", "free"} :
          u = [[Keep EXCEPT !.status = Changed("DRAFT", r.status)]
                 EXCEPT !.approval = Changed(a, r.approval)]
    BY <1>7 DEF Updates
  <2>2. /\ u \in Update
        /\ u.status = Changed("DRAFT", r.status)
    BY <2>1 DEF Changed, Keep, Update, Post, PostStatuses
  <2>3. u.status = "DRAFT" \/ (u.status = "keep" /\ r.status = "DRAFT")
    BY <2>2 DEF Changed
  <2>4. QED  BY <1>7, <2>2, <2>3
<1>8. QED  BY <1>1, <1>2, <1>3, <1>4, <1>5, <1>6, <1>7 DEF Ops

\* What apply_publish_result writes of the status.
LEMMA ResultType ==
  ASSUME NEW h \in Publisher, h.result \in {"PUBLISHED", "FAILED"}
  PROVE  /\ Result(h) \in Update
         /\ Result(h).status = Changed(h.result, h.seen.status)
         /\ Result(h).approval = "keep"
<1> DEFINE s == Changed(h.result, h.seen.status)
           w == IF h.result = "PUBLISHED" THEN Changed("null", h.seen.when) ELSE "keep"
<1>1. s \in PostStatuses \cup {"keep"} /\ w \in {"null", "keep"}
  BY DEF Changed, PostStatuses
<1> HIDE DEF s, w
<1>2. /\ [Keep EXCEPT !.status = s, !.when = w] \in Update
      /\ [Keep EXCEPT !.status = s, !.when = w].status = s
      /\ [Keep EXCEPT !.status = s, !.when = w].approval = "keep"
  BY <1>1 DEF Keep, Update
<1>3. Result(h) = [Keep EXCEPT !.status = s, !.when = w]
  BY DEF Result, s, w
<1>4. QED  BY <1>2, <1>3 DEF s

LEMMA Types ==
  /\ NoRequest \in Request
  /\ NoPost \in Post
  /\ Resting \in Publisher
<1>1. NoRequest \in Request
  BY DEF NoRequest, Keep, Update, Request
<1>2. NoPost \in Post
  BY DEF NoPost, Post
<1>3. Resting \in Publisher
  BY <1>2 DEF Resting, Publisher
<1>4. QED  BY <1>1, <1>2, <1>3

LEMMA InitType ==
  ASSUME Init
  PROVE  TypeOK /\ PublishersOK
<1>1. /\ book \in [Jobs -> {"none", "future", "due"}]
      /\ runs \in [Jobs -> Nat]
  BY DEF Init, BookInit
<1>2. post \in Post /\ req \in [Requests -> Request] /\ pub \in [Publishers -> Publisher]
  BY Types DEF Init
<1>3. tasks \in Nat /\ published \in 0..2 /\ cleared \in BOOLEAN /\ excused \in BOOLEAN /\ crossed \in BOOLEAN
  <2>1. tasks = 0 /\ published = 0 /\ cleared = FALSE /\ excused = FALSE /\ crossed = FALSE
    BY DEF Init
  <2>2. tasks \in Nat /\ published \in 0..2
    BY <2>1
  <2>3. cleared \in BOOLEAN /\ excused \in BOOLEAN /\ crossed \in BOOLEAN
    BY <2>1
  <2>4. QED  BY <2>2, <2>3
<1>4. PublishersOK
  BY DEF Init, PublishersOK, HeldOK, Resting
<1>5. QED  BY <1>1, <1>2, <1>3, <1>4 DEF TypeOK

LEMMA LoadType ==
  ASSUME TypeOK, NEW q \in Requests, LoadPost(q)
  PROVE  TypeOK'
<1>0. PICK op \in Ops :
        /\ Allowed(op, post) /\ post.status \in PostStatuses
        /\ \E u \in Updates(op, post) : req' = [req EXCEPT ![q] = [op |-> op, update |-> u]]
  BY DEF LoadPost
<1>1. PICK u \in Updates(op, post) : req' = [req EXCEPT ![q] = [op |-> op, update |-> u]]
  BY <1>0
<1>2. u \in Update
  BY <1>0, UpdatesType DEF TypeOK
<1>3. [op |-> op, update |-> u] \in Request
  BY <1>2 DEF Request
<1>4. QED  BY <1>1, <1>3 DEF LoadPost, TypeOK, bookVars

LEMMA CommitType ==
  ASSUME TypeOK, NEW q \in Requests, CommitPost(q)
  PROVE  TypeOK'
<1>1. post' \in Post
  <2>1. req[q].update \in Update
    BY DEF TypeOK, Request
  <2>2. QED  BY <2>1, StoredPost DEF CommitPost, TypeOK
<1>2. After(req[q].op) \in Request
  BY DEF After, NoRequest, Keep, Update, Request, Ops
<1>3. req' \in [Requests -> Request]
  BY <1>2 DEF CommitPost, TypeOK
<1>4. cleared' \in BOOLEAN /\ excused' \in BOOLEAN
  BY DEF CommitPost, TypeOK
<1>5. QED  BY <1>1, <1>3, <1>4 DEF CommitPost, TypeOK, bookVars

\* The two jobs of the post, whichever service asks for one.
LEMMA EnsureType ==
  ASSUME TypeOK, NEW j \in Jobs, NEW when, EnsureJob(j, when)
  PROVE  book' \in [Jobs -> {"none", "future", "due"}] /\ runs' = runs
  BY DEF TypeOK, EnsureJob, Add

LEMMA BothAreJobs == ScheduleJob \in Jobs /\ RetryJob \in Jobs
  BY PostAssumption

LEMMA RequestType ==
  ASSUME TypeOK, NEW q \in Requests,
         \/ DeletePost(q) \/ CreateScheduleJob(q) \/ SubmitPublish(q) \/ RequestFails(q)
  PROVE  TypeOK'
<1>1. ASSUME End(q) PROVE req' \in [Requests -> Request]
  <2>1. NoRequest \in Request
    BY DEF NoRequest, Keep, Update, Request
  <2>2. QED  BY <1>1, <2>1 DEF End, TypeOK
<1>2. CASE DeletePost(q)
  BY <1>1, <1>2 DEF DeletePost, TypeOK, bookVars, NoPost, Post
<1>3. CASE CreateScheduleJob(q)
  BY <1>1, <1>3, BothAreJobs, EnsureType DEF CreateScheduleJob, TypeOK
<1>4. CASE SubmitPublish(q)
  BY <1>1, <1>4 DEF SubmitPublish, AddTask, TypeOK, bookVars
<1>5. CASE RequestFails(q)
  BY <1>1, <1>5 DEF RequestFails, TypeOK, bookVars
<1>6. QED  BY <1>2, <1>3, <1>4, <1>5

LEMMA JobType ==
  ASSUME TypeOK, NEW j \in Jobs, (Ripen(j) /\ UNCHANGED postVars) \/ HandlePost(j)
  PROVE  TypeOK'
<1>1. CASE Ripen(j) /\ UNCHANGED postVars
  BY <1>1 DEF Ripen, postVars, TypeOK
<1>2. CASE HandlePost(j)
  <2>1. runs' \in [Jobs -> Nat] /\ book' = book
    BY <1>2 DEF HandlePost, Run, TypeOK
  <2>2. tasks' \in Nat
    BY <1>2 DEF HandlePost, AddTask, TypeOK
  <2>3. QED  BY <1>2, <2>1, <2>2 DEF HandlePost, TypeOK
<1>3. QED  BY <1>1, <1>2

LEMMA TakeType ==
  ASSUME TypeOK, NEW p \in Publishers, TakeTask(p)
  PROVE  TypeOK'
<1>1. tasks' \in Nat
  BY DEF TakeTask, TypeOK
<1>2. [Resting EXCEPT !.pc = "loaded", !.seen = Looked(post)] \in Publisher
  BY DEF Resting, Looked, NoPost, Post, PostStatuses, Publisher
<1>3. pub' \in [Publishers -> Publisher]
  BY <1>2 DEF TakeTask, TypeOK
<1>4. excused' \in BOOLEAN
  BY DEF TakeTask, TypeOK
<1>5. QED  BY <1>1, <1>3, <1>4 DEF TakeTask, TypeOK, bookVars

LEMMA PublishType ==
  ASSUME TypeOK, PublishersOK, NEW p \in Publishers, Publish(p)
  PROVE  TypeOK'
<1>1. Resting \in Publisher
  BY DEF Resting, NoPost, Post, Publisher
<1>2. ASSUME Accepted PROVE published' \in 0..2
  BY <1>2 DEF Accepted
<1>3. CASE CallFacebook(p)
  <2>1. pub' \in [Publishers -> Publisher]
    BY <1>3 DEF CallFacebook, TypeOK, Publisher
  <2>2. published' \in 0..2
    BY <1>2, <1>3 DEF CallFacebook, TypeOK
  <2>3. QED  BY <1>3, <2>1, <2>2 DEF CallFacebook, TypeOK, bookVars
<1>4. CASE CallBreaks(p)
  BY <1>1, <1>2, <1>4 DEF CallBreaks, Rest, TypeOK, bookVars
<1>5. CASE ApplyResult(p)
  <2>1. post' \in Post
    <3>1. Result(pub[p]) \in Update
      <4>1. pub[p] \in Publisher /\ pub[p].result \in {"PUBLISHED", "FAILED"}
        BY <1>5 DEF ApplyResult, TypeOK, PublishersOK, HeldOK, Publisher
      <4>2. QED  BY <4>1, ResultType
    <3>2. QED  BY <1>5, <3>1, StoredPost DEF ApplyResult, TypeOK
  <2>2. pub' \in [Publishers -> Publisher]
    BY <1>1, <1>5 DEF ApplyResult, Rest, TypeOK, Publisher
  <2>3. excused' \in BOOLEAN
    BY <1>5 DEF ApplyResult, TypeOK
  <2>4. QED  BY <1>5, <2>1, <2>2, <2>3 DEF ApplyResult, TypeOK, bookVars
<1>6. CASE CreateRetryJob(p)
  BY <1>1, <1>6, BothAreJobs, EnsureType DEF CreateRetryJob, Rest, TypeOK
<1>7. CASE PublisherDies(p)
  BY <1>1, <1>7 DEF PublisherDies, Rest, TypeOK, bookVars
<1>8. QED  BY <1>3, <1>4, <1>5, <1>6, <1>7 DEF Publish

LEMMA StepType ==
  ASSUME TypeOK, PublishersOK, [Next]_vars
  PROVE  TypeOK'
<1>1. CASE CreatePost
  BY <1>1 DEF CreatePost, TypeOK, bookVars, Post, PostStatuses
<1>2. CASE TimePasses
  BY <1>2 DEF TimePasses, TypeOK, bookVars, Post
<1>3. CASE ScanPosts
  BY <1>3, BothAreJobs, EnsureType DEF ScanPosts, TypeOK, postVars
<1>4. CASE UNCHANGED vars
  BY <1>4 DEF vars, bookVars, postVars, TypeOK
<1>5. QED
  BY <1>1, <1>2, <1>3, <1>4, LoadType, CommitType, RequestType, JobType, TakeType, PublishType
     DEF Next

(***************************************************************************)
(* Publishers: what they hold between their steps.                         *)
(***************************************************************************)
\* A publisher that is done, or has not begun, holds nothing.
LEMMA RestingHeld ==
  HeldOK(Resting) /\ Resting.pc = "idle" /\ Resting.result = "none"
  BY DEF HeldOK, Resting

\* The step of one publisher leaves the others as they are.
LEMMA OnePublisher ==
  ASSUME TypeOK, PublishersOK, NEW p \in Publishers, NEW n,
         pub' = [pub EXCEPT ![p] = n], HeldOK(n)
  PROVE  PublishersOK' /\ pub'[p] = n /\ \A q \in Publishers : q # p => pub'[q] = pub[q]
  BY DEF TypeOK, PublishersOK

\* What the steps of a publisher make of the record it holds.
LEMMA TakenHeld ==
  ASSUME TypeOK, PublishersOK, NEW p \in Publishers, TakeTask(p), Publishable(post)
  PROVE  \E n : /\ pub' = [pub EXCEPT ![p] = n]
                /\ HeldOK(n) /\ n.pc = "loaded" /\ n.result = "none"
<1> DEFINE n == [Resting EXCEPT !.pc = "loaded", !.seen = Looked(post)]
<1>1. HeldOK(n) /\ n.pc = "loaded" /\ n.result = "none"
  BY DEF HeldOK, Resting, Looked, NoPost
<1>2. pub' = [pub EXCEPT ![p] = n]
  BY DEF TakeTask
<1> HIDE DEF n
<1>3. QED  BY <1>1, <1>2

LEMMA CalledHeld ==
  ASSUME TypeOK, PublishersOK, NEW p \in Publishers, CallFacebook(p)
  PROVE  \E n : /\ pub' = [pub EXCEPT ![p] = n]
                /\ HeldOK(n) /\ n.pc = "called"
                /\ \/ n.result = "PUBLISHED" /\ Accepted
                   \/ n.result = "FAILED" /\ published' = published
<1>1. PICK res \in {"PUBLISHED", "FAILED"} :
        /\ pub' = [pub EXCEPT ![p] = [pub[p] EXCEPT !.pc = "called", !.result = res]]
        /\ (res = "PUBLISHED" /\ Accepted) \/ (res = "FAILED" /\ published' = published)
  BY DEF CallFacebook, TypeOK, Publisher
<1> DEFINE n == [pub[p] EXCEPT !.pc = "called", !.result = res]
<1>2. n.pc = "called" /\ n.result = res /\ n.seen = pub[p].seen
  BY DEF TypeOK, Publisher
<1>3. pub[p].seen.status \in {"SCHEDULED", "FAILED"}
  BY DEF CallFacebook, PublishersOK, HeldOK
<1> HIDE DEF n
<1>4. HeldOK(n)
  BY <1>2, <1>3 DEF HeldOK
<1>5. QED  BY <1>1, <1>2, <1>4 DEF n

LEMMA AppliedHeld ==
  ASSUME TypeOK, PublishersOK, NEW p \in Publishers, ApplyResult(p)
  PROVE  /\ pub[p].result \in {"PUBLISHED", "FAILED"}
         /\ post.status # "deleted"
         /\ post'.status = IF pub[p].result = pub[p].seen.status THEN post.status
                           ELSE pub[p].result
         /\ post'.approval = post.approval
         /\ \E n : /\ pub' = [pub EXCEPT ![p] = n] /\ HeldOK(n)
                   /\ n.pc \in {"idle", "failed"} /\ n.result \in {"none", "FAILED"}
<1>1. pub[p] \in Publisher /\ pub[p].result \in {"PUBLISHED", "FAILED"}
      /\ pub[p].seen.status \in {"SCHEDULED", "FAILED"}
  BY DEF ApplyResult, TypeOK, PublishersOK, HeldOK, Publisher
<1>2. /\ Result(pub[p]) \in Update
      /\ Result(pub[p]).status = Changed(pub[p].result, pub[p].seen.status)
      /\ Result(pub[p]).approval = "keep"
  BY <1>1, ResultType
<1>3. /\ post'.status = IF Result(pub[p]).status = "keep" THEN post.status
                        ELSE Result(pub[p]).status
      /\ post'.approval = post.approval
  BY <1>2, StoredPost DEF ApplyResult, TypeOK
<1>4. post'.status = IF pub[p].result = pub[p].seen.status THEN post.status ELSE pub[p].result
  BY <1>1, <1>2, <1>3 DEF Changed
<1>5. \E n : /\ pub' = [pub EXCEPT ![p] = n] /\ HeldOK(n)
             /\ n.pc \in {"idle", "failed"} /\ n.result \in {"none", "FAILED"}
  <2>1. CASE pub[p].result = "FAILED"
    <3> DEFINE n == [pub[p] EXCEPT !.pc = "failed"]
    <3>1. n.pc = "failed" /\ n.result = "FAILED" /\ n.seen = pub[p].seen
      BY <1>1, <2>1 DEF Publisher
    <3>2. pub' = [pub EXCEPT ![p] = n]
      BY <2>1 DEF ApplyResult, TypeOK
    <3> HIDE DEF n
    <3>3. HeldOK(n)
      BY <1>1, <3>1 DEF HeldOK
    <3>4. QED  BY <3>1, <3>2, <3>3
  <2>2. CASE pub[p].result # "FAILED"
    BY <2>2, RestingHeld DEF ApplyResult, Rest
  <2>3. QED  BY <2>1, <2>2
<1>6. QED  BY <1>1, <1>3, <1>4, <1>5 DEF ApplyResult

(***************************************************************************)
(* Stored as published, and gone out once.                                 *)
(***************************************************************************)
Kept == PublishersOK' /\ PublishedParts' /\ OnceParts'
FactInv == TypeOK /\ PublishersOK /\ PublishedParts /\ OnceParts

\* A request's write touches neither a publisher nor what Facebook has accepted; it
\* takes the post out of PUBLISHED, if it does, with an excuse.
LEMMA RequestKeeps ==
  ASSUME FactInv, NEW q \in Requests, NEW n, req' = [req EXCEPT ![q] = n],
         n.update.status # "PUBLISHED", UNCHANGED <<pub, published>>,
         excused => excused',
         ~excused' /\ post.status \in {"PUBLISHED", "deleted"} => post'.status \in {"PUBLISHED", "deleted"},
         post'.status = "PUBLISHED" => post.status = "PUBLISHED"
  PROVE  Kept
<1>1. PublishersOK' /\ AcceptedFirst' /\ PublishedWasAccepted'
  BY DEF FactInv, PublishersOK, PublishedParts, AcceptedFirst, PublishedWasAccepted
<1>2. NeverAsked'
  BY DEF FactInv, TypeOK, PublishedParts, NeverAsked
<1>3. OnceParts'
  BY DEF FactInv, OnceParts, AtWork, Landing, Landed
<1>4. QED  BY <1>1, <1>2, <1>3 DEF Kept, PublishedParts

\* A step that leaves the post's status, the publishers and the requests alone.
LEMMA QuietKeeps ==
  ASSUME FactInv, UNCHANGED <<pub, published, excused, req>>,
         post'.status = post.status \/ {post.status, post'.status} \subseteq {"none", "DRAFT"}
  PROVE  Kept
<1>1. PublishersOK' /\ PublishedParts'
  BY DEF FactInv, PublishersOK, PublishedParts, AcceptedFirst, NeverAsked, PublishedWasAccepted
<1>2. OnceParts'
  BY DEF FactInv, OnceParts, AtWork, Landing, Landed
<1>3. QED  BY <1>1, <1>2 DEF Kept

LEMMA LoadKeeps ==
  ASSUME FactInv, NEW q \in Requests, LoadPost(q)
  PROVE  Kept
<1>0. PICK op \in Ops :
        /\ Allowed(op, post) /\ post.status \in PostStatuses
        /\ \E u \in Updates(op, post) : req' = [req EXCEPT ![q] = [op |-> op, update |-> u]]
  BY DEF LoadPost
<1>1. PICK u \in Updates(op, post) : req' = [req EXCEPT ![q] = [op |-> op, update |-> u]]
  BY <1>0
<1>2. u.status # "PUBLISHED"
  BY <1>0, UpdatesType DEF FactInv, TypeOK
<1>3. UNCHANGED <<pub, published, excused, post>>
  BY DEF LoadPost
<1>4. QED  BY <1>1, <1>2, <1>3, RequestKeeps

LEMMA CommitKeeps ==
  ASSUME FactInv, NEW q \in Requests, CommitPost(q)
  PROVE  Kept
<1>1. /\ req' = [req EXCEPT ![q] = After(req[q].op)]
      /\ UNCHANGED <<pub, published>>
      /\ post.status # "deleted"
      /\ excused' = (excused \/ (post.status = "PUBLISHED" /\ post'.status # "PUBLISHED"))
  BY DEF CommitPost
<1>2. After(req[q].op).update.status # "PUBLISHED"
  BY DEF After, NoRequest, Keep
<1>3. req[q].update \in Update /\ req[q].update.status # "PUBLISHED"
  BY DEF FactInv, TypeOK, Request, PublishedParts, NeverAsked
<1>4. post'.status = "PUBLISHED" => post.status = "PUBLISHED"
  BY <1>1, <1>3, StoredPost DEF CommitPost, FactInv, TypeOK
<1>5. QED  BY <1>1, <1>2, <1>4, RequestKeeps

LEMMA EndKeeps ==
  ASSUME FactInv, NEW q \in Requests,
         \/ DeletePost(q) \/ CreateScheduleJob(q) \/ SubmitPublish(q) \/ RequestFails(q)
  PROVE  Kept
<1>1. /\ req' = [req EXCEPT ![q] = NoRequest]
      /\ UNCHANGED <<pub, published, excused>>
      /\ post' = post \/ post'.status = "deleted"
  BY DEF DeletePost, CreateScheduleJob, SubmitPublish, RequestFails, End, NoPost
<1>2. NoRequest.update.status # "PUBLISHED"
  BY DEF NoRequest, Keep
<1>3. QED  BY <1>1, <1>2, RequestKeeps

LEMMA TakeKeeps ==
  ASSUME FactInv, NEW p \in Publishers, TakeTask(p)
  PROVE  Kept
<1> USE DEF FactInv
<1>1. UNCHANGED <<post, req, published>>
  BY DEF TakeTask
<1>2. CASE Publishable(post)
  <2>1. PICK n : /\ pub' = [pub EXCEPT ![p] = n]
                 /\ HeldOK(n) /\ n.pc = "loaded" /\ n.result = "none"
    BY <1>2, TakenHeld
  <2>2. PublishersOK' /\ pub'[p] = n /\ \A q \in Publishers : q # p => pub'[q] = pub[q]
    BY <2>1, OnePublisher
  <2>3. PublishedParts'
    BY <1>1, <2>1, <2>2 DEF PublishedParts, AcceptedFirst, NeverAsked, PublishedWasAccepted
  <2>4. excused' = (excused \/ \E q \in Publishers : pub[q].pc # "idle")
    BY <1>2 DEF TakeTask
  <2>5. OnceParts'
    <3>1. SUFFICES ASSUME ~excused' PROVE OnceParts'
      BY DEF OnceParts
    <3>2. ~excused /\ \A q \in Publishers : ~AtWork(q)
      BY <2>4, <3>1 DEF AtWork
    <3>3. post.status \notin {"PUBLISHED", "deleted"}
      BY <1>2 DEF Publishable, PostStatuses
    <3>4. published # 1 /\ published <= 1
      BY <3>2, <3>3 DEF OnceParts, Landing, Landed, AtWork
    <3>5. \A q \in Publishers : AtWork(q)' => q = p
      BY <2>2, <3>2 DEF AtWork
    <3>6. QED  BY <1>1, <3>4, <3>5 DEF OnceParts
  <2>6. QED  BY <2>2, <2>3, <2>5 DEF Kept
<1>3. CASE ~Publishable(post)
  BY <1>1, <1>3, QuietKeeps DEF TakeTask
<1>4. QED  BY <1>2, <1>3

LEMMA CallKeeps ==
  ASSUME FactInv, NEW p \in Publishers, CallFacebook(p)
  PROVE  Kept
<1> USE DEF FactInv
<1>1. UNCHANGED <<post, req, excused>> /\ pub[p].pc = "loaded"
  BY DEF CallFacebook
<1>2. PICK n : /\ pub' = [pub EXCEPT ![p] = n]
               /\ HeldOK(n) /\ n.pc = "called"
               /\ \/ n.result = "PUBLISHED" /\ Accepted
                  \/ n.result = "FAILED" /\ published' = published
  BY CalledHeld
<1>3. PublishersOK' /\ pub'[p] = n /\ \A q \in Publishers : q # p => pub'[q] = pub[q]
  BY <1>2, OnePublisher
<1>4. published' >= published /\ (n.result = "PUBLISHED" => published' > 0)
  BY <1>2 DEF Accepted, TypeOK
<1>5. PublishedParts'
  <2>1. published' \in 0..2
    BY <1>2 DEF Accepted, TypeOK
  <2>2. published > 0 => published' > 0
    BY <1>4, <2>1 DEF TypeOK
  <2>3. QED
    BY <1>1, <1>3, <1>4, <2>2
       DEF PublishedParts, AcceptedFirst, NeverAsked, PublishedWasAccepted
<1>6. OnceParts'
  <2>1. SUFFICES ASSUME ~excused PROVE OnceParts'
    BY <1>1 DEF OnceParts
  <2>2. \A q \in Publishers : AtWork(q) => q = p
    BY <1>1, <2>1 DEF OnceParts, AtWork
  <2>3. published = 0
    BY <1>1, <2>1, <2>2 DEF OnceParts, Landing, Landed, AtWork, TypeOK
  <2>4. \A q \in Publishers : AtWork(q)' => q = p
    BY <1>3, <2>2 DEF AtWork
  <2>5. published' <= 1 /\ (published' = 1 => n.result = "PUBLISHED")
    BY <1>2, <2>3 DEF Accepted
  <2>6. published' = 1 => Landing(p)'
    BY <1>2, <1>3, <2>5 DEF Landing
  <2>7. QED  BY <2>4, <2>5, <2>6 DEF OnceParts
<1>7. QED  BY <1>3, <1>5, <1>6 DEF Kept

\* A publisher that stops with nothing in hand, whatever it had reached; unless the
\* post's fate is excused it had only to queue the retry.
LEMMA RestKeeps ==
  ASSUME FactInv, NEW p \in Publishers, Rest(p), UNCHANGED <<post, req>>,
         published' \in 0..2, published <= published', excused => excused',
         ~excused' => published' = published /\ pub[p].pc = "failed"
  PROVE  Kept
<1> USE DEF FactInv
<1>1. /\ PublishersOK' /\ pub'[p] = Resting
      /\ \A q \in Publishers : q # p => pub'[q] = pub[q]
  BY RestingHeld, OnePublisher DEF Rest
<1>2. published > 0 => published' > 0
  BY DEF TypeOK
<1>3. PublishedParts'
  BY <1>1, <1>2, RestingHeld DEF PublishedParts, AcceptedFirst, NeverAsked, PublishedWasAccepted
<1>4. OnceParts'
  <2>1. SUFFICES ASSUME ~excused' PROVE OnceParts'
    BY DEF OnceParts
  <2>2. ~excused /\ published' = published /\ ~Landing(p)
    BY <2>1 DEF Landing
  <2>3. \A q \in Publishers : (AtWork(q)' => AtWork(q)) /\ (Landing(q) => Landing(q)')
    BY <1>1, <2>2, RestingHeld DEF AtWork, Landing
  <2>4. Landed => Landed'
    BY <1>1, RestingHeld DEF Landed
  <2>5. QED  BY <2>1, <2>2, <2>3, <2>4 DEF OnceParts
<1>5. QED  BY <1>1, <1>3, <1>4 DEF Kept

LEMMA ApplyKeeps ==
  ASSUME FactInv, NEW p \in Publishers, ApplyResult(p)
  PROVE  Kept
<1> USE DEF FactInv
<1>1. /\ UNCHANGED <<req, published>> /\ pub[p].pc = "called"
      /\ excused' = (excused \/ (post.status = "PUBLISHED" /\ post'.status # "PUBLISHED"))
  BY DEF ApplyResult
<1>2. /\ pub[p].result \in {"PUBLISHED", "FAILED"} /\ post.status # "deleted"
      /\ post'.status = IF pub[p].result = pub[p].seen.status THEN post.status
                        ELSE pub[p].result
  BY AppliedHeld
<1>3. PICK n : /\ pub' = [pub EXCEPT ![p] = n] /\ HeldOK(n)
               /\ n.pc \in {"idle", "failed"} /\ n.result \in {"none", "FAILED"}
  BY AppliedHeld
<1>4. PublishersOK' /\ pub'[p] = n /\ \A q \in Publishers : q # p => pub'[q] = pub[q]
  BY <1>3, OnePublisher
<1>5. PublishedParts'
  <2>1. post'.status = "PUBLISHED" => published > 0
    BY <1>2 DEF PublishedParts, AcceptedFirst, PublishedWasAccepted
  <2>2. QED
    BY <1>1, <1>3, <1>4, <2>1
       DEF PublishedParts, AcceptedFirst, NeverAsked, PublishedWasAccepted
<1>6. OnceParts'
  <2>1. SUFFICES ASSUME ~excused' PROVE OnceParts'
    BY DEF OnceParts
  <2>2. ~excused /\ (post.status = "PUBLISHED" => post'.status = "PUBLISHED")
    BY <1>1, <2>1
  <2>3. \A q \in Publishers : AtWork(q) => q = p
    BY <1>1, <2>2 DEF OnceParts, AtWork
  <2>4. \A q \in Publishers : AtWork(q)' => q = p
    BY <1>4, <2>3 DEF AtWork
  <2>5. \A q \in Publishers : pub'[q].pc # "loaded"
    BY <1>3, <1>4, <2>3 DEF AtWork
  <2>6. ASSUME published = 1 PROVE post'.status = "PUBLISHED"
    <3>1. Landed \/ Landing(p)
      BY <2>2, <2>3, <2>6 DEF OnceParts, Landing, AtWork
    <3>2. CASE Landed
      BY <1>2, <2>2, <3>2 DEF Landed
    <3>3. CASE Landing(p)
      BY <1>1, <1>2, <3>3 DEF Landing, PublishersOK, HeldOK
    <3>4. QED  BY <3>1, <3>2, <3>3
  <2>7. published <= 1
    BY <2>2 DEF OnceParts
  <2>8. QED  BY <1>1, <2>4, <2>5, <2>6, <2>7 DEF OnceParts, Landed
<1>7. QED  BY <1>4, <1>5, <1>6 DEF Kept

LEMMA PublishKeeps ==
  ASSUME FactInv, NEW p \in Publishers, Publish(p)
  PROVE  Kept
<1>1. CASE CallBreaks(p)
  <2>1. Rest(p) /\ UNCHANGED <<post, req>> /\ excused'
    BY <1>1 DEF CallBreaks
  <2>2. published' \in 0..2 /\ published <= published'
    BY <1>1 DEF CallBreaks, Accepted, FactInv, TypeOK
  <2>3. QED  BY <2>1, <2>2, RestKeeps
<1>2. CASE CreateRetryJob(p)
  <2>1. Rest(p) /\ UNCHANGED <<post, req, excused, published>> /\ pub[p].pc = "failed"
    BY <1>2 DEF CreateRetryJob
  <2>2. published' \in 0..2 /\ published <= published'
    BY <2>1 DEF FactInv, TypeOK
  <2>3. QED  BY <2>1, <2>2, RestKeeps
<1>3. CASE PublisherDies(p)
  <2>1. Rest(p) /\ UNCHANGED <<post, req, published>> /\ excused'
    BY <1>3 DEF PublisherDies
  <2>2. published' \in 0..2 /\ published <= published'
    BY <2>1 DEF FactInv, TypeOK
  <2>3. QED  BY <2>1, <2>2, RestKeeps
<1>4. QED  BY <1>1, <1>2, <1>3, CallKeeps, ApplyKeeps DEF Publish

LEMMA FactStep ==
  ASSUME FactInv, [Next]_vars
  PROVE  FactInv'
<1>1. TypeOK'
  BY StepType DEF FactInv
<1>2. Kept
  <2>1. CASE CreatePost
    BY <2>1, QuietKeeps DEF CreatePost
  <2>2. CASE TimePasses
    <3>1. post'.status = post.status
      BY <2>2 DEF TimePasses, FactInv, TypeOK, Post
    <3>2. QED  BY <2>2, <3>1, QuietKeeps DEF TimePasses
  <2>3. CASE ScanPosts
    BY <2>3, QuietKeeps DEF ScanPosts, postVars
  <2>4. ASSUME NEW j \in Jobs, (Ripen(j) /\ UNCHANGED postVars) \/ HandlePost(j)
        PROVE  Kept
    BY <2>4, QuietKeeps DEF HandlePost, postVars
  <2>5. CASE UNCHANGED vars
    BY <2>5, QuietKeeps DEF vars, postVars
  <2>6. QED
    BY <2>1, <2>2, <2>3, <2>4, <2>5, LoadKeeps, CommitKeeps, EndKeeps, TakeKeeps, PublishKeeps
       DEF Next
<1>3. QED  BY <1>1, <1>2 DEF FactInv, Kept

LEMMA FactInductive == Spec => []FactInv
<1>1. Init => FactInv
  <2>1. ASSUME Init PROVE PublishedParts /\ OnceParts
    BY <2>1 DEF Init, PublishedParts, AcceptedFirst, NeverAsked, PublishedWasAccepted,
                OnceParts, AtWork, Resting, NoRequest, Keep, NoPost
  <2>2. QED  BY <2>1, InitType DEF FactInv
<1>2. FactInv /\ [Next]_vars => FactInv'
  BY FactStep
<1>3. QED  BY <1>1, <1>2, PTL DEF Spec

\* The post, the requests, the jobs and the publishers keep their types.
THEOREM TypeCorrect == Spec => []TypeOK
<1>1. FactInv => TypeOK
  BY DEF FactInv
<1>2. QED  BY <1>1, FactInductive, PTL

\* However requests and publishers interleave and whatever fails, a post is stored as
\* published only after Facebook accepted it.
THEOREM PublishedOnlyAccepted == Spec => []PublishedWasAccepted
<1>1. FactInv => PublishedWasAccepted
  BY DEF FactInv, PublishedParts
<1>2. QED  BY <1>1, FactInductive, PTL

\* For any number of requests and publishers, a post goes out a second time only if two
\* publish tasks ran at once, a task ended between the call and the store of its result,
\* or a later write took the post out of PUBLISHED.
THEOREM SecondPublicationExplained == Spec => []DuplicateExplained
<1>1. FactInv => DuplicateExplained
  BY DEF FactInv, TypeOK, OnceParts, DuplicateExplained
<1>2. QED  BY <1>1, FactInductive, PTL

(***************************************************************************)
(* Scheduled with approved content.                                        *)
(***************************************************************************)
\* The status a publisher stores is none that needs an approval.
LEMMA OthersApproval ==
  ASSUME FactInv, ApprovalParts, UNCHANGED <<req, cleared, crossed>>,
         post'.approval = post.approval, post'.status \in Approving => post'.status = post.status,
         post'.status = "none" => post.status = "none"
  PROVE  ApprovalParts'
<1>1. NobodyBefore'
  BY DEF ApprovalParts, NobodyBefore
<1>2. ASSUME ~crossed PROVE ApprovedIsCleared'
  BY <1>2 DEF ApprovalParts, ApprovedIsCleared
<1>3. ASSUME ~crossed, NEW q \in Requests PROVE RequestOK(req[q])'
  BY <1>3 DEF ApprovalParts, RequestOK
<1>4. QED  BY <1>1, <1>2, <1>3 DEF ApprovalParts

LEMMA LoadApproval ==
  ASSUME FactInv, ApprovalParts, NEW q \in Requests, LoadPost(q)
  PROVE  ApprovalParts'
<1>0. PICK op \in Ops :
        /\ Allowed(op, post) /\ post.status \in PostStatuses
        /\ \E u \in Updates(op, post) : req' = [req EXCEPT ![q] = [op |-> op, update |-> u]]
  BY DEF LoadPost
<1>1. PICK u \in Updates(op, post) : req' = [req EXCEPT ![q] = [op |-> op, update |-> u]]
  BY <1>0
<1>2. UNCHANGED <<post, cleared, crossed>>
  BY DEF LoadPost
<1>3. ~crossed => RequestOK([op |-> op, update |-> u])
  BY <1>0, UpdatesType
     DEF FactInv, TypeOK, RequestOK, ApprovalParts, ApprovedIsCleared, Approving
<1>4. /\ req'[q] = [op |-> op, update |-> u]
      /\ \A r \in Requests : r # q => req'[r] = req[r]
  BY <1>1 DEF FactInv, TypeOK
<1>5. ASSUME ~crossed, NEW r \in Requests PROVE RequestOK(req[r])'
  <2>1. CASE r = q
    BY <1>2, <1>3, <1>4, <1>5, <2>1 DEF RequestOK
  <2>2. CASE r # q
    <3>1. RequestOK(req[r]) /\ req'[r] = req[r]
      BY <1>4, <1>5, <2>2 DEF ApprovalParts
    <3>2. QED  BY <1>2, <3>1 DEF RequestOK
  <2>3. QED  BY <2>1, <2>2
<1>6. NobodyBefore'
  BY <1>0, <1>2 DEF NobodyBefore, PostStatuses
<1>7. QED  BY <1>2, <1>5, <1>6 DEF ApprovalParts, ApprovedIsCleared

LEMMA CommitApproval ==
  ASSUME FactInv, ApprovalParts, NEW q \in Requests, CommitPost(q)
  PROVE  ApprovalParts'
<1> DEFINE u == req[q].update
<1>1. /\ u \in Update /\ post \in Post /\ req[q].op \in Ops \ {"delete"}
      /\ post.status # "deleted"
      /\ cleared' = IF req[q].op \in {"update", "generate"} THEN FALSE
                    ELSE IF req[q].op = "approve" THEN TRUE ELSE cleared
  BY DEF CommitPost, FactInv, TypeOK, Request
<1>2. /\ post'.status = IF u.status = "keep" THEN post.status ELSE u.status
      /\ post'.approval = IF u.approval = "keep" THEN post.approval ELSE u.approval
  BY <1>1, StoredPost DEF CommitPost
<1>3. ~crossed' => /\ ApprovedIsCleared /\ RequestOK(req[q])
                   /\ \A r \in Requests : r # q => req[r].op \notin Ops
  BY DEF CommitPost, ApprovalParts
<1>4. ASSUME ~crossed' PROVE ApprovedIsCleared'
  <2>0. ApprovedIsCleared /\ RequestOK(req[q])
    BY <1>3, <1>4
  <2>1. CASE req[q].op \in {"update", "generate"}
    BY <1>1, <1>2, <2>0, <2>1 DEF RequestOK, ApprovedIsCleared, Approving
  <2>2. CASE req[q].op = "approve"
    BY <1>1, <2>2 DEF ApprovedIsCleared
  <2>3. CASE req[q].op = "reject"
    BY <1>1, <1>2, <2>0, <2>3 DEF RequestOK, ApprovedIsCleared, Approving
  <2>4. CASE req[q].op \in {"schedule", "publish"}
    BY <1>1, <1>2, <2>0, <2>4 DEF RequestOK, ApprovedIsCleared, Approving
  <2>5. QED  BY <1>1, <2>1, <2>2, <2>3, <2>4 DEF Ops
<1>5. /\ req'[q].op \in {"none", "job", "task"}
      /\ \A r \in Requests : r # q => req'[r] = req[r]
  BY DEF CommitPost, After, NoRequest, FactInv, TypeOK
<1>6. ASSUME ~crossed', NEW r \in Requests PROVE RequestOK(req[r])'
  <2>1. req'[r].op \notin Ops
    BY <1>3, <1>5, <1>6 DEF Ops
  <2>2. QED  BY <2>1 DEF RequestOK, Ops
<1>7. NobodyBefore'
  <2>1. post.status # "none"
    BY <1>1 DEF ApprovalParts, NobodyBefore, Ops
  <2>2. post'.status # "none"
    BY <1>1, <1>2, <2>1 DEF Update, PostStatuses
  <2>3. QED  BY <2>2 DEF NobodyBefore
<1>8. QED  BY <1>4, <1>6, <1>7 DEF ApprovalParts

LEMMA EndApproval ==
  ASSUME FactInv, ApprovalParts, NEW q \in Requests,
         \/ DeletePost(q) \/ CreateScheduleJob(q) \/ SubmitPublish(q) \/ RequestFails(q)
  PROVE  ApprovalParts'
<1>1. /\ req' = [req EXCEPT ![q] = NoRequest] /\ UNCHANGED <<cleared, crossed>>
      /\ post' = post \/ (post'.status = "deleted" /\ post'.approval = "free")
  BY DEF DeletePost, CreateScheduleJob, SubmitPublish, RequestFails, End, NoPost
<1>2. ~crossed => ApprovedIsCleared'
  BY <1>1 DEF ApprovalParts, ApprovedIsCleared, Approving
<1>3. req'[q].op = "none" /\ \A r \in Requests : r # q => req'[r] = req[r]
  BY <1>1 DEF NoRequest, FactInv, TypeOK
<1>4. ASSUME ~crossed, NEW r \in Requests PROVE RequestOK(req[r])'
  <2>1. CASE r = q
    BY <1>3, <2>1 DEF RequestOK
  <2>2. CASE r # q
    <3>1. RequestOK(req[r]) /\ req'[r] = req[r]
      BY <1>3, <1>4, <2>2 DEF ApprovalParts
    <3>2. QED  BY <1>1, <3>1 DEF RequestOK, Approving
  <2>3. QED  BY <2>1, <2>2
<1>5. NobodyBefore'
  BY <1>1, <1>3 DEF ApprovalParts, NobodyBefore
<1>6. QED  BY <1>1, <1>2, <1>4, <1>5 DEF ApprovalParts

LEMMA ApprovalStep ==
  ASSUME FactInv, ApprovalParts, [Next]_vars
  PROVE  ApprovalParts'
<1>1. CASE CreatePost
  <2>1. post.status = "none" /\ post'.status = "DRAFT" /\ UNCHANGED <<req, cleared, crossed>>
    BY <1>1 DEF CreatePost
  <2>2. ApprovedIsCleared'
    BY <2>1 DEF ApprovedIsCleared, Approving
  <2>3. NobodyBefore'
    BY <2>1 DEF NobodyBefore
  <2>4. ASSUME NEW q \in Requests PROVE RequestOK(req[q])'
    <3>1. req'[q].op = "none"
      BY <2>1 DEF ApprovalParts, NobodyBefore
    <3>2. QED  BY <3>1 DEF RequestOK
  <2>5. QED  BY <2>2, <2>3, <2>4 DEF ApprovalParts
<1>2. CASE TimePasses
  <2>1. post'.status = post.status /\ post'.approval = post.approval
    BY <1>2 DEF TimePasses, FactInv, TypeOK, Post
  <2>2. QED  BY <1>2, <2>1, OthersApproval DEF TimePasses
<1>3. CASE ScanPosts
  BY <1>3, OthersApproval DEF ScanPosts, postVars
<1>4. ASSUME NEW j \in Jobs, (Ripen(j) /\ UNCHANGED postVars) \/ HandlePost(j)
      PROVE  ApprovalParts'
  BY <1>4, OthersApproval DEF HandlePost, postVars
<1>5. ASSUME NEW p \in Publishers, TakeTask(p) \/ Publish(p)
      PROVE  ApprovalParts'
  <2>1. CASE ApplyResult(p)
    <3>1. /\ pub[p].result \in {"PUBLISHED", "FAILED"}
          /\ post'.status = IF pub[p].result = pub[p].seen.status THEN post.status
                            ELSE pub[p].result
          /\ post'.approval = post.approval
      BY <2>1, AppliedHeld DEF FactInv
    <3>2. UNCHANGED <<req, cleared, crossed>>
      BY <2>1 DEF ApplyResult
    <3>3. QED  BY <3>1, <3>2, OthersApproval DEF Approving
  <2>2. CASE ~ApplyResult(p)
    <3>1. UNCHANGED <<post, req, cleared, crossed>>
      BY <1>5, <2>2
         DEF TakeTask, Publish, CallFacebook, CallBreaks, CreateRetryJob, PublisherDies
    <3>2. QED  BY <3>1, OthersApproval
  <2>3. QED  BY <2>1, <2>2
<1>6. CASE UNCHANGED vars
  BY <1>6, OthersApproval DEF vars, postVars
<1>7. QED
  BY <1>1, <1>2, <1>3, <1>4, <1>5, <1>6, LoadApproval, CommitApproval, EndApproval DEF Next

\* A post that requires approval is SCHEDULED only with content approved since it last
\* changed, for any number of requests, however many publish tasks of earlier schedules
\* run meanwhile and whatever fails, until a request writes the post while another has it
\* loaded.
THEOREM SchedulesApproved == Spec => []ScheduledWasApproved
<1>1. Init => ApprovalParts
  BY DEF Init, ApprovalParts, ApprovedIsCleared, NobodyBefore, RequestOK, NoPost, NoRequest, Approving
<1>2. FactInv /\ ApprovalParts /\ [Next]_vars => ApprovalParts'
  BY ApprovalStep
<1>3. ApprovalParts => ScheduledWasApproved
  BY DEF ApprovalParts, ApprovedIsCleared, Approving, ScheduledWasApproved
<1>4. QED  BY <1>1, <1>2, <1>3, FactInductive, PTL DEF Spec
================================================================================
