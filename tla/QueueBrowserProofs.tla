------------------------- MODULE QueueBrowserProofs -------------------------
(***************************************************************************)
(* What the queues tab keeps, for any queues, jobs, states and channel     *)
(* sizes: once everything has arrived, a page and a job are those of the   *)
(* heading they are under, and a page is never of another state.           *)
(*                                                                         *)
(* The answers arrive in the order of their requests.  So it is the last   *)
(* load of a kind that counts, wherever it is on its way, and the          *)
(* invariant says that the last one is the one the heading asks for.       *)
(***************************************************************************)
EXTENDS QueueBrowser, DataFacts

-----------------------------------------------------------------------------
(* The load that counts                                                    *)

PageLoads == {LoadJobs(q, s) : q \in Queues, s \in States}
JobLoads == {LoadJob(q, i) : q \in Queues, i \in Ids}
AnswersOf(K) == UNION {Answers(r) : r \in K}

\* The last request of the kind K, or its answer, is on its way, and it is w.
Due(w, K, requests, taken, updates) ==
  \/ LastIs(requests, K, {w})
  \/ Quiet(requests, 0, K) /\ taken = w
  \/ Quiet(requests, 0, K) /\ taken \notin K /\ LastIs(updates, AnswersOf(K), Answers(w))

\* Nothing of the kind K is on its way.
Rest(K, requests, taken, updates) ==
  Quiet(requests, 0, K) /\ taken \notin K /\ Quiet(updates, 0, AnswersOf(K))

WantedPage == LoadJobs(SelectedQueue, jobState)
WantedJob == LoadJob(SelectedQueue, SelectedJob)

-----------------------------------------------------------------------------
(* The invariant                                                           *)

PageFits ==
  (level # "Queues" /\ "jobs" \notin overtaken) =>
    /\ SelectedQueue # None
    /\ \/ Due(WantedPage, PageLoads, req, working, upd)
       \/ /\ Rest(PageLoads, req, working, upd)
          /\ Ready(jobs) => jobs.queue = SelectedQueue

JobFits ==
  (level = "Job" /\ overtaken = {}) =>
    /\ SelectedQueue # None /\ SelectedJob # None
    /\ \/ Due(WantedJob, JobLoads, req, working, upd)
       \/ /\ Rest(JobLoads, req, working, upd)
          /\ Ready(job) => job.queue = SelectedQueue /\ job.id = SelectedJob

StateFits == (Ready(jobs) /\ "jobs" \notin overtaken) => jobs.state = jobState

Inv == QueuesTypeOK /\ StateFits /\ PageFits /\ JobFits

-----------------------------------------------------------------------------
(* Requests and answers                                                    *)

LEMMA Fields ==
  /\ LoadQueues.op = "LoadQueues"
  /\ \A q, t : LoadJobs(q, t).op = "LoadJobs" /\ LoadJobs(q, t).queue = q /\ LoadJobs(q, t).state = t
  /\ \A q, i : LoadJob(q, i).op = "LoadJob" /\ LoadJob(q, i).queue = q /\ LoadJob(q, i).id = i
  /\ Idle.is = "Idle" /\ Loading.is = "Loading" /\ Failed.is = "Failed"
  /\ \A l : List(l).is = "Ready" /\ List(l).list = l
  /\ \A q, t, l : /\ Page(q, t, l).is = "Ready" /\ Page(q, t, l).list = l
                  /\ Page(q, t, l).queue = q /\ Page(q, t, l).state = t
  /\ \A q, i : Job(q, i).is = "Ready" /\ Job(q, i).queue = q /\ Job(q, i).id = i
  BY DEF LoadQueues, LoadJobs, LoadJob, Idle, Loading, Failed, List, Page, Job

LEMMA RequestIs ==
  /\ LoadQueues \in Request /\ LoadQueues \notin PageLoads \cup JobLoads
  /\ PageLoads \subseteq Request /\ JobLoads \subseteq Request /\ PageLoads \cap JobLoads = {}
  /\ \A r \in Request : r = LoadQueues \/ r \in PageLoads \/ r \in JobLoads
  /\ \A q \in Queues, t \in States : LoadJobs(q, t) \in PageLoads
  /\ \A q \in Queues, i \in Ids : LoadJob(q, i) \in JobLoads
  BY Fields DEF Request, PageLoads, JobLoads

LEMMA QueuesAnswer ==
  Answers(LoadQueues) = {[op |-> "Queues", data |-> p] : p \in {Failed} \cup {List(l) : l \in QueueLists}}
  BY Fields DEF Answers

LEMMA PageAnswer ==
  ASSUME NEW q, NEW t
  PROVE  Answers(LoadJobs(q, t)) =
           {[op |-> "Jobs", state |-> t, data |-> p] : p \in {Failed} \cup {Page(q, t, l) : l \in IdLists}}
  BY Fields DEF Answers

LEMMA JobAnswer ==
  ASSUME NEW q, NEW i
  PROVE  Answers(LoadJob(q, i)) = {[op |-> "Job", data |-> p] : p \in {Failed, Job(q, i)}}
  BY Fields DEF Answers

\* An answer tells the kind of its request.
LEMMA AnswerKinds ==
  ASSUME NEW r \in Request, NEW a \in Answers(r)
  PROVE  /\ a \in Update
         /\ a.op = "Queues" <=> r = LoadQueues
         /\ a.op = "Jobs" <=> r \in PageLoads
         /\ a.op = "Job" <=> r \in JobLoads
<1>1. CASE r = LoadQueues
  BY <1>1, QueuesAnswer, RequestIs DEF Update
<1>2. CASE r \in PageLoads
  <2>1. PICK q \in Queues, t \in States : r = LoadJobs(q, t)
    BY <1>2 DEF PageLoads
  <2> QED BY <1>2, <2>1, PageAnswer, RequestIs DEF Update
<1>3. CASE r \in JobLoads
  <2>1. PICK q \in Queues, i \in Ids : r = LoadJob(q, i)
    BY <1>3 DEF JobLoads
  <2> QED BY <1>3, <2>1, JobAnswer, RequestIs DEF Update
<1> QED BY <1>1, <1>2, <1>3, RequestIs

LEMMA AnswersOfKinds ==
  ASSUME NEW u \in Update
  PROVE  /\ u.op \in {"Queues", "Jobs", "Job"}
         /\ u \in AnswersOf(PageLoads) <=> u.op = "Jobs"
         /\ u \in AnswersOf(JobLoads) <=> u.op = "Job"
<1>1. PICK r \in Request : u \in Answers(r)
  BY DEF Update
<1>2. \A K : u \in AnswersOf(K) <=> \E k \in K : u \in Answers(k)
  BY DEF AnswersOf
<1> QED BY <1>1, <1>2, AnswerKinds, RequestIs

\* What the three updates bring.
LEMMA Brings ==
  ASSUME NEW u \in Update
  PROVE  /\ u.op = "Queues" => u.data = Failed \/ \E l \in QueueLists : u.data = List(l)
         /\ u.op = "Jobs" =>
              /\ u.state \in States
              /\ u.data = Failed \/ \E q \in Queues, l \in IdLists : u.data = Page(q, u.state, l)
         /\ u.op = "Job" => u.data = Failed \/ \E q \in Queues, i \in Ids : u.data = Job(q, i)
<1>1. PICK r \in Request : u \in Answers(r)
  BY DEF Update
<1>2. CASE r = LoadQueues
  BY <1>1, <1>2, QueuesAnswer
<1>3. CASE r \in PageLoads
  <2>1. PICK q \in Queues, t \in States : r = LoadJobs(q, t)
    BY <1>3 DEF PageLoads
  <2> QED BY <1>1, <2>1, PageAnswer
<1>4. CASE r \in JobLoads
  <2>1. PICK q \in Queues, i \in Ids : r = LoadJob(q, i)
    BY <1>4 DEF JobLoads
  <2> QED BY <1>1, <2>1, JobAnswer
<1> QED BY <1>2, <1>3, <1>4, RequestIs

-----------------------------------------------------------------------------
(* The load that counts, from step to step                                 *)

Kinds == {PageLoads, JobLoads}

LEMMA KindOfAnswer ==
  ASSUME NEW K \in Kinds, NEW r \in Request, NEW a \in Answers(r)
  PROVE  a \in AnswersOf(K) <=> r \in K
  BY AnswerKinds, AnswersOfKinds DEF Kinds

LEMMA Sent ==
  ASSUME NEW K \in Kinds, NEW w \in K, NEW s \in Seq(Request), NEW b, NEW u, NEW r \in Request
  PROVE  /\ r = w => Due(w, K, Append(s, r), b, u)
         /\ r \notin K => /\ Due(w, K, s, b, u) => Due(w, K, Append(s, r), b, u)
                          /\ Rest(K, s, b, u) => Rest(K, Append(s, r), b, u)
<1>1. /\ LastIs(Append(s, r), K, {w}) <=> r \in {w} \/ (r \notin K /\ LastIs(s, K, {w}))
      /\ Quiet(Append(s, r), 0, K) <=> r \notin K /\ Quiet(s, 0, K)
  <2> DEFINE W == {w}
  <2>1. W \subseteq K
    OBVIOUS
  <2> HIDE DEF W
  <2>2. LastIs(Append(s, r), K, W) <=> r \in W \/ (r \notin K /\ LastIs(s, K, W))
    BY <2>1, LastAtBoth
  <2> USE DEF W
  <2> QED BY <2>2, QuietAtBoth
<1> QED BY <1>1 DEF Due, Rest

LEMMA Taken ==
  ASSUME NEW K \in Kinds, NEW w \in K, NEW s \in Seq(Request), s # <<>>, NEW u
  PROVE  /\ Due(w, K, s, None, u) => Due(w, K, Tail(s), Head(s), u)
         /\ Rest(K, s, None, u) => Rest(K, Tail(s), Head(s), u)
<1>1. /\ LastIs(s, K, {w}) <=> (Head(s) \in {w} /\ Quiet(Tail(s), 0, K)) \/ LastIs(Tail(s), K, {w})
      /\ Quiet(s, 0, K) <=> Head(s) \notin K /\ Quiet(Tail(s), 0, K)
  BY LastAtBoth, QuietAtBoth
<1>2. None # w
  BY RequestIs, NoneAssumption DEF Kinds
<1> QED BY <1>1, <1>2 DEF Due, Rest

LEMMA Replied ==
  ASSUME NEW K \in Kinds, NEW w \in K, NEW s, NEW r \in Request, NEW u \in Seq(Update),
         NEW a \in Answers(r)
  PROVE  /\ Due(w, K, s, r, u) => Due(w, K, s, None, Append(u, a))
         /\ Rest(K, s, r, u) => Rest(K, s, None, Append(u, a))
<1> DEFINE A == AnswersOf(K)
<1>1. a \in Update /\ (a \in A <=> r \in K) /\ Answers(w) \subseteq A
  BY AnswerKinds, KindOfAnswer DEF AnswersOf
<1>2. /\ LastIs(Append(u, a), A, Answers(w))
           <=> a \in Answers(w) \/ (a \notin A /\ LastIs(u, A, Answers(w)))
      /\ Quiet(Append(u, a), 0, A) <=> a \notin A /\ Quiet(u, 0, A)
  BY <1>1, LastAtBoth, QuietAtBoth
<1>3. None \notin K
  BY RequestIs, NoneAssumption DEF Kinds
<1> HIDE DEF A
<1>4. ASSUME Due(w, K, s, r, u) PROVE Due(w, K, s, None, Append(u, a))
  BY <1>1, <1>2, <1>3, <1>4 DEF Due, A
<1> QED BY <1>1, <1>2, <1>3, <1>4 DEF Rest, A

\* The update applied is one of another kind, or the answer that was due.
LEMMA Arrived ==
  ASSUME NEW K \in Kinds, NEW w \in K, NEW s, NEW b, NEW u \in Seq(Update), u # <<>>
  PROVE  /\ Rest(K, s, b, u) => Head(u) \notin AnswersOf(K) /\ Rest(K, s, b, Tail(u))
         /\ Due(w, K, s, b, u) => \/ Due(w, K, s, b, Tail(u))
                                  \/ Head(u) \in Answers(w) /\ Rest(K, s, b, Tail(u))
<1> DEFINE A == AnswersOf(K)
<1>1. Answers(w) \subseteq A
  BY DEF AnswersOf
<1>2. /\ LastIs(u, A, Answers(w))
           <=> (Head(u) \in Answers(w) /\ Quiet(Tail(u), 0, A)) \/ LastIs(Tail(u), A, Answers(w))
      /\ Quiet(u, 0, A) <=> Head(u) \notin A /\ Quiet(Tail(u), 0, A)
  BY <1>1, LastAtBoth, QuietAtBoth
<1> HIDE DEF A
<1> QED BY <1>2 DEF Due, Rest, A

-----------------------------------------------------------------------------
(* Cursors and panes                                                       *)

Unread == {Idle, Loading, Failed}

LEMMA Lists ==
  /\ \A l \in QueueLists : l \in Seq(Queues)
  /\ \A l \in IdLists : l \in Seq(Ids)
<1>1. ASSUME NEW l \in QueueLists PROVE l \in Seq(Queues)
  <2>1. {l[i] : i \in 1..Len(l)} \subseteq Queues
    BY DEF Queues, ElementsOf
  <2>2. l \in Seq({l[i] : i \in 1..Len(l)})
    BY QueueAssumption
  <2> QED BY <2>1, <2>2
<1>2. ASSUME NEW l \in IdLists PROVE l \in Seq(Ids)
  <2>1. {l[i] : i \in 1..Len(l)} \subseteq Ids
    BY DEF Ids, ElementsOf
  <2>2. l \in Seq({l[i] : i \in 1..Len(l)})
    BY QueueAssumption
  <2> QED BY <2>1, <2>2
<1> QED BY <1>1, <1>2

\* A pane that is not ready selects nothing, a ready one what is under the cursor.
LEMMA Selects ==
  /\ \A pane \in Unread : \A c : Selected(pane, c) = None /\ ~Ready(pane)
  /\ \A S, pane : \A l \in Seq(S), c \in Nat \ {0} :
       (Ready(pane) /\ pane.list = l) =>
         Selected(pane, c) = IF c <= Len(l) THEN l[c] ELSE None
  /\ \A S : \A l \in Seq(S), c \in Nat \ {0} : c <= Len(l) => l[c] \in S
  BY Fields DEF Unread, Selected, Ready

LEMMA ClampedFits ==
  ASSUME NEW S, NEW l \in Seq(S), NEW c \in Nat \ {0}
  PROVE  Clamped(c, l) \in Nat \ {0} /\ (l # <<>> => Clamped(c, l) <= Len(l))
  BY DEF Clamped

\* The cursors in other words: on the list, where there is one.
QueueCursor == (Ready(queues) /\ queues.list # <<>>) => qcursor <= Len(queues.list)
JobCursor == (Ready(jobs) /\ jobs.list # <<>>) => jcursor <= Len(jobs.list)

Types ==
  /\ level \in {"Queues", "Jobs", "Job"} /\ jobState \in States
  /\ qcursor \in Nat \ {0} /\ jcursor \in Nat \ {0}
  /\ queues \in Unread \cup {List(l) : l \in QueueLists}
  /\ jobs \in Unread \cup {Page(q, s, l) : q \in Queues, s \in States, l \in IdLists}
  /\ job \in Unread \cup {Job(q, i) : q \in Queues, i \in Ids}
  /\ req \in Seq(Request) /\ Len(req) <= ReqCap
  /\ upd \in Seq(Update) /\ Len(upd) <= UpdCap
  /\ working \in Request \cup {None} /\ overtaken \subseteq {"jobs", "job"}

LEMMA PaneIs ==
  ASSUME Types
  PROVE  /\ IF Ready(queues) THEN queues.list \in QueueLists ELSE queues \in Unread
         /\ IF Ready(jobs) THEN jobs.list \in IdLists /\ jobs.queue \in Queues ELSE jobs \in Unread
         /\ SelectedQueue \in Queues \cup {None} /\ SelectedJob \in Ids \cup {None}
         /\ SelectedQueue # None <=> Ready(queues) /\ qcursor <= Len(queues.list)
         /\ SelectedJob # None <=> Ready(jobs) /\ jcursor <= Len(jobs.list)
<1>1. IF Ready(queues) THEN queues.list \in QueueLists ELSE queues \in Unread
  BY Fields DEF Types, Ready, Unread
<1>2. IF Ready(jobs) THEN jobs.list \in IdLists /\ jobs.queue \in Queues ELSE jobs \in Unread
  BY Fields DEF Types, Ready, Unread
<1>3. /\ SelectedQueue \in Queues \cup {None}
      /\ SelectedQueue # None <=> Ready(queues) /\ qcursor <= Len(queues.list)
  <2>1. CASE Ready(queues)
    <3>1. queues.list \in Seq(Queues) /\ qcursor \in Nat \ {0}
      BY <1>1, <2>1, Lists DEF Types
    <3> QED BY <3>1, <2>1, NoneAssumption DEF SelectedQueue, Selected
  <2> QED BY <2>1 DEF SelectedQueue, Selected
<1>4. /\ SelectedJob \in Ids \cup {None}
      /\ SelectedJob # None <=> Ready(jobs) /\ jcursor <= Len(jobs.list)
  <2>1. CASE Ready(jobs)
    <3>1. jobs.list \in Seq(Ids) /\ jcursor \in Nat \ {0}
      BY <1>2, <2>1, Lists DEF Types
    <3> QED BY <3>1, <2>1, NoneAssumption DEF SelectedJob, Selected
  <2> QED BY <2>1 DEF SelectedJob, Selected
<1> QED BY <1>1, <1>2, <1>3, <1>4

LEMMA TypesAre == QueuesTypeOK <=> Types /\ QueueCursor /\ JobCursor
<1>1. QueuesTypeOK => Types
  BY DEF QueuesTypeOK, Types, Unread
<1>2. ASSUME Types
      PROVE  QueuesTypeOK <=> QueueCursor /\ JobCursor
  BY <1>2, PaneIs DEF QueuesTypeOK, Types, Unread, QueueCursor, JobCursor
<1> QED BY <1>1, <1>2

-----------------------------------------------------------------------------
(* The types are kept                                                      *)

LEMMA Asking ==
  ASSUME Types, NEW r \in Request, Send(r)
  PROVE  /\ req' \in Seq(Request) /\ Len(req') <= ReqCap
         /\ Asked \in Unread /\ ~Ready(Asked)
         /\ Accepts => req' = Append(req, r) /\ Asked = Loading
         /\ ~Accepts => req' = req
  BY QueueAssumption, Fields DEF Types, Send, Accepts, Asked, Unread, Ready

LEMMA Typed ==
  ASSUME QueuesTypeOK, [Next]_vars
  PROVE  QueuesTypeOK'
<1> USE DEF panes, place
<1>0. Types /\ QueueCursor /\ JobCursor
  BY TypesAre
<1>q. SelectedQueue \in Queues \cup {None} /\ SelectedJob \in Ids \cup {None}
  BY <1>0, PaneIs
<1> SUFFICES Types' /\ QueueCursor' /\ JobCursor'
  BY TypesAre, PTL
<1>1. ASSUME MoveCursor PROVE Types' /\ QueueCursor' /\ JobCursor'
  BY <1>0, <1>1, PaneIs, Lists DEF Types, QueueCursor, JobCursor, MoveCursor
<1>a. ASSUME NEW t \in States, AskJobs(t), UNCHANGED <<qcursor, upd, working>>, jobState' \in States,
             level' \in {"Queues", "Jobs", "Job"}, jcursor' = 1
      PROVE  Types' /\ QueueCursor' /\ JobCursor'
  <2>1. CASE SelectedQueue = None
    BY <1>0, <1>a, <2>1 DEF Types, QueueCursor, JobCursor, AskJobs, Note
  <2>2. CASE SelectedQueue # None
    BY <1>0, <1>a, <1>q, <2>2, RequestIs, Asking DEF Types, QueueCursor, JobCursor, AskJobs, Note
  <2> QED BY <2>1, <2>2
<1>2. ASSUME CycleState PROVE Types' /\ QueueCursor' /\ JobCursor'
  <2>1. jobState' \in States
    BY <1>0, <1>2, QueueAssumption DEF CycleState, Types, States
  <2> QED BY <1>2, <1>a, <2>1 DEF CycleState
<1>3. ASSUME EnterQueue PROVE Types' /\ QueueCursor' /\ JobCursor'
  BY <1>0, <1>3, <1>a DEF EnterQueue, Types
<1>b. ASSUME AskJob, UNCHANGED <<qcursor, jcursor, jobState, upd, working>>,
             level' \in {"Queues", "Jobs", "Job"}
      PROVE  Types' /\ QueueCursor' /\ JobCursor'
  <2>1. CASE SelectedQueue = None \/ SelectedJob = None
    BY <1>0, <1>b, <2>1 DEF Types, QueueCursor, JobCursor, AskJob, Note
  <2>2. CASE ~(SelectedQueue = None \/ SelectedJob = None)
    BY <1>0, <1>b, <1>q, <2>2, RequestIs, Asking DEF Types, QueueCursor, JobCursor, AskJob, Note
  <2> QED BY <2>1, <2>2
<1>4. ASSUME EnterJob PROVE Types' /\ QueueCursor' /\ JobCursor'
  BY <1>4, <1>b DEF EnterJob
<1>5. ASSUME Back PROVE Types' /\ QueueCursor' /\ JobCursor'
  BY <1>0, <1>5 DEF Types, QueueCursor, JobCursor, Back
<1>6. ASSUME Reload \/ Reopen PROVE Types' /\ QueueCursor' /\ JobCursor'
  <2>0. UNCHANGED <<place, upd, working>> /\ (AskQueues \/ AskJobs(jobState) \/ AskJob)
    BY <1>6 DEF Reload, Reopen, LoadView
  <2>1. CASE AskQueues
    BY <1>0, <2>0, <2>1, RequestIs, Asking DEF Types, QueueCursor, JobCursor, AskQueues
  <2>2. CASE AskJobs(jobState)
    <3>1. UNCHANGED <<queues, qcursor, jcursor, jobState, level, upd, working>>
      BY <2>0, <2>2 DEF AskJobs
    <3>2. CASE SelectedQueue = None
      BY <1>0, <2>2, <3>1, <3>2 DEF Types, QueueCursor, JobCursor, AskJobs, Note
    <3>3. CASE SelectedQueue # None
      BY <1>0, <2>2, <1>q, <3>1, <3>3, RequestIs, Asking
      DEF Types, QueueCursor, JobCursor, AskJobs, Note
    <3> QED BY <3>2, <3>3
  <2>3. CASE AskJob
    BY <1>0, <1>b, <2>0, <2>3 DEF Types
  <2> QED BY <2>0, <2>1, <2>2, <2>3
<1>c. ASSUME upd # <<>>, upd' = Tail(upd)
      PROVE  Head(upd) \in Update /\ upd' \in Seq(Update) /\ Len(upd') <= UpdCap
  BY <1>0, <1>c, QueueAssumption DEF Types
<1>7. ASSUME ApplyQueues PROVE Types' /\ QueueCursor' /\ JobCursor'
  <2>0. Head(upd) \in Update /\ upd' \in Seq(Update) /\ Len(upd') <= UpdCap
    BY <1>7, <1>c DEF ApplyQueues, Next1
  <2>1. queues' = Failed \/ \E l \in QueueLists : queues' = List(l)
    BY <1>7, <2>0, Brings DEF ApplyQueues, Next1
  <2>2. CASE queues' = Failed
    <3>1. ~Ready(queues') /\ qcursor' = qcursor /\ overtaken' \in {overtaken, overtaken \cup {"jobs", "job"}}
      <4>1. ~Ready(queues')
        BY <2>2, Selects DEF Unread
      <4> QED BY <1>7, <4>1 DEF ApplyQueues
    <3>2. UNCHANGED <<level, jcursor, jobState, jobs, job, req, working>>
      BY <1>7 DEF ApplyQueues
    <3>3. Types'
      BY <1>0, <2>0, <2>2, <3>1, <3>2 DEF Types, Unread
    <3> QED BY <1>0, <3>1, <3>2, <3>3 DEF QueueCursor, JobCursor
  <2>3. CASE \E l \in QueueLists : queues' = List(l)
    <3>1. PICK l \in QueueLists : queues' = List(l)
      BY <2>3
    <3>2. Ready(queues') /\ queues'.list = l /\ qcursor' = Clamped(qcursor, l)
      BY <1>7, <3>1, Fields DEF ApplyQueues, Ready
    <3>3. qcursor' \in Nat \ {0} /\ (l # <<>> => qcursor' <= Len(l))
      BY <1>0, <3>2, Lists, ClampedFits DEF Types
    <3> QED BY <1>0, <1>7, <2>0, <3>1, <3>2, <3>3 DEF Types, QueueCursor, JobCursor, ApplyQueues
  <2> QED BY <2>1, <2>2, <2>3
<1>8. ASSUME ApplyJobs PROVE Types' /\ QueueCursor' /\ JobCursor'
  <2>0. Head(upd) \in Update /\ upd' \in Seq(Update) /\ Len(upd') <= UpdCap
    BY <1>8, <1>c DEF ApplyJobs, Next1
  <2>1. CASE Head(upd).state # jobState
    <3>1. UNCHANGED <<level, qcursor, jobState, queues, jobs, jcursor, overtaken, job, req, working>>
      BY <1>8, <2>1 DEF ApplyJobs
    <3> QED BY <1>0, <2>0, <3>1 DEF Types, QueueCursor, JobCursor
  <2>2. CASE Head(upd).state = jobState
    <3>1. jobs' = Failed \/ \E q \in Queues, l \in IdLists : jobs' = Page(q, jobState, l)
      BY <1>8, <2>0, <2>2, Brings DEF ApplyJobs, Next1
    <3>2. CASE jobs' = Failed
      <4>1. /\ UNCHANGED <<level, qcursor, jobState, queues, job, req, working>>
            /\ overtaken' \subseteq overtaken \cup {"job"}
            /\ ~Ready(Failed) /\ Failed \in Unread
        BY <1>8, <2>2, Selects DEF ApplyJobs, Unread
      <4>2. jcursor' = jcursor
        BY <1>8, <2>2, <3>2, <4>1 DEF ApplyJobs
      <4> QED BY <1>0, <2>0, <3>2, <4>1, <4>2 DEF Types, QueueCursor, JobCursor
    <3>3. CASE \E q \in Queues, l \in IdLists : jobs' = Page(q, jobState, l)
      <4>1. PICK q \in Queues, l \in IdLists : jobs' = Page(q, jobState, l)
        BY <3>3
      <4>2. Ready(jobs') /\ jobs'.list = l /\ jcursor' = Clamped(jcursor, l)
        BY <1>8, <2>2, <4>1, Fields DEF ApplyJobs, Ready
      <4>3. jcursor' \in Nat \ {0} /\ (l # <<>> => jcursor' <= Len(l))
        BY <1>0, <4>2, Lists, ClampedFits DEF Types
      <4> QED BY <1>0, <1>8, <2>0, <2>2, <4>1, <4>2, <4>3
              DEF Types, QueueCursor, JobCursor, ApplyJobs
    <3> QED BY <3>1, <3>2, <3>3
  <2> QED BY <2>1, <2>2
<1>9. ASSUME ApplyJob PROVE Types' /\ QueueCursor' /\ JobCursor'
  <2>0. Head(upd) \in Update /\ upd' \in Seq(Update) /\ Len(upd') <= UpdCap
    BY <1>9, <1>c DEF ApplyJob, Next1
  <2>1. job' \in {Failed} \cup {Job(q, i) : q \in Queues, i \in Ids}
    BY <1>9, <2>0, Brings DEF ApplyJob, Next1
  <2> QED BY <1>0, <1>9, <2>0, <2>1 DEF Types, QueueCursor, JobCursor, ApplyJob, Unread
<1>10. ASSUME WorkerTake PROVE Types' /\ QueueCursor' /\ JobCursor'
  <2>1. Head(req) \in Request /\ Tail(req) \in Seq(Request) /\ Len(Tail(req)) <= ReqCap
    BY <1>0, <1>10, QueueAssumption DEF Types, WorkerTake
  <2> QED BY <1>0, <1>10, <2>1 DEF Types, QueueCursor, JobCursor, WorkerTake
<1>11. ASSUME WorkerReply PROVE Types' /\ QueueCursor' /\ JobCursor'
  <2>1. working \in Request /\ \A a \in Answers(working) : a \in Update
    BY <1>0, <1>11 DEF Types, WorkerReply, Update
  <2>2. upd' \in Seq(Update) /\ Len(upd') <= UpdCap
    BY <1>0, <1>11, <2>1, QueueAssumption DEF Types, WorkerReply
  <2> QED BY <1>0, <1>11, <2>2 DEF Types, QueueCursor, JobCursor, WorkerReply
<1>12. ASSUME UNCHANGED vars PROVE Types' /\ QueueCursor' /\ JobCursor'
  BY <1>0, <1>12 DEF Types, QueueCursor, JobCursor, vars
<1> QED
  BY <1>1, <1>2, <1>3, <1>4, <1>5, <1>6, <1>7, <1>8, <1>9, <1>10, <1>11, <1>12
  DEF Next, Keypress, Apply

-----------------------------------------------------------------------------
(* The panes keep fitting                                                  *)

LEMMA Wanted ==
  ASSUME Types
  PROVE  /\ SelectedQueue # None => WantedPage \in PageLoads
         /\ SelectedQueue # None /\ SelectedJob # None => WantedJob \in JobLoads
  BY PaneIs, RequestIs DEF Types, WantedPage, WantedJob

\* A page asked for is the one wanted, or counts as overtaken.
LEMMA PageAsked ==
  ASSUME Types, AskJobs(jobState'), jobState' \in States,
         UNCHANGED <<qcursor, working, upd>>
  PROVE  StateFits' /\ PageFits'
<1>1. CASE SelectedQueue = None \/ ~Accepts
  BY <1>1 DEF AskJobs, Note, StateFits, PageFits
<1>2. CASE SelectedQueue # None /\ Accepts
  <2> DEFINE w == LoadJobs(SelectedQueue, jobState')
  <2>1. WantedPage' = w /\ SelectedQueue' = SelectedQueue
    BY DEF AskJobs, SelectedQueue, WantedPage
  <2>2. w \in PageLoads /\ w \in Request /\ req' = Append(req, w) /\ req \in Seq(Request)
    BY <1>2, PaneIs, RequestIs, Asking DEF AskJobs, Types
  <2> HIDE DEF w
  <2>3. Due(w, PageLoads, req', working, upd)
    BY <2>2, Sent DEF Kinds
  <2>4. Due(WantedPage, PageLoads, req, working, upd)'
    BY <2>1, <2>3
  <2>5. ~Ready(jobs')
    BY <1>2, <2>2, Fields DEF AskJobs, Asked, Ready
  <2> QED BY <1>2, <2>1, <2>4, <2>5 DEF PageFits, StateFits
<1> QED BY <1>1, <1>2

\* So is a job asked for, and the page stays what it was.
LEMMA JobAsked ==
  ASSUME Inv, QueuesTypeOK', level # "Queues", level' # "Queues", AskJob,
         UNCHANGED <<qcursor, jcursor, jobState, working, upd>>
  PROVE  StateFits' /\ PageFits' /\ JobFits'
<1>0. Types /\ req \in Seq(Request)
  BY TypesAre DEF Inv, Types
<1>1. /\ SelectedQueue' = SelectedQueue /\ SelectedJob' = SelectedJob
      /\ WantedPage' = WantedPage /\ WantedJob' = WantedJob /\ jobs' = jobs
  BY DEF AskJob, SelectedQueue, SelectedJob, WantedPage, WantedJob
<1>2. "jobs" \notin overtaken' => "jobs" \notin overtaken
  BY DEF AskJob, Note
<1>3. StateFits'
  BY <1>1, <1>2 DEF Inv, StateFits
<1>4. CASE SelectedQueue = None \/ SelectedJob = None \/ ~Accepts
  <2>1. overtaken' # {} /\ req' = req
    BY <1>4 DEF AskJob, Note, Send
  <2> QED BY <1>1, <1>2, <1>3, <2>1 DEF Inv, PageFits, JobFits
<1>5. CASE SelectedQueue # None /\ SelectedJob # None /\ Accepts
  <2> DEFINE w == WantedJob
  <2>1. /\ w \in JobLoads /\ w \in Request /\ w \notin PageLoads /\ req' = Append(req, w)
        /\ WantedPage \in PageLoads
    BY <1>0, <1>5, Wanted, RequestIs, Asking DEF AskJob, WantedJob
  <2>2. ~Ready(job')
    BY <1>5, Fields DEF AskJob, Asked, Ready
  <2> HIDE DEF w
  <2>3. Due(w, JobLoads, req', working, upd)
    BY <1>0, <2>1, Sent DEF Kinds
  <2>4. /\ Due(WantedPage, PageLoads, req, working, upd) => Due(WantedPage, PageLoads, req', working, upd)
        /\ Rest(PageLoads, req, working, upd) => Rest(PageLoads, req', working, upd)
    BY <1>0, <2>1, Sent DEF Kinds
  <2>5. JobFits'
    BY <1>1, <1>5, <2>3 DEF JobFits, w
  <2>6. PageFits'
    BY <1>1, <1>2, <2>4 DEF Inv, PageFits
  <2> QED BY <1>3, <2>5, <2>6
<1> QED BY <1>4, <1>5

\* What one update of another kind, or the worker, leaves as it was.
LEMMA Passed ==
  ASSUME Inv, UNCHANGED <<level, queues, qcursor, jobState, overtaken>>,
         \A w \in PageLoads :
           /\ Due(w, PageLoads, req, working, upd) => Due(w, PageLoads, req', working', upd')
           /\ Rest(PageLoads, req, working, upd) => Rest(PageLoads, req', working', upd'),
         jobs' = jobs
  PROVE  StateFits' /\ PageFits'
<1>1. SelectedQueue' = SelectedQueue /\ WantedPage' = WantedPage
  BY DEF SelectedQueue, WantedPage
<1>2. SelectedQueue # None => WantedPage \in PageLoads
  BY TypesAre, Wanted DEF Inv
<1> QED BY <1>1, <1>2 DEF Inv, StateFits, PageFits

LEMMA JobPassed ==
  ASSUME Inv, UNCHANGED <<level, queues, qcursor, jobs, jcursor, job, overtaken>>,
         \A w \in JobLoads :
           /\ Due(w, JobLoads, req, working, upd) => Due(w, JobLoads, req', working', upd')
           /\ Rest(JobLoads, req, working, upd) => Rest(JobLoads, req', working', upd')
  PROVE  JobFits'
<1>1. /\ SelectedQueue' = SelectedQueue /\ SelectedJob' = SelectedJob /\ WantedJob' = WantedJob
  BY DEF SelectedQueue, SelectedJob, WantedJob
<1>2. SelectedQueue # None /\ SelectedJob # None => WantedJob \in JobLoads
  BY TypesAre, Wanted DEF Inv
<1> QED BY <1>1, <1>2 DEF Inv, JobFits

LEMMA Fits ==
  ASSUME Inv, QueuesTypeOK', [Next]_vars
  PROVE  StateFits' /\ PageFits' /\ JobFits'
<1> USE DEF panes, place
<1>0. /\ Types /\ Types' /\ req \in Seq(Request) /\ upd \in Seq(Update)
      /\ level \in {"Queues", "Jobs", "Job"}
      /\ jobState \in States /\ jobState' \in States
  <2>1. Types
    BY TypesAre DEF Inv
  <2>2. Types'
    BY TypesAre, PTL
  <2> QED BY <2>1, <2>2 DEF Types
<1>1. ASSUME MoveCursor PROVE StateFits' /\ PageFits' /\ JobFits'
  <2>1. CASE level = "Queues"
    BY <1>1, <2>1 DEF Inv, MoveCursor, StateFits, PageFits, JobFits
  <2>2. CASE level = "Jobs"
    BY <1>1, <2>2 DEF Inv, MoveCursor, StateFits, PageFits, JobFits, SelectedQueue, WantedPage
  <2> QED BY <1>1, <2>1, <2>2 DEF MoveCursor
<1>2. ASSUME CycleState \/ EnterQueue PROVE StateFits' /\ PageFits' /\ JobFits'
  <2>1. AskJobs(jobState') /\ level' = "Jobs" /\ UNCHANGED <<qcursor, working, upd>>
    BY <1>2 DEF CycleState, EnterQueue
  <2> QED BY <1>0, <2>1, PageAsked DEF JobFits
<1>3. ASSUME EnterJob PROVE StateFits' /\ PageFits' /\ JobFits'
  BY <1>3, JobAsked DEF EnterJob
<1>4. ASSUME Back PROVE StateFits' /\ PageFits' /\ JobFits'
  <2>1. UNCHANGED <<qcursor, jobState, queues, jobs, req, upd, working, overtaken>> /\ level # "Queues"
    BY <1>4 DEF Back
  <2>2. level' # "Job"
    BY <1>4 DEF Back
  <2>3. StateFits' /\ PageFits'
    BY <2>1 DEF Inv, StateFits, PageFits, SelectedQueue, WantedPage
  <2> QED BY <2>2, <2>3 DEF JobFits
<1>5. ASSUME Reload \/ Reopen PROVE StateFits' /\ PageFits' /\ JobFits'
  <2>0. UNCHANGED <<level, qcursor, jcursor, jobState, upd, working>>
    BY <1>5 DEF Reload, Reopen, LoadView
  <2>1. CASE level = "Queues" /\ AskQueues
    BY <2>0, <2>1 DEF Inv, AskQueues, StateFits, PageFits, JobFits
  <2>2. CASE level = "Jobs" /\ AskJobs(jobState)
    BY <1>0, <2>0, <2>2, PageAsked DEF JobFits
  <2>3. CASE level = "Job" /\ AskJob
    BY <2>0, <2>3, JobAsked
  <2> QED BY <1>5, <2>1, <2>2, <2>3 DEF Reload, Reopen, LoadView
<1>6. ASSUME ApplyQueues PROVE StateFits' /\ PageFits' /\ JobFits'
  <2>1. /\ UNCHANGED <<jobs, jobState, level>>
        /\ level = "Queues" \/ {"jobs", "job"} \subseteq overtaken'
        /\ overtaken \subseteq overtaken'
    BY <1>6 DEF ApplyQueues
  <2> QED BY <2>1 DEF Inv, StateFits, PageFits, JobFits
<1>a. ASSUME upd # <<>>, upd' = Tail(upd), UNCHANGED <<req, working>>, NEW K \in Kinds, NEW w \in K
      PROVE  /\ Rest(K, req, working, upd)
                  => Head(upd) \notin AnswersOf(K) /\ Rest(K, req', working', upd')
             /\ Due(w, K, req, working, upd)
                  => \/ Due(w, K, req', working', upd')
                     \/ Head(upd) \in Answers(w) /\ Rest(K, req', working', upd')
  BY <1>0, <1>a, Arrived
<1>b. ASSUME upd # <<>> PROVE Head(upd) \in Update
  BY <1>0, <1>b
<1>c. \A K \in Kinds : \A w \in K : Answers(w) \subseteq AnswersOf(K)
  BY DEF AnswersOf
<1>7. ASSUME ApplyJobs PROVE StateFits' /\ PageFits' /\ JobFits'
  <2>0. /\ upd # <<>> /\ upd' = Tail(upd) /\ Head(upd).op = "Jobs" /\ Head(upd) \in Update
        /\ UNCHANGED <<level, qcursor, jobState, queues, job, req, working>>
    BY <1>7, <1>b DEF ApplyJobs, Next1
  <2>1. Head(upd) \in AnswersOf(PageLoads) /\ Head(upd) \notin AnswersOf(JobLoads)
    BY <2>0, AnswersOfKinds
  <2>2. SelectedQueue' = SelectedQueue /\ WantedPage' = WantedPage
    BY <2>0 DEF SelectedQueue, WantedPage
  <2>3. SelectedQueue # None => WantedPage \in PageLoads
    BY <1>0, Wanted
  <2>4. CASE Head(upd).state = jobState
    <3>1. /\ jobs' = Head(upd).data
          /\ level = "Job" => overtaken' # {}
          /\ "jobs" \notin overtaken' => "jobs" \notin overtaken
      BY <1>7, <2>4 DEF ApplyJobs
    <3>2. StateFits'
      <4>1. jobs' = Failed \/ \E q \in Queues, l \in IdLists : jobs' = Page(q, jobState, l)
        BY <2>0, <2>4, <3>1, Brings
      <4> QED BY <2>0, <4>1, Fields DEF StateFits, Ready
    <3>3. ASSUME Head(upd) \in Answers(WantedPage) PROVE Ready(jobs') => jobs'.queue = SelectedQueue
      <4>1. jobs' = Failed \/ \E l \in IdLists : jobs' = Page(SelectedQueue, jobState, l)
        BY <3>1, <3>3, PageAnswer DEF WantedPage
      <4> QED BY <4>1, Fields DEF Ready
    <3>4. PageFits'
      BY <1>a, <2>0, <2>1, <2>2, <2>3, <3>1, <3>3 DEF Inv, PageFits, Kinds
    <3> QED BY <2>0, <3>1, <3>2, <3>4 DEF JobFits
  <2>5. CASE Head(upd).state # jobState
    <3>1. UNCHANGED <<jobs, jcursor, overtaken>>
      BY <1>7, <2>5 DEF ApplyJobs
    <3>2. Head(upd) \notin Answers(WantedPage)
      <4>1. \A u \in Answers(WantedPage) : u.state = jobState
        BY PageAnswer DEF WantedPage
      <4> QED BY <2>5, <4>1
    <3>3. StateFits' /\ PageFits'
      BY <1>a, <2>0, <2>1, <2>2, <2>3, <3>1, <3>2 DEF Inv, StateFits, PageFits, Kinds
    <3>4. \A w \in JobLoads : Head(upd) \notin Answers(w)
      BY <1>c, <2>1 DEF Kinds
    <3>5. JobFits'
      BY <1>a, <2>0, <3>1, <3>4, JobPassed DEF Kinds
    <3> QED BY <3>3, <3>5
  <2> QED BY <2>4, <2>5
<1>8. ASSUME ApplyJob PROVE StateFits' /\ PageFits' /\ JobFits'
  <2>0. /\ upd # <<>> /\ upd' = Tail(upd) /\ Head(upd).op = "Job" /\ Head(upd) \in Update
        /\ job' = Head(upd).data
        /\ UNCHANGED <<level, qcursor, jcursor, jobState, queues, jobs, req, working, overtaken>>
    BY <1>8, <1>b DEF ApplyJob, Next1
  <2>1. Head(upd) \notin AnswersOf(PageLoads) /\ Head(upd) \in AnswersOf(JobLoads)
    BY <2>0, AnswersOfKinds
  <2>2. \A w \in PageLoads : Head(upd) \notin Answers(w)
    BY <1>c, <2>1 DEF Kinds
  <2>3. StateFits' /\ PageFits'
    BY <1>a, <2>0, <2>2, Passed DEF Kinds
  <2>4. SelectedQueue' = SelectedQueue /\ SelectedJob' = SelectedJob /\ WantedJob' = WantedJob
    BY <2>0 DEF SelectedQueue, SelectedJob, WantedJob
  <2>5. SelectedQueue # None /\ SelectedJob # None => WantedJob \in JobLoads
    BY <1>0, Wanted
  <2>6. ASSUME Head(upd) \in Answers(WantedJob), Ready(job')
        PROVE  job'.queue = SelectedQueue /\ job'.id = SelectedJob
    <3>1. job' = Failed \/ job' = Job(SelectedQueue, SelectedJob)
      BY <2>0, <2>6, JobAnswer DEF WantedJob
    <3> QED BY <2>6, <3>1, Fields DEF Ready
  <2>7. JobFits'
    BY <1>a, <2>0, <2>1, <2>4, <2>5, <2>6 DEF Inv, JobFits, Kinds
  <2> QED BY <2>3, <2>7
<1>d. ASSUME UNCHANGED <<panes, place, overtaken>>,
             \A K \in Kinds : \A w \in K :
               /\ Due(w, K, req, working, upd) => Due(w, K, req', working', upd')
               /\ Rest(K, req, working, upd) => Rest(K, req', working', upd')
      PROVE  StateFits' /\ PageFits' /\ JobFits'
  BY <1>d, Passed, JobPassed DEF Kinds
<1>9. ASSUME WorkerTake PROVE StateFits' /\ PageFits' /\ JobFits'
  BY <1>0, <1>9, <1>d, Taken DEF WorkerTake
<1>10. ASSUME WorkerReply PROVE StateFits' /\ PageFits' /\ JobFits'
  <2>1. PICK a \in Answers(working) : upd' = Append(upd, a)
    BY <1>10 DEF WorkerReply
  <2>2. working \in Request /\ working' = None /\ UNCHANGED <<panes, place, req, overtaken>>
    BY <1>0, <1>10 DEF WorkerReply, Types
  <2> QED BY <1>0, <1>d, <2>1, <2>2, Replied
<1>11. ASSUME UNCHANGED vars PROVE StateFits' /\ PageFits' /\ JobFits'
  <2>1. UNCHANGED <<panes, place, overtaken, req, working, upd>>
    BY <1>11 DEF vars
  <2> QED BY <1>d, <2>1
<1> QED
  BY <1>1, <1>2, <1>3, <1>4, <1>5, <1>6, <1>7, <1>8, <1>9, <1>10, <1>11 DEF Next, Keypress, Apply

LEMMA InvHolds == Spec => []Inv
<1>1. Init => Inv
  <2> SUFFICES ASSUME Init PROVE Inv
    OBVIOUS
  <2>1. Types /\ QueueCursor /\ JobCursor
    BY QueueAssumption, Fields
    DEF Init, Types, QueueCursor, JobCursor, States, Unread, Ready
  <2> QED BY <2>1, TypesAre, Fields DEF Init, Inv, StateFits, PageFits, JobFits, Ready
<1>2. Inv /\ [Next]_vars => Inv'
  <2> SUFFICES ASSUME Inv, [Next]_vars PROVE Inv'
    OBVIOUS
  <2>1. QueuesTypeOK'
    BY Typed DEF Inv
  <2> QED BY <2>1, Fits DEF Inv
<1> QED BY <1>1, <1>2, PTL DEF Spec

-----------------------------------------------------------------------------

(* Panes, cursors, requests and updates are what they should be at every   *)
(* step, and a list with rows always has one under its cursor, whatever it *)
(* shrank to (App::apply's clamps).                                        *)
THEOREM QueueTypes == Spec => []QueuesTypeOK
BY InvHolds, PTL DEF Inv

(* The page under a heading is in the state the heading names, at every    *)
(* step and for any number of loads on their way (Update::Jobs in          *)
(* App::apply).                                                            *)
THEOREM PagesAreOfTheShownState == Spec => []PageOfShownState
<1>1. Inv => PageOfShownState
  BY DEF Inv, StateFits, PageOfShownState
<1> QED BY <1>1, InvHolds, PTL

(* When nothing is on its way, the page is of the queue and the state of   *)
(* its heading and the job is the one of its heading, unless a load was    *)
(* refused or a list moved the heading (load_jobs, load_job).              *)
THEOREM PanesFitOnceSettled == Spec => []SettledPanesFit
<1>1. Inv => SettledPanesFit
  <2> SUFFICES ASSUME Inv, Settled PROVE SettledPanesFit
    BY DEF SettledPanesFit
  <2>1. \A K \in Kinds : \A w \in K : ~Due(w, K, req, working, upd)
    <3>1. req = <<>> /\ upd = <<>> /\ working = None
      BY DEF Settled
    <3>2. \A A, B : ~LastIs(<<>>, A, B)
      BY DEF LastIs
    <3>3. \A K \in Kinds : None \notin K
      BY RequestIs, NoneAssumption DEF Kinds
    <3> QED BY <3>1, <3>2, <3>3 DEF Due
  <2>2. /\ SelectedQueue # None => WantedPage \in PageLoads
        /\ SelectedQueue # None /\ SelectedJob # None => WantedJob \in JobLoads
    BY TypesAre, Wanted DEF Inv
  <2> QED BY <2>1, <2>2 DEF SettledPanesFit, Inv, StateFits, PageFits, JobFits, Kinds
<1> QED BY <1>1, InvHolds, PTL

=============================================================================
