---------------------------- MODULE QueueBrowser ----------------------------
(***************************************************************************)
(* The queues tab: the list of BullMQ queues, a page of the jobs of one    *)
(* queue in one state, and one job.  The App's part is load_view,          *)
(* load_jobs, load_job, handle_queues_key and apply (keylens/src/app.rs);  *)
(* the worker's are the LoadQueues, LoadJobs and LoadJob requests of       *)
(* Worker::run (keylens/src/worker.rs), answered one at a time and in      *)
(* order.  Between two answers the server may gain and lose queues, jobs   *)
(* and pages; counts and fields are left out.                              *)
(*                                                                         *)
(* A page remembers in "queue" whose it is and a job in "queue" and "id"   *)
(* what was asked for: Update::Jobs and Update::Job do not say, and only   *)
(* the properties look at them.                                            *)
(***************************************************************************)
EXTENDS Integers, Sequences

CONSTANTS
  QueueLists,     \* what listing the queues may return
  IdLists,        \* the job ids a page may hold
  NumStates,      \* Len(State::ALL)
  ReqCap, UpdCap, \* CHANNEL_SIZE
  None

ASSUME QueueAssumption ==
  /\ NumStates \in Nat /\ NumStates >= 1
  /\ ReqCap \in Nat /\ ReqCap >= 1 /\ UpdCap \in Nat /\ UpdCap >= 1
  /\ \A l \in QueueLists : l \in Seq({l[i] : i \in 1 .. Len(l)})
  /\ \A l \in IdLists : l \in Seq({l[i] : i \in 1 .. Len(l)})

ElementsOf(lists) == UNION {{l[i] : i \in 1 .. Len(l)} : l \in lists}
Queues == ElementsOf(QueueLists)
Ids    == ElementsOf(IdLists)
States == 0 .. NumStates - 1

VARIABLES
  level,           \* App.level
  queues, qcursor, \* App.queues and App.queue_selected, from one
  jobs, jcursor,   \* App.jobs and App.job_selected, from one
  jobState,        \* App.job_state
  job,             \* App.job
  req, upd,        \* the channels
  working,         \* the request the worker is at, or None
  overtaken        \* history: the panes whose last load was not sent, or
                   \* whose heading a new list moved since

panes == <<queues, jobs, job>>
place == <<level, qcursor, jcursor, jobState>>
vars  == <<panes, place, req, upd, working, overtaken>>

-----------------------------------------------------------------------------
(* PaneState.                                                              *)

Idle     == [is |-> "Idle"]
Loading  == [is |-> "Loading"]
Failed   == [is |-> "Failed"]
List(l)  == [is |-> "Ready", list |-> l]
Page(q, s, l) == [is |-> "Ready", list |-> l, queue |-> q, state |-> s]
Job(q, i) == [is |-> "Ready", queue |-> q, id |-> i]

Ready(pane) == pane.is = "Ready"
Selected(pane, cursor) ==
  IF Ready(pane) THEN IF cursor <= Len(pane.list) THEN pane.list[cursor] ELSE None
  ELSE None
SelectedQueue == Selected(queues, qcursor)
SelectedJob   == Selected(jobs, jcursor)

(* min(len.saturating_sub(1)), from one.                                   *)
Clamped(cursor, list) ==
  IF list = <<>> THEN 1 ELSE IF cursor > Len(list) THEN Len(list) ELSE cursor

LoadQueues    == [op |-> "LoadQueues"]
LoadJobs(q, s) == [op |-> "LoadJobs", queue |-> q, state |-> s]
LoadJob(q, i) == [op |-> "LoadJob", queue |-> q, id |-> i]
Request ==
  {LoadQueues} \cup {LoadJobs(q, s) : q \in Queues, s \in States}
    \cup {LoadJob(q, i) : q \in Queues, i \in Ids}

ASSUME NoneAssumption == None \notin Queues /\ None \notin Ids /\ None \notin Request

(* What the worker may answer.                                             *)
Answers(r) ==
  CASE r.op = "LoadQueues" ->
         {[op |-> "Queues", data |-> p] : p \in {Failed} \cup {List(l) : l \in QueueLists}}
    [] r.op = "LoadJobs" ->
         {[op |-> "Jobs", state |-> r.state, data |-> p] :
            p \in {Failed} \cup {Page(r.queue, r.state, l) : l \in IdLists}}
    [] r.op = "LoadJob" ->
         {[op |-> "Job", data |-> p] : p \in {Failed, Job(r.queue, r.id)}}
Update == UNION {Answers(r) : r \in Request}

-----------------------------------------------------------------------------
(* Loads.                                                                  *)

Accepts == Len(req) < ReqCap
Send(r) == req' = IF Accepts THEN Append(req, r) ELSE req
Asked   == IF Accepts THEN Loading ELSE Failed  \* worker_busy()
Note(pane, sent) ==
  overtaken' = IF sent THEN overtaken \ {pane} ELSE overtaken \cup {pane}

AskQueues ==
  /\ Send(LoadQueues) /\ queues' = Asked
  /\ UNCHANGED <<jobs, job, overtaken>>

AskJobs(state) ==
  /\ IF SelectedQueue = None
     THEN UNCHANGED <<req, jobs>>
     ELSE Send(LoadJobs(SelectedQueue, state)) /\ jobs' = Asked
  /\ Note("jobs", SelectedQueue # None /\ Accepts)
  /\ UNCHANGED <<queues, job>>

AskJob ==
  /\ IF SelectedQueue = None \/ SelectedJob = None
     THEN UNCHANGED <<req, job>>
     ELSE Send(LoadJob(SelectedQueue, SelectedJob)) /\ job' = Asked
  /\ Note("job", SelectedQueue # None /\ SelectedJob # None /\ Accepts)
  /\ UNCHANGED <<queues, jobs>>

-----------------------------------------------------------------------------
(* Keys.                                                                   *)

(* Between them j, k, Home and End reach every row of a list of up to      *)
(* three.                                                                  *)
MoveCursor ==
  /\ \/ /\ level = "Queues" /\ Ready(queues)
        /\ qcursor' \in 1 .. Len(queues.list) /\ qcursor' # qcursor
        /\ UNCHANGED jcursor
     \/ /\ level = "Jobs" /\ Ready(jobs)
        /\ jcursor' \in 1 .. Len(jobs.list) /\ jcursor' # jcursor
        /\ UNCHANGED qcursor
  /\ UNCHANGED <<level, jobState, panes, req, upd, working, overtaken>>

(* Mutant: the load asks for the state before the key.                     *)
CycleStateLate ==
  /\ level # "Queues"
  /\ jobState' \in {(jobState + 1) % NumStates, (jobState + NumStates - 1) % NumStates}
  /\ jcursor' = 1 /\ level' = "Jobs"
  /\ AskJobs(jobState)
  /\ UNCHANGED <<qcursor, upd, working>>

(* [ and ]                                                                 *)
CycleState ==
  /\ level # "Queues"
  /\ jobState' \in {(jobState + 1) % NumStates, (jobState + NumStates - 1) % NumStates}
  /\ jcursor' = 1 /\ level' = "Jobs"
  /\ AskJobs(jobState')
  /\ UNCHANGED <<qcursor, upd, working>>

(* Mutant: while a page is loading no other is asked for.                  *)
EnterQueueOnce ==
  /\ level = "Queues" /\ SelectedQueue # None
  /\ level' = "Jobs" /\ jcursor' = 1
  /\ IF jobs = Loading THEN UNCHANGED <<panes, req, overtaken>> ELSE AskJobs(jobState)
  /\ UNCHANGED <<qcursor, jobState, upd, working>>

EnterQueue ==
  /\ level = "Queues" /\ SelectedQueue # None
  /\ level' = "Jobs" /\ jcursor' = 1
  /\ AskJobs(jobState)
  /\ UNCHANGED <<qcursor, jobState, upd, working>>

EnterJob ==
  /\ level = "Jobs" /\ SelectedJob # None
  /\ level' = "Job"
  /\ AskJob
  /\ UNCHANGED <<qcursor, jcursor, jobState, upd, working>>

Back ==
  /\ level # "Queues"
  /\ level' = IF level = "Job" THEN "Jobs" ELSE "Queues"
  /\ UNCHANGED <<qcursor, jcursor, jobState, panes, req, upd, working, overtaken>>

(* load_view for this tab: r forces it, coming back to the tab does not.   *)
LoadView(force) ==
  /\ \/ level = "Queues" /\ (force \/ queues = Idle) /\ AskQueues
     \/ level = "Jobs" /\ AskJobs(jobState)
     \/ level = "Job" /\ AskJob
  /\ UNCHANGED <<place, upd, working>>
Reload == LoadView(TRUE)
Reopen == LoadView(FALSE)

Keypress ==
  MoveCursor \/ CycleState \/ EnterQueue \/ EnterJob \/ Back \/ Reload \/ Reopen

-----------------------------------------------------------------------------
(* App::apply.                                                             *)

Next1(op) == upd # <<>> /\ Head(upd).op = op /\ upd' = Tail(upd)

(* Mutant: the cursor is not brought back onto a shorter list.             *)
ApplyQueuesAnywhere ==
  /\ Next1("Queues")
  /\ queues' = Head(upd).data
  /\ overtaken' = IF level = "Queues" THEN overtaken ELSE overtaken \cup {"jobs", "job"}
  /\ UNCHANGED <<level, qcursor, jcursor, jobState, jobs, job, req, working>>

ApplyQueues ==
  /\ Next1("Queues")
  /\ LET data == Head(upd).data
     IN  /\ queues' = data
         /\ qcursor' = IF Ready(data) THEN Clamped(qcursor, data.list) ELSE qcursor
  /\ overtaken' = IF level = "Queues" THEN overtaken ELSE overtaken \cup {"jobs", "job"}
  /\ UNCHANGED <<level, jcursor, jobState, jobs, job, req, working>>

(* Mutant: a page of any state is taken.                                   *)
ApplyJobsOfAny ==
  /\ Next1("Jobs")
  /\ jobs' = Head(upd).data
  /\ jcursor' = IF Ready(jobs') THEN Clamped(jcursor, jobs'.list) ELSE jcursor
  /\ overtaken' = IF level = "Job" THEN overtaken \cup {"job"} ELSE overtaken
  /\ UNCHANGED <<level, qcursor, jobState, queues, job, req, working>>

ApplyJobs ==
  /\ Next1("Jobs")
  /\ LET data == Head(upd).data
     IN  IF Head(upd).state = jobState
         THEN /\ jobs' = data
              /\ jcursor' = IF Ready(data) THEN Clamped(jcursor, data.list) ELSE jcursor
              /\ overtaken' = IF level = "Job" THEN overtaken \cup {"job"} ELSE overtaken
         ELSE UNCHANGED <<jobs, jcursor, overtaken>>
  /\ UNCHANGED <<level, qcursor, jobState, queues, job, req, working>>

ApplyJob ==
  /\ Next1("Job")
  /\ job' = Head(upd).data
  /\ UNCHANGED <<place, queues, jobs, req, working, overtaken>>

Apply == ApplyQueues \/ ApplyJobs \/ ApplyJob

-----------------------------------------------------------------------------
(* The worker.                                                             *)

WorkerTake ==
  /\ working = None /\ req # <<>>
  /\ working' = Head(req) /\ req' = Tail(req)
  /\ UNCHANGED <<panes, place, upd, overtaken>>

WorkerReply ==
  /\ working # None /\ Len(upd) < UpdCap
  /\ \E a \in Answers(working) : upd' = Append(upd, a)
  /\ working' = None
  /\ UNCHANGED <<panes, place, req, overtaken>>

Init ==
  /\ level = "Queues" /\ qcursor = 1 /\ jcursor = 1 /\ jobState = 0
  /\ queues = Idle /\ jobs = Idle /\ job = Idle
  /\ req = <<>> /\ upd = <<>> /\ working = None /\ overtaken = {}

Next == Keypress \/ Apply \/ WorkerTake \/ WorkerReply

(* The event loop applies what arrives and the worker keeps serving.       *)
Fairness == WF_vars(Apply) /\ WF_vars(WorkerTake \/ WorkerReply)

Spec == Init /\ [][Next]_vars
FairSpec == Spec /\ Fairness

-----------------------------------------------------------------------------
(* Properties.                                                             *)

(* The types. A list with rows has one under the cursor, whatever the list *)
(* shrank to while the cursor was elsewhere: Enter and the heading always  *)
(* find one (App::apply clamps, move_queue_cursor stays inside, [ and ] go *)
(* to the top).                                                            *)
QueuesTypeOK ==
  /\ level \in {"Queues", "Jobs", "Job"} /\ jobState \in States
  /\ qcursor \in Nat \ {0} /\ jcursor \in Nat \ {0}
  /\ queues \in {Idle, Loading, Failed} \cup {List(l) : l \in QueueLists}
  /\ jobs \in {Idle, Loading, Failed}
       \cup {Page(q, s, l) : q \in Queues, s \in States, l \in IdLists}
  /\ job \in {Idle, Loading, Failed} \cup {Job(q, i) : q \in Queues, i \in Ids}
  /\ req \in Seq(Request) /\ Len(req) <= ReqCap
  /\ upd \in Seq(Update) /\ Len(upd) <= UpdCap
  /\ working \in Request \cup {None} /\ overtaken \subseteq {"jobs", "job"}
  /\ Ready(queues) /\ queues.list # <<>> => SelectedQueue # None
  /\ Ready(jobs) /\ jobs.list # <<>> => SelectedJob # None

(* The page shown is in the state the heading names at every moment, not   *)
(* only in the end, while pages of the states cycled through before are    *)
(* still arriving (App::apply compares the state of the page).             *)
PageOfShownState ==
  level = "Jobs" /\ Ready(jobs) /\ "jobs" \notin overtaken => jobs.state = jobState

Settled == req = <<>> /\ working = None /\ upd = <<>>

(* Once every answer has arrived, the page under a queue's heading is that *)
(* queue's and in the state the heading names, and the job under a job's   *)
(* heading is that job, however fast the user went through queues and      *)
(* states, unless the load was refused or a list moved the heading         *)
(* (load_jobs, load_job, the worker's order).                              *)
SettledPanesFit ==
  Settled =>
    /\ level # "Queues" /\ Ready(jobs) /\ "jobs" \notin overtaken
         => jobs.queue = SelectedQueue /\ jobs.state = jobState
    /\ level = "Job" /\ Ready(job) /\ overtaken = {}
         => job.queue = SelectedQueue /\ job.id = SelectedJob

(* When the user stops pressing keys every pane that says "loading..."     *)
(* stops saying it (each request gets a reply, and only pages of another   *)
(* state are dropped).  Excepted is a page whose load was refused, was not *)
(* sent for want of a selected queue, or is of a heading that a new list   *)
(* has moved since: load_jobs then leaves the pane loading.                *)
LoadsEnd ==
  <>[][~Keypress]_vars =>
    <>[]/\ queues # Loading /\ job # Loading
        /\ jobs = Loading => "jobs" \in overtaken

=============================================================================
