---------------------------- MODULE KeyBrowser ----------------------------
(***************************************************************************)
(* Selecting a key and reading its value: the keys view of the App         *)
(* (keylens/src/app.rs), the event loop that debounces its fetches         *)
(* (keylens/src/browse.rs), the worker that owns the connection            *)
(* (keylens/src/worker.rs) and the two bounded channels between them.      *)
(*                                                                         *)
(* The UI is one task and never waits for the worker: a request is sent    *)
(* with try_send and is refused when the channel is full.  The worker      *)
(* serves scans one at a time, reads a key on a task that a newer          *)
(* selection aborts, and refreshes the server's INFO on another task; all  *)
(* three wait for room in the updates channel.                             *)
(*                                                                         *)
(* What the server answers is arbitrary: a batch may hold any keys, any    *)
(* call may fail.  A value is named by its key, an error by the call that  *)
(* failed ("scan", "info" or the key read): the update itself carries no   *)
(* more than the text.                                                     *)
(*                                                                         *)
(* Of the rows, only the one under the cursor is kept: KeyTreeView has the *)
(* tree, the rows and where the cursor lands, and ScanSession what the     *)
(* batches hold and when a scan is complete.                               *)
(***************************************************************************)
EXTENDS Naturals, Sequences

CONSTANTS
  Keys,          \* the keys a row may be for
  Nothing,       \* no key, no error, no request
  ReqCap,        \* capacity of the requests channel (CHANNEL_SIZE)
  UpdCap,        \* capacity of the updates channel (CHANNEL_SIZE)
  HasServerInfo  \* whether the server implements INFO

ASSUME KeysAssumption ==
  /\ Nothing \notin Keys \cup {"scan", "info", "branch"}
  /\ Keys \cap {"scan", "info", "branch"} = {}

ASSUME CapacityAssumption ==
  /\ ReqCap \in Nat /\ ReqCap >= 2
  /\ UpdCap \in Nat /\ UpdCap >= 1
  /\ HasServerInfo \in BOOLEAN

VARIABLES
  under,            \* the row under App.selected
  pending, detail,  \* App.pending_key, and the key of App.detail
  dirty,            \* App.selection_dirty
  error,            \* App.error, as the call that failed
  loading,          \* App.loading
  fetchAt,          \* whether the event loop's fetch_at is set
  req, upd,         \* the requests and updates channels
  working,          \* the request the worker is serving in line
  reading,          \* the key Worker.detail_task is reading
  late,             \* a read that was aborted in mid-poll and may yet reply
  refreshing        \* whether Worker.info_task is running

detailVars == <<pending, detail, dirty>>
workVars   == <<working, reading, late, refreshing>>
uiVars     == <<under, detailVars, error, loading, fetchAt>>
vars       == <<uiVars, req, upd, workVars>>

-----------------------------------------------------------------------------
(* Messages.                                                               *)

Rescan      == [op |-> "Rescan"]
More        == [op |-> "More"]
Detect      == [op |-> "Detect"]
RefreshInfo == [op |-> "RefreshInfo"]
Select(k)   == [op |-> "Select", key |-> k]

InLine == {Rescan, More, Detect}
Scans  == {Rescan, More}

ASSUME NothingAssumption == Nothing \notin InLine

Request == InLine \cup {RefreshInfo} \cup {Select(k) : k \in Keys}

Batch(reset) == [op |-> "Batch", reset |-> reset]
Detail(k) == [op |-> "Detail", key |-> k]
Error(e)  == [op |-> "Error", of |-> e]
Detected  == [op |-> "Detected"]
Info      == [op |-> "Info"]

ErrorOf == Keys \cup {"scan", "info"}
Update ==
  {Batch(r) : r \in BOOLEAN} \cup {Detail(k) : k \in Keys}
    \cup {Error(e) : e \in ErrorOf} \cup {Detected, Info}

-----------------------------------------------------------------------------
(* The row under the cursor: a key, a branch, or none when there are no    *)
(* rows.  A key that is a branch too is a key on which Enter rearranges.   *)

Row   == Keys \cup {"branch"}
NoRow == Nothing

-----------------------------------------------------------------------------
(* App::flush_selection, with `row` under the cursor.                      *)

NothingUnder(row) ==
  /\ row = NoRow
  /\ dirty' = FALSE
  /\ UNCHANGED <<pending, detail, req>>

BranchUnder(row) ==
  /\ row = "branch"
  /\ dirty' = FALSE
  /\ pending' = Nothing /\ detail' = Nothing
  /\ UNCHANGED req

AlreadyAsked(row) ==
  /\ row \in Keys /\ pending = row
  /\ dirty' = FALSE
  /\ UNCHANGED <<pending, detail, req>>

AskFor(row) ==
  /\ row \in Keys /\ pending # row
  /\ Len(req) < ReqCap
  /\ req' = Append(req, Select(row))
  /\ pending' = row
  /\ dirty' = FALSE
  /\ UNCHANGED detail

(* Mutant: the refused key stays pending.                                  *)
RefusedStaysPending(row) ==
  /\ row \in Keys /\ pending # row
  /\ Len(req) = ReqCap
  /\ pending' = row
  /\ dirty' = TRUE
  /\ UNCHANGED <<detail, req>>

(* The channel is full: left dirty for the next timer to retry.            *)
Refused(row) ==
  /\ row \in Keys /\ pending # row
  /\ Len(req) = ReqCap
  /\ pending' = Nothing
  /\ dirty' = TRUE
  /\ UNCHANGED <<detail, req>>

FlushSelection(row) ==
  NothingUnder(row) \/ BranchUnder(row) \/ AlreadyAsked(row) \/ AskFor(row)
    \/ Refused(row)

(* The event loop: a key that leaves a selection waiting pushes fetch_at.  *)
Rearm == fetchAt' = (fetchAt \/ dirty')

-----------------------------------------------------------------------------
(* Keys of the keys view.                                                  *)

(* j, k, PageUp, PageDown: move within the rows, fetch when input is quiet.*)
MoveCursor ==
  /\ under # NoRow /\ under' \in Row
  /\ under \in Keys => under' # under
  /\ dirty' = TRUE
  /\ error' = Nothing
  /\ Rearm
  /\ UNCHANGED <<pending, detail, loading, req, upd, workVars>>

(* g, G: move to an end and fetch at once.                                 *)
JumpCursor ==
  /\ under' \in IF under = NoRow THEN {NoRow} ELSE Row
  /\ FlushSelection(under')
  /\ error' = Nothing
  /\ Rearm
  /\ UNCHANGED <<loading, upd, workVars>>

(* Enter on a key that is no branch fetches its key at once.               *)
EnterKey ==
  /\ under \in Keys
  /\ FlushSelection(under)
  /\ error' = Nothing
  /\ Rearm
  /\ UNCHANGED <<under, loading, upd, workVars>>

(* Enter on a branch, h, E, C: rows open and close, the cursor may land    *)
(* elsewhere, and nothing is marked for fetching.                          *)
Rearrange ==
  /\ under # NoRow /\ under' \in Row
  /\ UNCHANGED <<detailVars, error, loading, req, upd, workVars>>
  /\ Rearm

(* Mutant: the spinner starts whether or not the request was accepted.     *)
AskScanSpins ==
  /\ IF Len(req) < ReqCap THEN req' \in {Append(req, Rescan), Append(req, More)}
                          ELSE UNCHANGED req
  /\ loading' = TRUE
  /\ UNCHANGED <<under, detailVars, error, upd, workVars>>
  /\ Rearm

(* r, t, Esc on a filter, Enter in the search prompt: App::rescan; and m,  *)
(* which asks for more of a scan that is not complete.  Which scans are    *)
(* complete is left to ScanSession: here m may always ask.                 *)
AskScan ==
  /\ \/ /\ Len(req) < ReqCap
        /\ req' \in {Append(req, Rescan), Append(req, More)}
        /\ loading' = TRUE
     \/ /\ Len(req) = ReqCap
        /\ loading' = FALSE
        /\ UNCHANGED req
  /\ UNCHANGED <<under, detailVars, error, upd, workVars>>
  /\ Rearm

KeyPress == MoveCursor \/ JumpCursor \/ EnterKey \/ Rearrange \/ AskScan

-----------------------------------------------------------------------------
(* The event loop's other branches.                                        *)

(* Mutant: the timer is not set again after a refusal.                     *)
FetchTimerOnce ==
  /\ fetchAt
  /\ FlushSelection(under)
  /\ fetchAt' = FALSE
  /\ UNCHANGED <<under, error, loading, upd, workVars>>

(* fetch_at expires; a refused request sets it again.                      *)
FetchTimer ==
  /\ fetchAt
  /\ FlushSelection(under)
  /\ fetchAt' = dirty'
  /\ UNCHANGED <<under, error, loading, upd, workVars>>

(* Mutant: the tick does not look for room.                                *)
InfoTickUnbounded ==
  /\ req' = Append(req, RefreshInfo)
  /\ UNCHANGED <<uiVars, upd, workVars>>

(* The stats tick: its request is dropped when the channel is full.        *)
InfoTick ==
  /\ Len(req) < ReqCap
  /\ req' = Append(req, RefreshInfo)
  /\ UNCHANGED <<uiVars, upd, workVars>>

(* App::apply, one action per update.                                      *)
ApplyBatch ==
  /\ upd # <<>> /\ Head(upd).op = "Batch"
  /\ \/ under' \in Row
     \/ under' = NoRow /\ (Head(upd).reset \/ under = NoRow)
  /\ detail' = IF Head(upd).reset THEN Nothing ELSE detail
  /\ loading' = FALSE
  /\ error' = Nothing
  /\ upd' = Tail(upd)
  /\ UNCHANGED <<pending, dirty, fetchAt, req, workVars>>

(* Mutant: staleness judged by the cursor, which may have moved unmarked.  *)
ApplyDetailAtCursor ==
  /\ upd # <<>> /\ Head(upd).op = "Detail"
  /\ IF under = Head(upd).key
     THEN detail' = Head(upd).key /\ error' = Nothing
     ELSE UNCHANGED <<detail, error>>
  /\ upd' = Tail(upd)
  /\ UNCHANGED <<under, pending, dirty, loading, fetchAt, req, workVars>>

ApplyDetail ==
  /\ upd # <<>> /\ Head(upd).op = "Detail"
  /\ IF pending = Head(upd).key
     THEN detail' = Head(upd).key /\ error' = Nothing
     ELSE UNCHANGED <<detail, error>>
  /\ upd' = Tail(upd)
  /\ UNCHANGED <<under, pending, dirty, loading, fetchAt, req, workVars>>

ApplyError ==
  /\ upd # <<>> /\ Head(upd).op = "Error"
  /\ loading' = FALSE
  /\ error' = Head(upd).of
  /\ upd' = Tail(upd)
  /\ UNCHANGED <<under, detailVars, fetchAt, req, workVars>>

ApplyOther ==
  /\ upd # <<>> /\ Head(upd).op \in {"Detected", "Info"}
  /\ upd' = Tail(upd)
  /\ UNCHANGED <<under, detailVars, error, loading, fetchAt, req, workVars>>

Apply == ApplyBatch \/ ApplyDetail \/ ApplyError \/ ApplyOther

-----------------------------------------------------------------------------
(* The worker and its tasks.                                               *)

(* Requests the worker serves itself, waiting for the server.              *)
WorkerTake ==
  /\ working = Nothing /\ req # <<>> /\ Head(req) \in InLine
  /\ working' = Head(req)
  /\ req' = Tail(req)
  /\ UNCHANGED <<uiVars, upd, reading, late, refreshing>>

(* Mutant: a request the worker has nothing to say to gets no reply.       *)
WorkerReplyOrSilence ==
  /\ working # Nothing /\ Len(upd) < UpdCap
  /\ upd' \in {upd, Append(upd, Batch(working = Rescan))}
  /\ working' = Nothing
  /\ UNCHANGED <<uiVars, req, reading, late, refreshing>>

(* The reply, sent once the updates channel has room.                      *)
WorkerReply ==
  /\ working # Nothing /\ Len(upd) < UpdCap
  /\ \/ /\ working = Detect
        /\ upd' = Append(upd, Detected)
     \/ /\ working \in Scans
        /\ upd' \in {Append(upd, Batch(working = Rescan)),
                     Append(upd, Error("scan"))}
  /\ working' = Nothing
  /\ UNCHANGED <<uiVars, req, reading, late, refreshing>>

(* Select aborts the read that is running and starts its own.  An abort    *)
(* takes effect when the task is next polled: one that is being polled on  *)
(* another thread may still complete its send.                             *)
SpawnDetail ==
  /\ working = Nothing /\ req # <<>> /\ Head(req).op = "Select"
  /\ reading' = Head(req).key
  /\ \/ reading # Nothing /\ late' = reading
     \/ UNCHANGED late
  /\ req' = Tail(req)
  /\ UNCHANGED <<uiVars, upd, working, refreshing>>

(* RefreshInfo is skipped without INFO and while a refresh is out.         *)
SpawnInfo ==
  /\ working = Nothing /\ req # <<>> /\ Head(req) = RefreshInfo
  /\ refreshing' = (refreshing \/ HasServerInfo)
  /\ req' = Tail(req)
  /\ UNCHANGED <<uiVars, upd, working, reading, late>>

Answer(k) == upd' \in {Append(upd, Detail(k)), Append(upd, Error(k))}

(* Mutant: a read that fails is not reported.                              *)
DetailDoneSilently ==
  /\ reading # Nothing /\ Len(upd) < UpdCap
  /\ upd' \in {upd, Append(upd, Detail(reading))}
  /\ reading' = Nothing
  /\ UNCHANGED <<uiVars, req, working, late, refreshing>>

DetailDone ==
  /\ reading # Nothing /\ Len(upd) < UpdCap
  /\ Answer(reading)
  /\ reading' = Nothing
  /\ UNCHANGED <<uiVars, req, working, late, refreshing>>

LateDone ==
  /\ late # Nothing
  /\ \/ Len(upd) < UpdCap /\ Answer(late)
     \/ UNCHANGED upd
  /\ late' = Nothing
  /\ UNCHANGED <<uiVars, req, working, reading, refreshing>>

InfoDone ==
  /\ refreshing /\ Len(upd) < UpdCap
  /\ upd' \in {Append(upd, Info), Append(upd, Error("info"))}
  /\ refreshing' = FALSE
  /\ UNCHANGED <<uiVars, req, working, reading, late>>

Worker == WorkerTake \/ WorkerReply \/ SpawnDetail \/ SpawnInfo
Tasks  == DetailDone \/ LateDone \/ InfoDone

-----------------------------------------------------------------------------
(* browse::run sends Detect and Rescan before the event loop starts, and   *)
(* the App starts out loading.                                             *)
Init ==
  /\ under = NoRow
  /\ pending = Nothing /\ detail = Nothing /\ dirty = FALSE
  /\ error = Nothing
  /\ loading = TRUE
  /\ fetchAt = FALSE
  /\ req = <<Detect, Rescan>> /\ upd = <<>>
  /\ working = Nothing /\ reading = Nothing /\ late = Nothing
  /\ refreshing = FALSE

Next == KeyPress \/ FetchTimer \/ InfoTick \/ Apply \/ Worker \/ Tasks

(* The runtime polls every ready task, and the event loop and the worker    *)
(* leave nothing that stays ready undone.  A sender waits for room in the  *)
(* updates channel in the order of arrival, so it gets its turn although   *)
(* another may take a slot first: strong fairness.  Nobody has to press a  *)
(* key, and nothing depends on the stats tick.                             *)
Fairness ==
  /\ WF_vars(FetchTimer) /\ WF_vars(Apply)
  /\ WF_vars(WorkerTake \/ SpawnDetail \/ SpawnInfo)
  /\ SF_vars(WorkerReply)
  /\ SF_vars(DetailDone) /\ SF_vars(LateDone) /\ SF_vars(InfoDone)

Spec == Init /\ [][Next]_vars
FairSpec == Spec /\ Fairness

-----------------------------------------------------------------------------
(* Properties.                                                             *)

TypeOK ==
  /\ under \in Row \cup {NoRow}
  /\ pending \in Keys \cup {Nothing} /\ detail \in Keys \cup {Nothing}
  /\ dirty \in BOOLEAN /\ fetchAt \in BOOLEAN
  /\ error \in ErrorOf \cup {Nothing}
  /\ loading \in BOOLEAN
  /\ req \in Seq(Request) /\ Len(req) <= ReqCap
  /\ upd \in Seq(Update) /\ Len(upd) <= UpdCap
  /\ working \in InLine \cup {Nothing}
  /\ reading \in Keys \cup {Nothing} /\ late \in Keys \cup {Nothing}
  /\ refreshing \in BOOLEAN

(* Which Select the worker will have served last: the newest in the        *)
(* channel, otherwise the one being read.                                  *)
Selects == {i \in 1 .. Len(req) : req[i].op = "Select"}
IsNewest(i) == i \in Selects /\ \A j \in Selects : j <= i

(* The reply the App is waiting for is never to a read that a later one    *)
(* will abort: the newest selection sent is the pending key, although a    *)
(* refused send, a branch or a jump may come between (flush_selection,     *)
(* spawn_detail).                                                          *)
NewestReadIsPending ==
  pending # Nothing =>
    /\ \A i \in Selects : IsNewest(i) => req[i].key = pending
    /\ Selects = {} => reading \in {Nothing, pending}

(* A read of k that will be answered: asked for, running, or answered.     *)
InFlight(k) ==
  \/ \E i \in 1 .. Len(req) : req[i] = Select(k)
  \/ reading = k
  \/ \E i \in 1 .. Len(upd) : upd[i] \in {Detail(k), Error(k)}

AnswerStep ==
  pending # Nothing /\ pending' = pending /\ InFlight(pending) =>
    InFlight(pending)' \/ detail' = pending \/ error' # Nothing

(* The answer to the pending key is never dropped on the way: its read     *)
(* ends by showing the value or by painting an error (spawn_detail's abort *)
(* and apply's staleness guard discard other keys' answers only).          *)
AnswerIsDelivered == [][AnswerStep]_vars

(* The status bar's spinner turns only while a scan is queued, running or  *)
(* answered: the App sets `loading` when a request is accepted, and every  *)
(* scan request gets one reply (worker.rs: "a request always gets a        *)
(* reply").                                                                *)
ScanReply(u) == u.op = "Batch" \/ (u.op = "Error" /\ u.of = "scan")
ScanOutstanding ==
  \/ \E i \in 1 .. Len(req) : req[i] \in Scans
  \/ working \in Scans
  \/ \E i \in 1 .. Len(upd) : ScanReply(upd[i])
SpinnerMeansScan == loading => ScanOutstanding

(* The spinner stops.                                                      *)
SpinnerStops == loading ~> ~loading

(* Every read the App waits for ends in a value, an error or another       *)
(* selection.                                                              *)
ReadEnds ==
  \A k \in Keys :
    pending = k /\ InFlight(k) ~> detail = k \/ error # Nothing \/ pending # k

(* Once the keyboard and the stats tick are quiet, a moved cursor's row is *)
(* fetched even if the channel was full when its timer fired.              *)
InputRests == <>[][~KeyPress /\ ~InfoTick]_vars
SelectionFetched == InputRests => (dirty ~> ~dirty)

(* What the value pane says for the selected key: draw_value's hint.       *)
SaysLoading ==
  error = Nothing /\ detail = Nothing /\ under \in Keys

(* The value pane says "loading" for the key it asked for only while that  *)
(* request is on its way or a fetch is due (conn.rs: a call that times out surfaces as an    *)
(* error "instead of a pane that says loading forever").                   *)
LoadingIsLive ==
  SaysLoading /\ pending = under => InFlight(pending) \/ fetchAt

=============================================================================
