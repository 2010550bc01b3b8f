------------------------------- MODULE Session -------------------------------
(***************************************************************************)
(* One run of the browser from its first frame to its last: the splash     *)
(* over the handshake, the probed capabilities, BullMQ detection, the      *)
(* panes that load when their tab is first opened, and the tasks that      *)
(* quitting must take with it.  What the key browser and the queues tab do *)
(* in between are modules of their own: here they send "Rescan" and        *)
(* "Select" requests that take room and start tasks.                       *)
(***************************************************************************)
EXTENDS Naturals, Sequences, FiniteSets

CONSTANTS
  Panes,           \* the server panes, "cluster" among them or not
  Instances,       \* what each server permits and the pages of its keyspace
  MaxDetectPages, MaxQueues, Sampled,   \* MAX_DETECT_PAGES, MAX_QUEUES, take(5)
  ReqCap, UpdCap,  \* CHANNEL_SIZE, for requests and for updates
  MaxLost          \* commands that fail in transit (bound of the model)

Features == Panes \cup {"info", "typeFilter"}
\* "disabled" is a standalone server's CLUSTER INFO, "empty" an INFO without fields.
Permits == {"yes", "denied", "disabled", "unknown", "empty"}
Availability == {"Available", "Denied", "Disabled", "Unsupported"}
\* What HMGET finds in a meta key: a BullMQ version, another library's, none,
\* or that the key is not a hash.
MetaForms == {"bullmq", "otherlib", "plain", "foreign"}

ASSUME PanesAssumption == Panes \cap {"queues", "keys", "stats", "info", "typeFilter"} = {}

\* A keyspace is a sequence of SCAN pages, a page its keys of the form prefix:*:meta.
\* SCAN may return a key twice, but a key has one type and one version.
\* Only CLUSTER INFO can find its feature disabled, and only INFO answer with nothing.
Instance(i) ==
  /\ i.server \in [Features -> Permits]
  /\ \A f \in Features : /\ i.server[f] = "disabled" => f = "cluster"
                         /\ i.server[f] = "empty" => f = "info"
  /\ i.keyspace \in Seq(SUBSET [name : Nat, form : MetaForms])
  /\ \A page \in DOMAIN i.keyspace : IsFiniteSet(i.keyspace[page])
  /\ \A p, q \in DOMAIN i.keyspace : \A k \in i.keyspace[p], l \in i.keyspace[q] :
       k.name = l.name => k = l
ASSUME InstancesAssumption == \A i \in Instances : Instance(i)
ASSUME CapsAssumption ==
  /\ {MaxDetectPages, MaxQueues, Sampled, UpdCap} \subseteq Nat \ {0}
  /\ ReqCap \in Nat \ {0, 1} /\ MaxLost \in Nat

AllPanes == Panes \cup {"queues"}
PaneStates == {"idle", "loading", "ready", "unavailable", "failed"}
Tasks == {"read", "info", "reader"}

None == [type |-> "none"]
Rescan == [type |-> "Rescan"]
Select == [type |-> "Select"]
RefreshInfo == [type |-> "RefreshInfo"]
Detect == [type |-> "Detect"]
Load(p) == [type |-> "Load", pane |-> p]
Request == {Rescan, Select, RefreshInfo, Detect} \cup {Load(p) : p \in AllPanes}

Other == [type |-> "Other"]
Loaded(p, s) == [type |-> "Loaded", pane |-> p, state |-> s]
Found(confidence, names) == [type |-> "Detected", confidence |-> confidence, names |-> names]
NothingFound == Found("nothing", {})
Confidences == {"Certain", "Likely", "Weak"}

VARIABLES
  server, keyspace,   \* the server, fixed for the run
  lost,               \* commands that failed in transit so far
  ui,                 \* "splash", "failed", "running" or "closed"
  step,               \* the step of the handshake
  client,             \* "open" or "quit"
  caps,               \* Conn.caps
  view, pane,         \* App.view and the state of each pane
  detected,           \* App.detections: one Detected update or NothingFound
  req, upd,           \* the two channels
  working, out,       \* the request the worker serves, the update it is about to send
  walk,               \* where detection is
  tasks,              \* the other tasks: none, running or aborted
  worker,             \* "none", "running", "aborted" or "ended"
  asked, broken       \* history: panes whose command was sent; whether detection lost a command

serverVars == <<server, keyspace>>
connVars == <<step, client, caps>>
appVars == <<view, pane, detected>>
workVars == <<working, out, walk, asked, broken>>
vars == <<serverVars, lost, ui, connVars, appVars, req, upd, workVars, tasks, worker>>

NoWalk == [page |-> 0, count |-> 0, names |-> {}, sampled |-> 0]

-----------------------------------------------------------------------------
(* Connecting, under the splash *)

GiveUp == ui' = "failed" /\ client' = "quit"

\* classify: only a refusal or an unknown command counts, an error in transit does not.
Classify(permit) ==
  CASE permit = "yes" -> "Available"
    [] permit = "denied" -> "Denied"
    [] permit = "disabled" -> "Disabled"
    [] permit \in {"unknown", "empty"} -> "Unsupported"

Lose == lost < MaxLost /\ lost' = lost + 1

(* Mutant: an error in transit is taken for a refusal, whatever it was.    *)
ProbedStrict(f, a) ==
  IF a # Classify(server[f]) THEN Lose /\ a = "Denied" ELSE UNCHANGED lost

\* What one probe (or INFO itself) sets its feature to.
Probed(f, a) == IF a # Classify(server[f]) THEN Lose /\ a = "Available" ELSE UNCHANGED lost

ClientInit ==
  /\ ui = "splash" /\ step = "init"
  /\ \/ step' = "ping" /\ UNCHANGED <<ui, client>>
     \/ GiveUp /\ UNCHANGED step
  /\ UNCHANGED <<caps, req, worker, lost>>

\* measure_rtt: a PING that fails leaves the default.
Ping ==
  /\ ui = "splash" /\ step = "ping"
  /\ step' = "info"
  /\ UNCHANGED <<ui, client, caps, req, worker, lost>>

Info ==
  /\ ui = "splash" /\ step = "info"
  /\ step' = "probe"
  /\ \E a \in Availability : Probed("info", a) /\ caps' = [caps EXCEPT !["info"] = a]
  /\ UNCHANGED <<ui, client, req, worker>>

\* All probes in one pipeline, then the worker with its first two requests.
Probe ==
  /\ ui = "splash" /\ step = "probe"
  /\ \E f \in Features \ {"info"}, a \in Availability :
       /\ Probed(f, a)
       /\ caps' = [g \in Features |-> IF g = "info" THEN caps[g]
                                      ELSE IF g = f THEN a ELSE Classify(server[g])]
  /\ step' = "done"
  /\ ui' = "running" /\ worker' = "running" /\ req' = <<Detect, Rescan>>
  /\ UNCHANGED client

\* The deadline covers the whole handshake.
Deadline ==
  /\ ui = "splash"
  /\ GiveUp
  /\ UNCHANGED <<step, caps, req, worker, lost>>

\* q at the splash; any key after a failure was shown.
Cancel ==
  /\ ui \in {"splash", "failed"}
  /\ ui' = "closed"
  /\ UNCHANGED <<connVars, req, worker, lost>>

Connect == /\ ClientInit \/ Ping \/ Info \/ Probe \/ Deadline \/ Cancel
           /\ UNCHANGED <<serverVars, appVars, upd, workVars, tasks>>

-----------------------------------------------------------------------------
(* The App *)

Running == ui = "running"
Tabs == {"keys", "stats"} \cup Panes
          \cup (IF detected = NothingFound THEN {} ELSE {"queues"})

Room == Len(req) < ReqCap

(* Mutant: a request is queued whether or not there is room.               *)
TrySendBlind(r) == req' = Append(req, r)

TrySend(r) == req' = IF Room THEN Append(req, r) ELSE req

(* Mutant: a refused load leaves the pane loading.                         *)
LoadPaneHopeful(p) ==
  /\ TrySend(Load(p))
  /\ pane' = [pane EXCEPT ![p] = "loading"]

LoadPane(p) ==
  /\ TrySend(Load(p))
  /\ pane' = [pane EXCEPT ![p] = IF Room THEN "loading" ELSE "failed"]

\* load_view, with force for r and without for a tab that was just opened.
LoadView(v, force) ==
  IF v = "keys" THEN (IF force THEN TrySend(Rescan) ELSE UNCHANGED req) /\ UNCHANGED pane
  ELSE IF v = "stats" THEN TrySend(RefreshInfo) /\ UNCHANGED pane
  ELSE IF force \/ pane[v] = "idle" THEN LoadPane(v)
  ELSE UNCHANGED <<req, pane>>

Goto ==
  \E v \in Tabs \ {view} : view' = v /\ LoadView(v, FALSE) /\ UNCHANGED <<ui, tasks, worker>>

Reload == LoadView(view, TRUE) /\ UNCHANGED <<view, ui, tasks, worker>>

\* The key browser's fetch, and the stats tick.
Fetch ==
  /\ \E r \in {Select, RefreshInfo} : TrySend(r)
  /\ UNCHANGED <<view, pane, ui, tasks, worker>>

Abort(ts) == [t \in Tasks |-> IF t \in ts /\ tasks[t] = "running" THEN "aborted" ELSE tasks[t]]

\* The events reader goes with event_loop's handle, the worker is aborted after it.
Quit ==
  /\ ui' = "closed"
  /\ tasks' = Abort({"reader"})
  /\ worker' = IF worker = "running" THEN "aborted" ELSE worker
  /\ UNCHANGED <<view, pane, req>>

Key == /\ Running
       /\ Goto \/ Reload \/ Fetch \/ Quit
       /\ UNCHANGED <<serverVars, lost, connVars, detected, upd, workVars>>

Apply ==
  /\ Running /\ upd # <<>>
  /\ LET u == Head(upd)
     IN /\ upd' = Tail(upd)
        /\ pane' = IF u.type = "Loaded" THEN [pane EXCEPT ![u.pane] = u.state] ELSE pane
        /\ detected' = IF u.type = "Detected" THEN u ELSE detected
        \* StreamerHandle::attach, once, when there is a queue to follow.
        /\ tasks' = IF u.type = "Detected" /\ u.names # {} /\ tasks["reader"] = "none"
                    THEN [tasks EXCEPT !["reader"] = "running"] ELSE tasks
  /\ UNCHANGED <<serverVars, lost, ui, connVars, view, req, workVars, worker>>

-----------------------------------------------------------------------------
(* The worker *)

Alive == worker \in {"running", "aborted"}
Free == Alive /\ working = None /\ out = None

Reply(u) == out' = u /\ working' = None

Take ==
  /\ Free /\ req # <<>>
  /\ LET r == Head(req)
     IN /\ req' = Tail(req)
        /\ IF r = Select
           THEN tasks' = [tasks EXCEPT !["read"] = "running"] /\ UNCHANGED working
           ELSE IF r = RefreshInfo
           THEN /\ tasks' = IF caps["info"] = "Available" /\ tasks["info"] = "none"
                            THEN [tasks EXCEPT !["info"] = "running"] ELSE tasks
                /\ UNCHANGED working
           ELSE working' = r /\ UNCHANGED tasks
        /\ walk' = IF r = Detect THEN NoWalk ELSE walk
  /\ UNCHANGED <<lost, out, asked, broken, upd, worker>>

\* scan_batch, here only its reply.
Scan ==
  /\ Alive /\ working = Rescan
  /\ Reply(Other)
  /\ UNCHANGED <<lost, walk, asked, broken, req, upd, tasks, worker>>

\* A lost probe leaves SCAN with an option that the server does not know.
ScanRefused == caps["typeFilter"] = "Available" /\ server["typeFilter"] # "yes"

\* The load itself.  Cluster nodes and channel counts are further commands whose
\* failure is that of the load or only less detail.
Permitted(p) == IF p = "queues" THEN ~ScanRefused ELSE server[p] = "yes"
AskServer(p) ==
  /\ asked' = asked \cup {p}
  /\ \/ Permitted(p) /\ Reply(Loaded(p, "ready")) /\ UNCHANGED lost
     \/ Permitted(p) /\ Reply(Loaded(p, "failed")) /\ Lose
     \/ ~Permitted(p) /\ Reply(Loaded(p, "failed")) /\ UNCHANGED lost

\* Worker::pane and Worker::cluster: the capability comes first.
LoadOne ==
  /\ Alive /\ working \in {Load(p) : p \in AllPanes}
  /\ LET p == working.pane
         gate == IF p = "queues" THEN "Available" ELSE caps[p]
     IN IF gate = "Available" THEN AskServer(p)
        ELSE /\ Reply(Loaded(p, IF p = "cluster" /\ gate = "Disabled"
                                THEN "ready" ELSE "unavailable"))
             /\ UNCHANGED <<asked, lost>>
  /\ UNCHANGED <<walk, broken, req, upd, tasks, worker>>

\* The meta keys of one page that SCAN returns: with the TYPE option only hashes.
MetaKeys(page) == {k \in page : caps["typeFilter"] = "Available" => k.form # "foreign"}
Smallest(S, n) == {x \in S : Cardinality({y \in S : y < x}) < n}
Scanned == \/ walk.page = Len(keyspace) \/ walk.page = MaxDetectPages
           \/ walk.count >= MaxQueues
Names == Smallest(walk.names, MaxQueues)
FormOf(name) ==
  CHOOSE form \in MetaForms :
    \E i \in DOMAIN keyspace : [name |-> name, form |-> form] \in keyspace[i]

DetectFails == Reply(NothingFound)

\* scan_meta_keys: the next page of the walk over <prefix>:*:meta.
DetectPage ==
  /\ Alive /\ working = Detect /\ ~Scanned /\ walk.sampled = 0
  /\ \/ /\ ~ScanRefused
        /\ LET keys == MetaKeys(keyspace[walk.page + 1])
           IN walk' = [page |-> walk.page + 1, count |-> walk.count + Cardinality(keys),
                       names |-> walk.names \cup {k.name : k \in keys}, sampled |-> 0]
        /\ UNCHANGED <<lost, working, out, broken>>
     \/ /\ IF ScanRefused THEN UNCHANGED lost ELSE Lose
        /\ DetectFails /\ broken' = TRUE /\ UNCHANGED walk
  /\ UNCHANGED <<asked, req, upd, tasks, worker>>

\* read_meta of the next of the first few names, until one has a version.
Sample == CHOOSE n \in Names : Cardinality({m \in Names : m < n}) = walk.sampled
Confidence(form) == IF form = "bullmq" THEN "Certain" ELSE "Likely"

(* Mutant: sampling that found no version is taken for no queue at all.    *)
NeedsVersion == Scanned /\ (walk.sampled = Cardinality(Names) \/ walk.sampled = Sampled)
                  /\ Reply(NothingFound)

NoVersionLeft == Scanned /\ (walk.sampled = Cardinality(Names) \/ walk.sampled = Sampled)
                   /\ Reply(IF Names = {} THEN NothingFound ELSE Found("Weak", Names))

DetectSample ==
  /\ Alive /\ working = Detect /\ Scanned
  /\ \/ NoVersionLeft /\ UNCHANGED <<lost, walk, broken>>
     \/ /\ walk.sampled < Cardinality(Names) /\ walk.sampled < Sampled
        /\ LET form == FormOf(Sample)
           IN \/ /\ form \in {"bullmq", "otherlib"}
                 /\ Reply(Found(Confidence(form), Names)) /\ UNCHANGED <<lost, walk, broken>>
              \/ /\ form = "plain"
                 /\ walk' = [walk EXCEPT !.sampled = @ + 1]
                 /\ UNCHANGED <<lost, working, out, broken>>
              \/ form = "foreign" /\ DetectFails /\ UNCHANGED <<lost, walk, broken>>
              \/ Lose /\ DetectFails /\ broken' = TRUE /\ UNCHANGED walk
  /\ UNCHANGED <<asked, req, upd, tasks, worker>>

SendUpdate ==
  /\ Alive /\ out # None /\ Running /\ Len(upd) < UpdCap
  /\ upd' = Append(upd, out)
  /\ out' = None
  /\ UNCHANGED <<lost, working, walk, asked, broken, req, tasks, worker>>

(* Mutant: dropping the worker leaves its refresh alone.                   *)
EndWorkerOnly ==
  /\ worker = "aborted"
  /\ worker' = "ended"
  /\ tasks' = Abort({"read"})
  /\ UNCHANGED <<lost, workVars, req, upd>>

\* The abort takes effect at the worker's next pause, and Drop passes it on.
EndWorker ==
  /\ worker = "aborted"
  /\ worker' = "ended"
  /\ tasks' = Abort({"read", "info"})
  /\ UNCHANGED <<lost, workVars, req, upd>>

\* A task is done (what it sends is KeyBrowser's and EventsReader's subject), or
\* stops at its next pause when it was aborted.
EndTask(t) ==
  /\ tasks[t] \in {"running", "aborted"}
  /\ tasks' = [tasks EXCEPT ![t] = IF t = "reader" THEN "done" ELSE "none"]
  /\ UNCHANGED <<lost, workVars, req, upd, worker>>

Backend ==
  /\ \/ Take \/ Scan \/ LoadOne \/ DetectPage \/ DetectSample \/ SendUpdate \/ EndWorker
     \/ \E t \in Tasks : EndTask(t)
  /\ UNCHANGED <<serverVars, ui, connVars, appVars>>

-----------------------------------------------------------------------------

Init ==
  /\ \E i \in Instances : server = i.server /\ keyspace = i.keyspace
  /\ lost = 0
  /\ ui = "splash" /\ step = "init" /\ client = "open"
  /\ caps = [f \in Features |-> "Unsupported"]
  /\ view = "keys" /\ pane = [p \in AllPanes |-> "idle"] /\ detected = NothingFound
  /\ req = <<>> /\ upd = <<>>
  /\ working = None /\ out = None /\ walk = NoWalk
  /\ tasks = [t \in Tasks |-> "none"] /\ worker = "none"
  /\ asked = {} /\ broken = FALSE

Next == Connect \/ Key \/ Apply \/ Backend

Spec == Init /\ [][Next]_vars

-----------------------------------------------------------------------------
(* Properties *)

Updates == {Other, NothingFound}
             \cup {Loaded(p, s) : p \in AllPanes, s \in PaneStates}
IsUpdate(u) == u \in Updates \/ (u.type = "Detected" /\ u.confidence \in Confidences)

\* The state is well formed, and both channels keep to their sizes.
TypeOK ==
  /\ ui \in {"splash", "failed", "running", "closed"}
  /\ step \in {"init", "ping", "info", "probe", "done"} /\ client \in {"open", "quit"}
  /\ caps \in [Features -> Availability] /\ lost \in 0..MaxLost
  /\ view \in {"keys", "stats"} \cup AllPanes /\ pane \in [AllPanes -> PaneStates]
  /\ req \in Seq(Request) /\ Len(req) <= ReqCap /\ Len(upd) <= UpdCap
  /\ \A i \in DOMAIN upd : IsUpdate(upd[i])
  /\ working \in {None, Rescan, Detect} \cup {Load(p) : p \in AllPanes}
  /\ out # None => working = None /\ IsUpdate(out)
  /\ tasks \in [Tasks -> {"none", "running", "aborted", "done"}]
  /\ worker \in {"none", "running", "aborted", "ended"}
  /\ asked \subseteq AllPanes /\ broken \in BOOLEAN

Answers(u, p) == u.type = "Loaded" /\ u.pane = p

\* A load of the pane is queued, being served, or answered and not yet shown.
UnderWay(p) ==
  \/ working = Load(p)
  \/ Answers(out, p)
  \/ \E i \in DOMAIN req : req[i] = Load(p)
  \/ \E i \in DOMAIN upd : Answers(upd[i], p)

Promise == INSTANCE LazyPanes WITH Panes <- AllPanes, shown <- pane,
                                   due <- {p \in AllPanes : UnderWay(p)}

\* The panes keep what LazyPanes promises of them, through two bounded channels and
\* a worker that does one thing at a time: no load is dropped while its pane waits,
\* none is answered by another pane's answer, and a load that finds no room is said to
\* have failed.
PanesKeepTheirPromise == Promise!Spec

\* What a pane says of the server is true of it: unavailable only where the server
\* refuses or lacks the command (a probe lost on the way never makes it so), never
\* on a standalone server's cluster pane; no command is sent that is known to be
\* refused, INFO refreshes included.
PaneSaysWhy ==
  /\ \A p \in Panes :
       /\ pane[p] = "unavailable" => server[p] \in {"denied", "unknown"}
       /\ pane[p] = "ready" => server[p] \in {"yes", "disabled"}
       /\ p \in asked => caps[p] = "Available"
  /\ tasks["info"] = "running" => caps["info"] = "Available"

\* The verdicts of detection, on their way or applied.
Verdicts == {u \in {out} \cup {upd[i] : i \in DOMAIN upd} : u.type = "Detected"}
              \cup ({detected} \ {NothingFound})
InReach == UNION {keyspace[i] : i \in 1..walk.page}

\* Detection is right about the pages it read: no queue is made up, certainty needs
\* a BullMQ version, and nothing is found only if nothing is there, a command failed,
\* or (without the server's type filter) a key of another type has a queue's name.
DetectionIsRight ==
  \A u \in Verdicts :
    /\ u.names \subseteq {k.name : k \in InReach} /\ Cardinality(u.names) <= MaxQueues
    /\ u.confidence = "Certain" => \E k \in InReach : k.name \in u.names /\ k.form = "bullmq"
    /\ u = NothingFound =>
         \/ broken
         \/ \A k \in InReach : k.form = "foreign"
         \/ caps["typeFilter"] # "Available" /\ \E k \in InReach : k.form = "foreign"

\* No task is left behind: once the browser is closed neither the worker nor the
\* events reader runs on, and where there is no worker (it was never started, or has
\* been dropped) no task runs that was not aborted, those included that it started
\* between its abort and its last pause. Of the client it says nothing: a handshake
\* that fails quits it, but q at the splash and quitting leave it to the process's end.
NothingOutlives ==
  /\ ui = "closed" => worker # "running" /\ tasks["reader"] # "running"
  /\ worker \in {"none", "ended"} => \A t \in Tasks : tasks[t] # "running"
=============================================================================
