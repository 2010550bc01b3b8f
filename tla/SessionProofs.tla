--------------------------- MODULE SessionProofs ---------------------------
(***************************************************************************)
(* What one run of the browser keeps, for any panes, servers, keyspaces    *)
(* and channel sizes: its types, that its panes implement LazyPanes, that  *)
(* what they say of the server is true, that nothing outlives it, and that *)
(* detection is right about what it read.                                  *)
(***************************************************************************)
EXTENDS Session, DataFacts

Settled == {"ready", "unavailable", "failed"}
Update == {Other, NothingFound} \cup {Loaded(p, s) : p \in AllPanes, s \in Settled}
            \cup {Found(c, n) : c \in Confidences, n \in SUBSET Nat}
WalkState == [page : Nat, count : Nat, names : SUBSET Nat, sampled : Nat]
MetaKey == [name : Nat, form : MetaForms]

\* TypeOK, and what follows the updates from the worker to the panes.
Types ==
  /\ server \in [Features -> Permits] /\ keyspace \in Seq(SUBSET MetaKey)
  /\ \A page \in DOMAIN keyspace : IsFiniteSet(keyspace[page])
  /\ \A f \in Features : /\ server[f] = "disabled" => f = "cluster"
                         /\ server[f] = "empty" => f = "info"
  /\ lost \in 0..MaxLost
  /\ ui \in {"splash", "failed", "running", "closed"}
  /\ step \in {"init", "ping", "info", "probe", "done"} /\ client \in {"open", "quit"}
  /\ caps \in [Features -> Availability]
  /\ view \in {"keys", "stats"} \cup AllPanes /\ pane \in [AllPanes -> PaneStates]
  /\ req \in Seq(Request) /\ Len(req) <= ReqCap
  /\ upd \in Seq(Update) /\ Len(upd) <= UpdCap
  /\ working \in {None, Rescan, Detect} \cup {Load(p) : p \in AllPanes}
  /\ out \in Update \cup {None} /\ (out # None => working = None)
  /\ walk \in WalkState /\ walk.page <= Len(keyspace)
  /\ tasks \in [Tasks -> {"none", "running", "aborted", "done"}]
  /\ worker \in {"none", "running", "aborted", "ended"}
  /\ asked \subseteq AllPanes /\ broken \in BOOLEAN

\* Before the worker there is nothing to do, and it ends only after the App.
Phases ==
  /\ ui \in {"splash", "failed"} => worker = "none"
  /\ ui = "running" => worker = "running"
  /\ worker \in {"aborted", "ended"} => ui = "closed"
  /\ worker = "none" =>
       /\ req = <<>> /\ upd = <<>> /\ working = None /\ out = None /\ asked = {}
       /\ pane = [p \in AllPanes |-> "idle"] /\ tasks = [t \in Tasks |-> "none"]

\* A probe says what the server permits, or was lost and counts as available.
Honest(f) == caps[f] \in {Classify(server[f]), "Available"}
CapsAreProbed ==
  /\ step \in {"probe", "done"} => Honest("info")
  /\ worker # "none" => \A f \in Features : Honest(f)

\* What a pane shows, or is about to, is true of the server.
Says(p, s) ==
  p \in Panes => /\ s = "unavailable" => server[p] \in {"denied", "unknown"}
                 /\ s = "ready" => server[p] \in {"yes", "disabled"}
Truthful(u) == u.type = "Loaded" => Says(u.pane, u.state)
AllTruthful ==
  /\ \A p \in Panes : Says(p, pane[p]) /\ (p \in asked => caps[p] = "Available")
  /\ Truthful(out) /\ \A i \in DOMAIN upd : Truthful(upd[i])
  /\ tasks["info"] = "running" => caps["info"] = "Available"

Inv == Types /\ Phases /\ CapsAreProbed /\ AllTruthful /\ NothingOutlives

-----------------------------------------------------------------------------
(* Requests, updates and walks                                             *)

LEMMA RequestFields ==
  /\ Rescan.type = "Rescan" /\ Select.type = "Select" /\ Detect.type = "Detect"
  /\ RefreshInfo.type = "RefreshInfo" /\ None.type = "none" /\ Other.type = "Other"
  /\ \A p : Load(p).type = "Load" /\ Load(p).pane = p
  /\ \A p, s : Loaded(p, s).type = "Loaded" /\ Loaded(p, s).pane = p /\ Loaded(p, s).state = s
  /\ \A c, n : Found(c, n).type = "Detected" /\ Found(c, n).confidence = c
  BY DEF Rescan, Select, Detect, RefreshInfo, None, Other, Load, Loaded, Found

LEMMA RequestIs ==
  /\ {Rescan, Select, RefreshInfo, Detect} \subseteq Request
  /\ \A p \in AllPanes : Load(p) \in Request
  /\ \A r \in Request : r.type = "Load" => r.pane \in AllPanes /\ r = Load(r.pane)
  /\ \A r \in Request \ {Select, RefreshInfo} :
       r \in {None, Rescan, Detect} \cup {Load(p) : p \in AllPanes}
  BY RequestFields DEF Request

LEMMA UpdateIs ==
  /\ Other \in Update /\ NothingFound \in Update
  /\ \A p \in AllPanes, s \in Settled : Loaded(p, s) \in Update
  /\ \A c \in Confidences, n \in SUBSET Nat : Found(c, n) \in Update
  /\ \A u \in Update : u.type = "Loaded" =>
       u.pane \in AllPanes /\ u.state \in Settled /\ u = Loaded(u.pane, u.state)
  /\ \A u \in Update : u.type \in {"Other", "Loaded", "Detected"} /\ u # None
<1>1. /\ Other \in Update
      /\ \A p \in AllPanes, s \in Settled : Loaded(p, s) \in Update
      /\ \A c \in Confidences, n \in SUBSET Nat : Found(c, n) \in Update
  BY DEF Update
<1>2. NothingFound \in Update
  BY DEF Update, NothingFound
<1>3. NothingFound.type = "Detected"
  BY RequestFields DEF NothingFound
<1>4. ASSUME NEW u \in Update
      PROVE  /\ u.type = "Loaded" =>
                  u.pane \in AllPanes /\ u.state \in Settled /\ u = Loaded(u.pane, u.state)
             /\ u.type \in {"Other", "Loaded", "Detected"} /\ u # None
  BY <1>3, RequestFields DEF Update
<1>5. QED
  BY <1>1, <1>2, <1>4

LEMMA Confident == \A form : Confidence(form) \in Confidences
  BY DEF Confidence, Confidences

LEMMA NamesAreNumbers ==
  ASSUME walk.names \subseteq Nat
  PROVE  Names \subseteq Nat
  BY DEF Names, Smallest

LEMMA Classified ==
  /\ \A permit \in Permits : Classify(permit) \in Availability
  /\ Classify("yes") = "Available" /\ Classify("denied") = "Denied"
  /\ Classify("disabled") = "Disabled"
  /\ Classify("unknown") = "Unsupported" /\ Classify("empty") = "Unsupported"
  BY DEF Classify, Availability, Permits

-----------------------------------------------------------------------------
(* Connecting                                                              *)

LEMMA InitInv == Init => Inv
<1> SUFFICES ASSUME Init PROVE Inv
  OBVIOUS
<1>1. PICK i \in Instances : server = i.server /\ keyspace = i.keyspace
  BY DEF Init
<1>2. Types
  <2>1. /\ req \in Seq(Request) /\ Len(req) <= ReqCap
        /\ upd \in Seq(Update) /\ Len(upd) <= UpdCap
    BY CapsAssumption DEF Init
  <2>2. /\ lost \in 0..MaxLost /\ walk \in WalkState
    BY CapsAssumption DEF Init, WalkState, NoWalk
  <2>3. /\ server \in [Features -> Permits] /\ keyspace \in Seq(SUBSET MetaKey)
        /\ \A page \in DOMAIN keyspace : IsFiniteSet(keyspace[page])
        /\ \A f \in Features : /\ server[f] = "disabled" => f = "cluster"
                               /\ server[f] = "empty" => f = "info"
    <3>1. Instance(i)
      BY <1>1, InstancesAssumption, Zenon
    <3>2. QED
      BY <3>1, <1>1, Zenon DEF Instance, MetaKey
  <2>4. /\ caps \in [Features -> Availability] /\ pane \in [AllPanes -> PaneStates]
        /\ tasks \in [Tasks -> {"none", "running", "aborted", "done"}]
    BY DEF Init, Availability, PaneStates
  <2>5. walk.page <= Len(keyspace)
    BY <2>3, LenProperties DEF Init, NoWalk
  <2>6. QED
    BY <2>1, <2>2, <2>3, <2>4, <2>5 DEF Types, Init, PaneStates
<1>3. Phases /\ CapsAreProbed /\ NothingOutlives
  BY DEF Init, Phases, CapsAreProbed, NothingOutlives
<1>4. AllTruthful
  BY RequestFields DEF Init, AllTruthful, Says, Truthful, AllPanes, Tasks
<1>5. QED
  BY <1>2, <1>3, <1>4 DEF Inv

LEMMA ConnectKeeps ==
  ASSUME Inv, Connect
  PROVE  Inv'
<1> USE DEF Inv
<1>0. /\ ui \in {"splash", "failed"} /\ worker = "none"
      /\ UNCHANGED <<serverVars, appVars, upd, workVars, tasks>>
  BY DEF Connect, ClientInit, Ping, Info, Probe, Deadline, Cancel, Phases
<1>1. CASE ClientInit \/ Ping \/ Deadline
  <2>1. /\ UNCHANGED <<caps, req, worker, lost>> /\ ui' \in {"splash", "failed"}
        /\ client' \in {"open", "quit"}
        /\ step' \in {"init", "ping", "info", "done"} \/ UNCHANGED step
        /\ step' \in {"init", "ping", "info", "probe", "done"}
        /\ step' = "done" => step = "done"
    BY <1>1, <1>0 DEF ClientInit, Ping, Deadline, GiveUp, Types, Phases, NothingOutlives
  <2>2. QED
    BY <1>0, <2>1 DEF Types, Phases, CapsAreProbed, Honest, AllTruthful, Truthful, Says,
      NothingOutlives, serverVars, appVars, workVars
<1>2. CASE Info
  <2>1. PICK a \in Availability : Probed("info", a) /\ caps' = [caps EXCEPT !["info"] = a]
    BY <1>2 DEF Info
  <2>2. lost' \in 0..MaxLost /\ a \in {Classify(server["info"]), "Available"}
    BY <2>1, CapsAssumption DEF Probed, Lose, Types
  <2>3. caps' \in [Features -> Availability] /\ caps'["info"] = a
    BY <2>1 DEF Types, Features
  <2>4. UNCHANGED <<req, worker, ui, client>> /\ step' = "probe"
    BY <1>2 DEF Info
  <2>5. Types' /\ Phases' /\ NothingOutlives'
    BY <1>0, <2>2, <2>3, <2>4 DEF Types, Phases, NothingOutlives, serverVars, appVars, workVars
  <2>6. CapsAreProbed'
    BY <1>0, <2>2, <2>3, <2>4 DEF CapsAreProbed, Honest, serverVars
  <2>7. AllTruthful'
    BY <1>0 DEF AllTruthful, Truthful, Says, Phases, serverVars, appVars, workVars, Tasks
  <2>8. QED
    BY <2>5, <2>6, <2>7
<1>3. CASE Probe
  <2>1. PICK f \in Features \ {"info"}, a \in Availability :
          /\ Probed(f, a)
          /\ caps' = [g \in Features |-> IF g = "info" THEN caps[g]
                                         ELSE IF g = f THEN a ELSE Classify(server[g])]
    BY <1>3 DEF Probe
  <2>2. lost' \in 0..MaxLost /\ a \in {Classify(server[f]), "Available"}
    BY <2>1, CapsAssumption DEF Probed, Lose, Types
  <2>3. step = "probe" /\ step' = "done" /\ ui' = "running" /\ worker' = "running"
        /\ req' = <<Detect, Rescan>> /\ client' = client
    BY <1>3 DEF Probe
  <2>4. \A g \in Features : Honest(g)'
    BY <1>0, <2>1, <2>2, <2>3 DEF CapsAreProbed, Honest, serverVars
  <2>5. caps' \in [Features -> Availability]
    BY <2>1, Classified DEF Types
  <2>6. req' \in Seq(Request) /\ Len(req') <= ReqCap
    BY <2>3, CapsAssumption, RequestIs
  <2>7. Types'
    BY <1>0, <2>2, <2>3, <2>5, <2>6 DEF Types, serverVars, appVars, workVars
  <2>8. Phases' /\ CapsAreProbed' /\ NothingOutlives'
    BY <1>0, <2>3, <2>4 DEF Phases, CapsAreProbed, NothingOutlives, Features
  <2>9. AllTruthful'
    BY <1>0 DEF AllTruthful, Truthful, Says, Phases, serverVars, appVars, workVars, Tasks
  <2>10. QED
    BY <2>7, <2>8, <2>9
<1>4. CASE Cancel
  <2>1. ui' = "closed" /\ UNCHANGED <<connVars, req, worker, lost>>
    BY <1>4 DEF Cancel
  <2>2. QED
    BY <1>0, <2>1 DEF Types, Phases, CapsAreProbed, Honest, AllTruthful, Truthful, Says,
      NothingOutlives, serverVars, connVars, appVars, workVars, Tasks
<1>5. QED
  BY <1>1, <1>2, <1>3, <1>4 DEF Connect

-----------------------------------------------------------------------------
(* The App                                                                 *)

LEMMA TryingKeepsType ==
  ASSUME req \in Seq(Request), Len(req) <= ReqCap, NEW r \in Request, TrySend(r)
  PROVE  req' \in Seq(Request) /\ Len(req') <= ReqCap
  BY CapsAssumption, AppendProperties DEF TrySend, Room

LEMMA ViewLoads ==
  ASSUME Types, NEW v \in {"keys", "stats"} \cup AllPanes, NEW force \in BOOLEAN,
         LoadView(v, force)
  PROVE  /\ req' \in Seq(Request) /\ Len(req') <= ReqCap
         /\ pane' \in [AllPanes -> PaneStates]
         /\ \A p \in AllPanes : pane'[p] \in {pane[p], "loading", "failed"}
<1>1. CASE v \in {"keys", "stats"}
  <2>1. UNCHANGED pane /\ (UNCHANGED req \/ TrySend(Rescan) \/ TrySend(RefreshInfo))
    BY <1>1 DEF LoadView
  <2>2. QED
    BY <2>1, RequestIs, TryingKeepsType DEF Types
<1>2. CASE v \notin {"keys", "stats"}
  <2>1. LoadPane(v) \/ UNCHANGED <<req, pane>>
    BY <1>2 DEF LoadView
  <2>2. CASE LoadPane(v)
    <3>1. req' \in Seq(Request) /\ Len(req') <= ReqCap
      BY <1>2, <2>2, RequestIs, TryingKeepsType DEF LoadPane, Types
    <3>2. QED
      BY <1>2, <2>2, <3>1 DEF LoadPane, Types, PaneStates
  <2>3. QED
    BY <2>1, <2>2 DEF Types
<1>3. QED
  BY <1>1, <1>2

LEMMA AbortIs ==
  ASSUME Types, NEW ts \in SUBSET Tasks
  PROVE  /\ Abort(ts) \in [Tasks -> {"none", "running", "aborted", "done"}]
         /\ \A t \in Tasks : Abort(ts)[t] = "running" => tasks[t] = "running" /\ t \notin ts
  BY DEF Abort, Types

LEMMA KeyKeeps ==
  ASSUME Inv, Key
  PROVE  Inv'
<1> USE DEF Inv
<1>0. /\ Running /\ worker = "running" /\ UNCHANGED <<serverVars, lost, connVars, detected, upd, workVars>>
  BY DEF Key, Phases, Running
<1>1. ASSUME /\ req' \in Seq(Request) /\ Len(req') <= ReqCap
             /\ pane' \in [AllPanes -> PaneStates]
             /\ \A p \in AllPanes : pane'[p] \in {pane[p], "loading", "failed"}
             /\ UNCHANGED <<ui, tasks, worker>> /\ view' \in {"keys", "stats"} \cup AllPanes
      PROVE  Inv'
  <2>1. Types'
    BY <1>0, <1>1 DEF Types, serverVars, connVars, workVars
  <2>2. Phases' /\ CapsAreProbed' /\ NothingOutlives'
    BY <1>0, <1>1 DEF Phases, CapsAreProbed, Honest, NothingOutlives, Running, serverVars, connVars
  <2>3. AllTruthful'
    BY <1>0, <1>1 DEF AllTruthful, Truthful, Says, AllPanes, serverVars, connVars, workVars
  <2>4. QED
    BY <2>1, <2>2, <2>3
<1>2. CASE Goto
  <2>1. PICK v \in Tabs : view' = v /\ LoadView(v, FALSE) /\ UNCHANGED <<ui, tasks, worker>>
    BY <1>2 DEF Goto
  <2>2. v \in {"keys", "stats"} \cup AllPanes
    BY DEF Tabs, AllPanes
  <2>3. QED
    BY <1>1, <2>1, <2>2, ViewLoads
<1>3. CASE Reload
  BY <1>1, <1>3, ViewLoads DEF Reload, Types
<1>4. CASE Fetch
  BY <1>1, <1>4, RequestIs, TryingKeepsType DEF Fetch, Types
<1>5. CASE Quit
  <2>1. /\ ui' = "closed" /\ tasks' = Abort({"reader"}) /\ worker' = "aborted"
        /\ UNCHANGED <<view, pane, req>>
    BY <1>0, <1>5 DEF Quit
  <2>2. /\ tasks' \in [Tasks -> {"none", "running", "aborted", "done"}]
        /\ \A t \in Tasks : tasks'[t] = "running" => tasks[t] = "running" /\ t # "reader"
    BY <2>1, AbortIs DEF Tasks
  <2>3. Types'
    BY <1>0, <2>1, <2>2 DEF Types, serverVars, connVars, workVars
  <2>4. Phases' /\ CapsAreProbed' /\ NothingOutlives'
    BY <1>0, <2>1, <2>2 DEF Phases, CapsAreProbed, Honest, NothingOutlives, Tasks, serverVars, connVars
  <2>5. AllTruthful'
    BY <1>0, <2>1, <2>2 DEF AllTruthful, Truthful, Says, Tasks, serverVars, connVars, workVars
  <2>6. QED
    BY <2>3, <2>4, <2>5
<1>6. QED
  BY <1>2, <1>3, <1>4, <1>5 DEF Key

LEMMA ApplyKeeps ==
  ASSUME Inv, Apply
  PROVE  Inv'
<1> USE DEF Inv
<1>0. /\ ui = "running" /\ worker = "running" /\ upd # <<>>
      /\ UNCHANGED <<serverVars, lost, ui, connVars, view, req, workVars, worker>>
  BY DEF Apply, Phases, Running
<1> DEFINE u == Head(upd)
<1>1. /\ u \in Update /\ Truthful(u) /\ upd' \in Seq(Update) /\ Len(upd') <= UpdCap
      /\ \A i \in DOMAIN upd' : Truthful(upd'[i])
  <2>1. u \in Update /\ upd' \in Seq(Update) /\ Len(upd') = Len(upd) - 1
        /\ \A i \in 1..Len(upd') : upd'[i] = upd[i + 1]
    BY <1>0, HeadTailProperties DEF Apply, Types
  <2>2. 1 \in DOMAIN upd /\ u = upd[1]
    BY <1>0, HeadTailProperties, EmptySeq, LenProperties DEF Types
  <2>3. Len(upd) \in Nat /\ Len(upd) <= UpdCap /\ DOMAIN upd = 1..Len(upd) /\ DOMAIN upd' = 1..Len(upd')
    BY <2>1, LenProperties DEF Types
  <2>4. Len(upd') <= UpdCap
    BY <2>1, <2>3, CapsAssumption
  <2>5. \A i \in DOMAIN upd : Truthful(upd[i])
    BY DEF AllTruthful
  <2>6. Truthful(u)
    BY <2>2, <2>5
  <2>7. ASSUME NEW i \in DOMAIN upd'
        PROVE  Truthful(upd'[i])
    <3>1. i \in 1..Len(upd') /\ i + 1 \in DOMAIN upd
      BY <2>1, <2>3
    <3>2. QED
      BY <2>1, <2>5, <3>1
  <2>8. QED
    BY <2>1, <2>4, <2>6, <2>7
<1>2. pane' = IF u.type = "Loaded" THEN [pane EXCEPT ![u.pane] = u.state] ELSE pane
  BY DEF Apply
<1>3. /\ pane' \in [AllPanes -> PaneStates]
      /\ \A p \in Panes : Says(p, pane'[p])
  BY <1>1, <1>2, UpdateIs DEF Types, AllTruthful, Truthful, Settled, PaneStates, AllPanes, Says
<1>4. tasks' \in {tasks, [tasks EXCEPT !["reader"] = "running"]}
  BY DEF Apply
<1>5. /\ tasks' \in [Tasks -> {"none", "running", "aborted", "done"}]
      /\ tasks'["info"] = tasks["info"]
  BY <1>4 DEF Types, Tasks
<1>6. Types'
  BY <1>0, <1>1, <1>3, <1>5 DEF Types, serverVars, connVars, workVars
<1>7. Phases' /\ CapsAreProbed' /\ NothingOutlives'
  BY <1>0 DEF Phases, CapsAreProbed, Honest, NothingOutlives, serverVars, connVars
<1>8. AllTruthful'
  <2>1. (\A i \in DOMAIN upd : Truthful(upd[i]))'
    BY <1>0, <1>1 DEF Truthful, Says, serverVars
  <2>2. (\A p \in Panes : Says(p, pane[p]))'
    BY <1>0, <1>3 DEF Says, serverVars
  <2>3. Truthful(out)'
    BY <1>0 DEF AllTruthful, Truthful, Says, serverVars, workVars
  <2>4. QED
    BY <1>0, <1>5, <2>1, <2>2, <2>3 DEF AllTruthful, connVars, workVars
<1>9. QED
  BY <1>6, <1>7, <1>8

-----------------------------------------------------------------------------
(* The worker                                                              *)

\* What a step of the worker leaves alone.
LEMMA Frame ==
  ASSUME Inv, Backend
  PROVE  /\ UNCHANGED <<serverVars, ui, connVars, appVars>>
         /\ Take \/ Scan \/ LoadOne \/ DetectPage \/ DetectSample \/ SendUpdate \/ EndWorker
              \/ \E t \in Tasks : EndTask(t)
         /\ worker # "none"
<1>1. worker # "none"
  <2>1. CASE \E t \in Tasks : EndTask(t)
    BY <2>1 DEF EndTask, Inv, Phases
  <2>2. QED
    BY <2>1 DEF Backend, Take, Free, Scan, LoadOne, DetectPage, DetectSample, SendUpdate, EndWorker, Alive
<1>2. QED
  BY <1>1 DEF Backend

\* Most steps of the worker end one request with one truthful update.
LEMMA ReplyKeeps ==
  ASSUME Inv, worker # "none", UNCHANGED <<serverVars, ui, connVars, appVars, req, upd, tasks, worker>>,
         lost' \in 0..MaxLost, walk' \in WalkState, walk'.page <= Len(keyspace), broken' \in BOOLEAN,
         asked' \in SUBSET AllPanes, \A p \in Panes : p \in asked' => caps[p] = "Available",
         \/ UNCHANGED <<working, out>>
         \/ working' = None /\ out' \in Update /\ Truthful(out')
  PROVE  Inv'
<1> USE DEF Inv
<1>1. Types'
  BY DEF Types, serverVars, connVars, appVars
<1>2. Phases' /\ CapsAreProbed' /\ NothingOutlives'
  BY DEF Phases, CapsAreProbed, Honest, NothingOutlives, serverVars, connVars, appVars
<1>3. (\A i \in DOMAIN upd : Truthful(upd[i]))'
  BY DEF AllTruthful, Truthful, Says, serverVars
<1>4. Truthful(out)'
  BY DEF AllTruthful, Truthful, Says, serverVars
<1>5. AllTruthful'
  BY <1>3, <1>4 DEF AllTruthful, Says, serverVars, connVars, appVars
<1>6. QED
  BY <1>1, <1>2, <1>5

LEMMA LoseIs == ASSUME Lose, lost \in 0..MaxLost PROVE lost' \in 0..MaxLost
  BY CapsAssumption DEF Lose

LEMMA TakeKeeps ==
  ASSUME Inv, Take, UNCHANGED <<serverVars, ui, connVars, appVars>>, worker # "none"
  PROVE  Inv'
<1> USE DEF Inv
<1> DEFINE r == Head(req)
<1>1. /\ r \in Request /\ req' \in Seq(Request) /\ Len(req') <= ReqCap
      /\ working = None /\ out = None /\ req # <<>> /\ worker \in {"running", "aborted"}
      /\ UNCHANGED <<lost, out, asked, broken, upd, worker>>
  <2>1. /\ r \in Request /\ req' \in Seq(Request) /\ Len(req') = Len(req) - 1
        /\ working = None /\ out = None /\ req # <<>> /\ worker \in {"running", "aborted"}
        /\ UNCHANGED <<lost, out, asked, broken, upd, worker>>
    BY HeadTailProperties DEF Take, Free, Alive, Types
  <2>2. Len(req) \in Nat /\ Len(req) <= ReqCap
    BY LenProperties DEF Types
  <2>3. QED
    BY <2>1, <2>2, CapsAssumption
<1>2. walk' \in WalkState /\ walk'.page <= Len(keyspace)
  BY LenProperties DEF Take, Types, WalkState, NoWalk
<1>3. /\ working' \in {None, Rescan, Detect} \cup {Load(p) : p \in AllPanes}
      /\ tasks' \in [Tasks -> {"none", "running", "aborted", "done"}]
      /\ tasks'["reader"] = tasks["reader"]
      /\ tasks'["info"] = "running" => caps["info"] = "Available"
  <2>1. CASE r = Select
    BY <1>1, <2>1 DEF Take, Types, Tasks, AllTruthful
  <2>2. CASE r = RefreshInfo
    <3>1. r # Select
      BY <2>2, RequestFields
    <3>2. QED
      BY <1>1, <2>2, <3>1 DEF Take, Types, Tasks, AllTruthful
  <2>3. CASE r \notin {Select, RefreshInfo}
    <3>1. working' = r /\ UNCHANGED tasks
      BY <2>3 DEF Take
    <3>2. r \in {None, Rescan, Detect} \cup {Load(p) : p \in AllPanes}
      BY <1>1, <2>3, RequestIs
    <3>3. QED
      BY <3>1, <3>2 DEF Types, AllTruthful
  <2>4. QED
    BY <2>1, <2>2, <2>3
<1>4. Types'
  BY <1>1, <1>2, <1>3 DEF Types, serverVars, connVars, appVars
<1>5. Phases' /\ CapsAreProbed' /\ NothingOutlives'
  BY <1>1, <1>3 DEF Phases, CapsAreProbed, Honest, NothingOutlives, serverVars, connVars, appVars
<1>6. AllTruthful'
  BY <1>1, <1>3 DEF AllTruthful, Truthful, Says, serverVars, connVars, appVars
<1>7. QED
  BY <1>4, <1>5, <1>6

LEMMA LoadOneKeeps ==
  ASSUME Inv, LoadOne, UNCHANGED <<serverVars, ui, connVars, appVars>>, worker # "none"
  PROVE  Inv'
<1> USE DEF Inv
<1>1. PICK p \in AllPanes : working = Load(p)
  BY DEF LoadOne
<1>2. working.pane = p
  BY <1>1, RequestFields
<1> DEFINE gate == IF p = "queues" THEN "Available" ELSE caps[p]
<1>3. /\ UNCHANGED <<walk, broken, req, upd, tasks, worker>>
      /\ IF gate = "Available" THEN AskServer(p)
         ELSE /\ Reply(Loaded(p, IF p = "cluster" /\ gate = "Disabled"
                                 THEN "ready" ELSE "unavailable"))
              /\ UNCHANGED <<asked, lost>>
  BY <1>2 DEF LoadOne
<1>4. /\ lost \in 0..MaxLost /\ walk \in WalkState /\ walk.page <= Len(keyspace) /\ broken \in BOOLEAN
      /\ asked \in SUBSET AllPanes
      /\ \A q \in Panes : q \in asked => caps[q] = "Available"
  BY DEF Types, AllTruthful
<1>5. p \in Panes => /\ server[p] \in Permits \ {"empty"} /\ Honest(p) /\ p \in Features
                     /\ p # "queues"
  BY PanesAssumption DEF Types, CapsAreProbed, Features
<1>6. CASE gate = "Available"
  <2>1. AskServer(p)
    BY <1>3, <1>6
  <2>2. asked' \in SUBSET AllPanes /\ \A q \in Panes : q \in asked' => caps[q] = "Available"
    BY <1>4, <1>5, <1>6, <2>1 DEF AskServer
  <2>3. working' = None /\ lost' \in 0..MaxLost
    BY <1>4, <2>1, LoseIs DEF AskServer, Reply
  <2>4. \/ out' = Loaded(p, "failed")
        \/ out' = Loaded(p, "ready") /\ Permitted(p)
    BY <2>1 DEF AskServer, Reply
  <2>5. out' \in Update
    BY <2>4, UpdateIs DEF Settled
  <2>6. Truthful(out')
    BY <1>5, <2>4, RequestFields DEF Truthful, Says, Permitted
  <2>7. QED
    BY <1>3, <1>4, <2>2, <2>3, <2>5, <2>6, ReplyKeeps
<1>7. CASE gate # "Available"
  <2>1. /\ Reply(Loaded(p, IF p = "cluster" /\ gate = "Disabled" THEN "ready" ELSE "unavailable"))
        /\ UNCHANGED <<asked, lost>>
    BY <1>3, <1>7
  <2>2. p \in Panes /\ gate = caps[p] /\ caps[p] = Classify(server[p])
    BY <1>5, <1>7 DEF AllPanes, Honest
  <2>3. out' \in Update /\ working' = None
    BY <2>1, UpdateIs DEF Reply, Settled
  <2>4. /\ server[p] # "yes" /\ (server[p] = "disabled" => p = "cluster")
        /\ gate = "Disabled" <=> server[p] = "disabled"
    BY <1>5, <1>7, <2>2, Classified DEF Types, Permits
  <2>5. Truthful(out')
    BY <1>5, <2>1, <2>2, <2>4, RequestFields DEF Truthful, Says, Reply, Permits
  <2>6. QED
    BY <1>3, <1>4, <2>1, <2>3, <2>5, ReplyKeeps
<1>8. QED
  BY <1>6, <1>7

LEMMA NotFoundIsTruthful == NothingFound \in Update /\ Truthful(NothingFound)
  BY UpdateIs, RequestFields DEF NothingFound, Truthful

LEMMA VerdictIs ==
  ASSUME NEW c \in Confidences, NEW n \in SUBSET Nat
  PROVE  Found(c, n) \in Update /\ Truthful(Found(c, n))
  BY UpdateIs, RequestFields DEF Truthful

LEMMA DetectPageKeeps ==
  ASSUME Inv, DetectPage, UNCHANGED <<serverVars, ui, connVars, appVars>>, worker # "none"
  PROVE  Inv'
<1> USE DEF Inv
<1>1. /\ lost \in 0..MaxLost /\ walk \in WalkState /\ walk.page <= Len(keyspace) /\ broken \in BOOLEAN
      /\ asked \in SUBSET AllPanes
      /\ \A q \in Panes : q \in asked => caps[q] = "Available"
      /\ UNCHANGED <<asked, req, upd, tasks, worker>>
  BY DEF Types, AllTruthful, DetectPage
<1> DEFINE keys == MetaKeys(keyspace[walk.page + 1])
<1>2. CASE /\ walk' = [page |-> walk.page + 1, count |-> walk.count + Cardinality(keys),
                       names |-> walk.names \cup {k.name : k \in keys}, sampled |-> 0]
           /\ UNCHANGED <<lost, working, out, broken>>
  <2>1. walk.page + 1 \in DOMAIN keyspace /\ walk.page + 1 <= Len(keyspace)
    <3>1. walk.page \in Nat
      BY <1>1 DEF WalkState
    <3>2. walk.page # Len(keyspace) /\ Len(keyspace) \in Nat /\ DOMAIN keyspace = 1..Len(keyspace)
      BY LenProperties DEF DetectPage, Scanned, Types
    <3>3. walk.page <= Len(keyspace)
      BY DEF Types
    <3>4. QED
      BY <3>1, <3>2, <3>3
  <2>2. keyspace[walk.page + 1] \in SUBSET MetaKey /\ IsFiniteSet(keyspace[walk.page + 1])
    BY <2>1, ElementOfSeq, LenProperties DEF Types
  <2>3. keys \subseteq keyspace[walk.page + 1]
    BY DEF MetaKeys
  <2>4. Cardinality(keys) \in Nat
    BY <2>2, <2>3, FS_Subset, FS_CardinalityType
  <2>5. {k.name : k \in keys} \in SUBSET Nat
    BY <2>2, <2>3 DEF MetaKey
  <2>6. walk' \in WalkState /\ walk'.page <= Len(keyspace)
    BY <1>1, <1>2, <2>1, <2>4, <2>5 DEF WalkState
  <2>7. QED
    BY <1>1, <1>2, <2>6, ReplyKeeps
<1>3. CASE /\ UNCHANGED lost \/ Lose
           /\ DetectFails /\ broken' = TRUE /\ UNCHANGED walk
  <2>1. working' = None /\ out' = NothingFound
    BY <1>3 DEF DetectFails, Reply
  <2>2. QED
    BY <1>1, <1>3, <2>1, NotFoundIsTruthful, LoseIs, ReplyKeeps
<1>4. QED
  BY <1>2, <1>3 DEF DetectPage

LEMMA DetectSampleKeeps ==
  ASSUME Inv, DetectSample, UNCHANGED <<serverVars, ui, connVars, appVars>>, worker # "none"
  PROVE  Inv'
<1> USE DEF Inv
<1>1. /\ lost \in 0..MaxLost /\ walk \in WalkState /\ walk.page <= Len(keyspace) /\ broken \in BOOLEAN
      /\ asked \in SUBSET AllPanes
      /\ \A q \in Panes : q \in asked => caps[q] = "Available"
      /\ UNCHANGED <<asked, req, upd, tasks, worker>>
  BY DEF Types, AllTruthful, DetectSample
<1>2. Names \in SUBSET Nat
  BY <1>1, NamesAreNumbers DEF WalkState
<1>3. CASE NoVersionLeft /\ UNCHANGED <<lost, walk, broken>>
  <2>1. working' = None /\ out' \in {NothingFound, Found("Weak", Names)}
    BY <1>3 DEF NoVersionLeft, Reply
  <2>2. out' \in Update /\ Truthful(out')
    BY <1>2, <2>1, NotFoundIsTruthful, VerdictIs DEF Confidences
  <2>3. QED
    BY <1>1, <1>3, <2>1, <2>2, ReplyKeeps
<1>4. ASSUME NEW form, Reply(Found(Confidence(form), Names)), UNCHANGED <<lost, walk, broken>>
      PROVE  Inv'
  <2>1. working' = None /\ out' \in Update /\ Truthful(out')
    BY <1>2, <1>4, Confident, VerdictIs DEF Reply
  <2>2. QED
    BY <1>1, <1>4, <2>1, ReplyKeeps
<1>5. CASE walk' = [walk EXCEPT !.sampled = @ + 1] /\ UNCHANGED <<lost, working, out, broken>>
  <2>1. walk' \in WalkState /\ walk'.page <= Len(keyspace)
    BY <1>1, <1>5 DEF WalkState
  <2>2. QED
    BY <1>1, <1>5, <2>1, ReplyKeeps
<1>6. CASE /\ UNCHANGED lost \/ Lose
           /\ DetectFails /\ broken' \in {broken, TRUE} /\ UNCHANGED walk
  <2>1. working' = None /\ out' = NothingFound
    BY <1>6 DEF DetectFails, Reply
  <2>2. QED
    BY <1>1, <1>6, <2>1, NotFoundIsTruthful, LoseIs, ReplyKeeps
<1>7. QED
  BY <1>3, <1>4, <1>5, <1>6 DEF DetectSample

LEMMA SendKeeps ==
  ASSUME Inv, SendUpdate, UNCHANGED <<serverVars, ui, connVars, appVars>>
  PROVE  Inv'
<1> USE DEF Inv
<1>1. /\ out \in Update /\ ui = "running" /\ worker = "running" /\ out' = None
      /\ upd' = Append(upd, out) /\ Len(upd) < UpdCap
      /\ UNCHANGED <<lost, working, walk, asked, broken, req, tasks, worker>>
  BY DEF SendUpdate, Types, Running, Phases
<1>2. /\ upd' \in Seq(Update) /\ Len(upd') <= UpdCap
      /\ DOMAIN upd' = 1..(Len(upd) + 1) /\ DOMAIN upd = 1..Len(upd)
      /\ \A i \in 1..Len(upd) : upd'[i] = upd[i]
      /\ upd'[Len(upd) + 1] = out
  BY <1>1, AppendProperties, LenProperties, CapsAssumption DEF Types
<1>3. Types'
  BY <1>1, <1>2 DEF Types, serverVars, connVars, appVars
<1>4. Phases' /\ CapsAreProbed' /\ NothingOutlives'
  BY <1>1 DEF Phases, CapsAreProbed, Honest, NothingOutlives, serverVars, connVars
<1>5. \A i \in DOMAIN upd' : Truthful(upd'[i])
  <2>1. Len(upd) \in Nat
    BY LenProperties DEF Types
  <2>2. QED
    BY <1>2, <2>1 DEF AllTruthful
<1>6. (\A i \in DOMAIN upd : Truthful(upd[i]))'
  BY <1>5 DEF Truthful, Says, serverVars
<1>7. Truthful(out)'
  BY <1>1, RequestFields DEF Truthful
<1>8. AllTruthful'
  BY <1>1, <1>6, <1>7 DEF AllTruthful, Says, serverVars, connVars, appVars
<1>9. QED
  BY <1>3, <1>4, <1>8

LEMMA EndsKeep ==
  ASSUME Inv, EndWorker \/ (\E t \in Tasks : EndTask(t)),
         UNCHANGED <<serverVars, ui, connVars, appVars>>, worker # "none"
  PROVE  Inv'
<1> USE DEF Inv
<1>1. UNCHANGED <<lost, workVars, req, upd>>
  BY DEF EndWorker, EndTask
<1>2. /\ tasks' \in [Tasks -> {"none", "running", "aborted", "done"}]
      /\ \A t \in Tasks : tasks'[t] = "running" => tasks[t] = "running"
      /\ \/ UNCHANGED worker
         \/ worker = "aborted" /\ worker' = "ended" /\ \A t \in {"read", "info"} : tasks'[t] # "running"
  <2>1. CASE EndWorker
    BY <2>1, AbortIs DEF EndWorker, Tasks
  <2>2. CASE \E t \in Tasks : EndTask(t)
    BY <2>2 DEF EndTask, Types
  <2>3. QED
    BY <2>1, <2>2
<1>3. Types'
  BY <1>1, <1>2 DEF Types, serverVars, connVars, appVars, workVars
<1>4. Phases' /\ CapsAreProbed' /\ NothingOutlives'
  BY <1>1, <1>2 DEF Phases, CapsAreProbed, Honest, NothingOutlives, Tasks, serverVars, connVars, appVars, workVars
<1>5. AllTruthful'
  BY <1>1, <1>2 DEF AllTruthful, Truthful, Says, Tasks, serverVars, connVars, appVars, workVars
<1>6. QED
  BY <1>3, <1>4, <1>5

LEMMA ScanKeeps ==
  ASSUME Inv, Scan, UNCHANGED <<serverVars, ui, connVars, appVars>>, worker # "none"
  PROVE  Inv'
<1>1. working' = None /\ out' = Other /\ Truthful(Other) /\ Other \in Update
  BY UpdateIs, RequestFields DEF Scan, Reply, Truthful
<1>2. QED
  BY <1>1, ReplyKeeps DEF Inv, Types, AllTruthful, Scan

-----------------------------------------------------------------------------
(* The session                                                             *)

\* Every step keeps the invariant.
THEOREM SessionInv == Spec => []Inv
<1>1. Init => Inv
  BY InitInv
<1>2. Inv /\ [Next]_vars => Inv'
  <2> SUFFICES ASSUME Inv, [Next]_vars PROVE Inv'
    OBVIOUS
  <2>1. CASE UNCHANGED vars
    BY <2>1 DEF vars, Inv, Types, Phases, CapsAreProbed, Honest, AllTruthful, Truthful, Says,
      NothingOutlives, serverVars, connVars, appVars, workVars
  <2>2. CASE Backend
    BY <2>2, Frame, TakeKeeps, ScanKeeps, LoadOneKeeps, DetectPageKeeps, DetectSampleKeeps,
      SendKeeps, EndsKeep
  <2>3. QED
    BY <2>1, <2>2, ConnectKeeps, KeyKeeps, ApplyKeeps DEF Next
<1>3. QED
  BY <1>1, <1>2, PTL DEF Spec

\* What a pane says of the server is true of any server.
THEOREM PanesTellTheTruth == Spec => []PaneSaysWhy
<1>1. Inv => PaneSaysWhy
  BY DEF Inv, AllTruthful, Says, PaneSaysWhy
<1>2. QED
  BY <1>1, SessionInv, PTL

\* No task outlives the browser, however and whenever it ends.
THEOREM NoTaskIsLeftBehind == Spec => []NothingOutlives
  BY SessionInv, PTL DEF Inv

\* The channels keep to their sizes and every update is one the App knows.
THEOREM SessionTypes == Spec => []TypeOK
<1>1. Inv => TypeOK
  <2> SUFFICES ASSUME Inv PROVE TypeOK
    OBVIOUS
  <2>1. \A u \in Update : IsUpdate(u)
    <3> TAKE u \in Update
    <3>1. CASE u \in {Other, NothingFound}
      BY <3>1 DEF IsUpdate, Updates
    <3>2. CASE u \in {Loaded(p, s) : p \in AllPanes, s \in Settled}
      BY <3>2 DEF IsUpdate, Updates, Settled, PaneStates
    <3>3. CASE u \in {Found(c, n) : c \in Confidences, n \in SUBSET Nat}
      BY <3>3, RequestFields DEF IsUpdate
    <3>4. QED
      BY <3>1, <3>2, <3>3 DEF Update
  <2>2. \A i \in DOMAIN upd : IsUpdate(upd[i])
    BY <2>1, ElementOfSeq, LenProperties DEF Inv, Types
  <2>3. out # None => working = None /\ IsUpdate(out)
    BY <2>1 DEF Inv, Types
  <2>4. QED
    BY <2>2, <2>3 DEF Inv, Types, TypeOK
<1>2. QED
  BY <1>1, SessionInv, PTL

-----------------------------------------------------------------------------
(* The panes implement LazyPanes                                           *)

Due == {p \in AllPanes : UnderWay(p)}
Queued(s, p) == \E i \in DOMAIN s : s[i] = Load(p)
Answered(s, p) == \E i \in DOMAIN s : Answers(s[i], p)

LEMMA DueIs ==
  \A p : UnderWay(p) <=> working = Load(p) \/ Answers(out, p) \/ Queued(req, p) \/ Answered(upd, p)
  BY DEF UnderWay, Queued, Answered

LEMMA Appending ==
  ASSUME NEW S, NEW s \in Seq(S), NEW e \in S, NEW p
  PROVE  /\ Queued(Append(s, e), p) <=> Queued(s, p) \/ e = Load(p)
         /\ Answered(Append(s, e), p) <=> Answered(s, p) \/ Answers(e, p)
<1> DEFINE t == Append(s, e)
<1>1. /\ Len(s) \in Nat /\ DOMAIN s = 1..Len(s) /\ DOMAIN t = 1..(Len(s) + 1)
      /\ t[Len(s) + 1] = e /\ \A i \in 1..Len(s) : t[i] = s[i]
  BY AppendProperties, LenProperties
<1> HIDE DEF t
<1>2. \A i : i \in DOMAIN t <=> i \in DOMAIN s \/ i = Len(s) + 1
  BY <1>1
<1>3. QED
  BY <1>1, <1>2 DEF Queued, Answered, t

LEMMA Removing ==
  ASSUME NEW S, NEW s \in Seq(S), s # <<>>, NEW p
  PROVE  /\ Queued(s, p) <=> Head(s) = Load(p) \/ Queued(Tail(s), p)
         /\ Answered(s, p) <=> Answers(Head(s), p) \/ Answered(Tail(s), p)
<1> DEFINE h == Head(s)
           t == Tail(s)
<1>1. /\ Len(s) \in Nat /\ Len(s) > 0 /\ DOMAIN s = 1..Len(s) /\ DOMAIN t = 1..(Len(s) - 1)
      /\ h = s[1] /\ \A i \in 1..(Len(s) - 1) : t[i] = s[i + 1]
  BY HeadTailProperties, LenProperties, EmptySeq
<1> HIDE DEF h, t
<1>2. \A i \in DOMAIN s : i = 1 \/ (i - 1 \in DOMAIN t /\ t[i - 1] = s[i])
  BY <1>1
<1>3. 1 \in DOMAIN s /\ \A i \in DOMAIN t : i + 1 \in DOMAIN s /\ s[i + 1] = t[i]
  BY <1>1
<1>4. QED
  BY <1>1, <1>2, <1>3, ZenonT(40) DEF Queued, Answered, h, t

LEMMA NoAnswerYet == \A p : /\ ~Answers(None, p) /\ ~Answers(Other, p)
                            /\ ~Answers(NothingFound, p) /\ None # Load(p)
                            /\ \A c, n : ~Answers(Found(c, n), p)
                            /\ {Rescan, Select, RefreshInfo, Detect} \cap {Load(p)} = {}
  BY RequestFields DEF Answers, NothingFound

LEMMA LoadsApart == \A p, q : /\ Load(p) = Load(q) => p = q
                              /\ \A s : Answers(Loaded(p, s), q) <=> p = q
  BY RequestFields DEF Answers

\* Opening or reloading a tab asks once, or says that it could not.
LEMMA LoadViewAsks ==
  ASSUME Inv, NEW v \in {"keys", "stats"} \cup AllPanes, NEW force \in BOOLEAN,
         LoadView(v, force), UNCHANGED <<working, out, upd>>
  PROVE  [Promise!Next]_<<pane, Due>>
<1> USE DEF Inv
<1>1. ASSUME NEW r \in {Rescan, RefreshInfo}, TrySend(r)
      PROVE  Due' = Due
  <2>1. \A p : Queued(req', p) <=> Queued(req, p)
    <3>1. /\ req \in Seq(Request) /\ r \in Request /\ (req' = req \/ req' = Append(req, r))
          /\ \A p : r # Load(p)
      BY <1>1, NoAnswerYet, RequestIs DEF TrySend, Types
    <3>2. \A p : Queued(Append(req, r), p) <=> Queued(req, p)
      BY <3>1, Appending
    <3>3. QED
      BY <3>1, <3>2
  <2>2. QED
    BY <2>1, DueIs DEF Due, UnderWay, Queued
<1>2. CASE v \in {"keys", "stats"}
  <2>1. UNCHANGED pane /\ (UNCHANGED req \/ TrySend(Rescan) \/ TrySend(RefreshInfo))
    BY <1>2 DEF LoadView
  <2>2. CASE UNCHANGED req
    BY <2>1, <2>2 DEF Due, UnderWay
  <2>3. QED
    BY <1>1, <2>1, <2>2
<1>3. CASE v \notin {"keys", "stats"}
  <2>1. v \in AllPanes /\ (LoadPane(v) \/ UNCHANGED <<req, pane>>)
    BY <1>3 DEF LoadView
  <2>2. CASE UNCHANGED <<req, pane>>
    BY <2>2 DEF Due, UnderWay
  <2>3. CASE LoadPane(v) /\ Room
    <3>1. \A p : Queued(req', p) <=> Queued(req, p) \/ Load(v) = Load(p)
      BY <2>1, <2>3, Appending, RequestIs DEF LoadPane, TrySend, Types
    <3>2. Due' = Due \cup {v}
      BY <2>1, <3>1, DueIs, LoadsApart DEF Due, UnderWay, Queued
    <3>3. pane' = [pane EXCEPT ![v] = "loading"]
      BY <2>3 DEF LoadPane
    <3>4. QED
      BY <2>1, <3>2, <3>3 DEF Promise!Next, Promise!Ask, Promise!Shows, Due
  <2>4. CASE LoadPane(v) /\ ~Room
    <3>1. UNCHANGED req /\ pane' = [pane EXCEPT ![v] = "failed"]
      BY <2>4 DEF LoadPane, TrySend
    <3>2. Due' = Due
      BY <3>1 DEF Due, UnderWay
    <3>3. QED
      BY <2>1, <3>1, <3>2 DEF Promise!Next, Promise!Refuse, Promise!Shows, Due
  <2>5. QED
    BY <2>1, <2>2, <2>3, <2>4
<1>4. QED
  BY <1>2, <1>3

LEMMA KeyRefines ==
  ASSUME Inv, Key
  PROVE  [Promise!Next]_<<pane, Due>>
<1> USE DEF Inv
<1>1. UNCHANGED <<working, out, upd>>
  BY DEF Key, workVars
<1>2. CASE Goto
  <2>1. PICK v \in Tabs : LoadView(v, FALSE)
    BY <1>2 DEF Goto
  <2>2. v \in {"keys", "stats"} \cup AllPanes
    BY DEF Tabs, AllPanes
  <2>3. QED
    BY <1>1, <2>1, <2>2, LoadViewAsks
<1>3. CASE Reload
  <2>1. LoadView(view, TRUE) /\ view \in {"keys", "stats"} \cup AllPanes
    BY <1>3 DEF Reload, Types
  <2>2. QED
    BY <1>1, <2>1, LoadViewAsks
<1>4. CASE Fetch
  <2>1. PICK r \in {Select, RefreshInfo} : TrySend(r)
    BY <1>4 DEF Fetch
  <2>2. /\ req \in Seq(Request) /\ r \in Request /\ (req' = req \/ req' = Append(req, r))
        /\ \A p : r # Load(p)
    BY <2>1, NoAnswerYet, RequestIs DEF TrySend, Types
  <2>3. \A p : Queued(req', p) <=> Queued(req, p)
    <3>1. \A p : Queued(Append(req, r), p) <=> Queued(req, p)
      BY <2>2, Appending
    <3>2. QED
      BY <2>2, <3>1
  <2>4. Due' = Due /\ UNCHANGED pane
    BY <1>1, <1>4, <2>3, DueIs DEF Due, UnderWay, Queued, Fetch
  <2>5. QED
    BY <2>4
<1>5. CASE Quit
  BY <1>1, <1>5 DEF Quit, Due, UnderWay
<1>6. QED
  BY <1>2, <1>3, <1>4, <1>5 DEF Key

\* An update either settles one pane an answer was due to, or none.
LEMMA ApplyRefines ==
  ASSUME Inv, Apply
  PROVE  [Promise!Next]_<<pane, Due>>
<1> USE DEF Inv
<1> DEFINE u == Head(upd)
<1>1. /\ upd \in Seq(Update) /\ upd # <<>> /\ upd' = Tail(upd) /\ u \in Update
      /\ UNCHANGED <<working, out, req>>
  BY HeadTailProperties DEF Apply, Types, workVars
<1>2. \A p : Answered(upd, p) <=> Answers(u, p) \/ Answered(upd', p)
  BY <1>1, Removing
<1>3. pane' = IF u.type = "Loaded" THEN [pane EXCEPT ![u.pane] = u.state] ELSE pane
  BY DEF Apply
<1>4. CASE u.type = "Loaded"
  <2>1. u.pane \in AllPanes /\ u.state \in Settled /\ \A q : Answers(u, q) <=> u.pane = q
    BY <1>1, <1>4, UpdateIs DEF Answers
  <2>2. u.pane \in Due
    BY <1>2, <2>1, DueIs DEF Due
  <2>3. \A q : q # u.pane => (UnderWay(q)' <=> UnderWay(q))
    BY <1>1, <1>2, <2>1, DueIs DEF UnderWay, Answered
  <2>4. Due' \in {Due, Due \ {u.pane}}
    BY <2>2, <2>3 DEF Due
  <2>5. Promise!Answer(u.pane)
    BY <1>3, <1>4, <2>1, <2>2, <2>4 DEF Promise!Answer, Promise!Shows, Promise!Settled, Settled, Due
  <2>6. QED
    BY <2>1, <2>5 DEF Promise!Next
<1>5. CASE u.type # "Loaded"
  <2>1. \A q : ~Answers(u, q)
    BY <1>5 DEF Answers
  <2>2. Due' = Due
    BY <1>1, <1>2, <2>1, DueIs DEF Due, UnderWay, Answered
  <2>3. QED
    BY <1>3, <1>5, <2>2
<1>6. QED
  BY <1>4, <1>5

\* What the worker does with a load changes where it is, not that it is under way.
LEMMA BackendRefines ==
  ASSUME Inv, Backend
  PROVE  UNCHANGED <<pane, Due>>
<1> USE DEF Inv
<1>1. UNCHANGED pane /\ out \in Update \cup {None} /\ (out # None => working = None)
  BY DEF Backend, appVars, Types
<1> SUFFICES \A p : UnderWay(p)' <=> UnderWay(p)
  BY <1>1 DEF Due
<1> TAKE p
<1>2. /\ UnderWay(p) <=> working = Load(p) \/ Answers(out, p) \/ Queued(req, p) \/ Answered(upd, p)
      /\ UnderWay(p)' <=> working' = Load(p) \/ Answers(out', p) \/ Queued(req', p) \/ Answered(upd', p)
  BY DueIs DEF UnderWay, Queued, Answered, Answers
<1>3. CASE Take
  <2>1. /\ req \in Seq(Request) /\ req # <<>> /\ req' = Tail(req) /\ working = None
        /\ UNCHANGED <<out, upd>>
        /\ working' = IF Head(req) \in {Select, RefreshInfo} THEN working ELSE Head(req)
    BY <1>3 DEF Take, Free, Types
  <2>2. Queued(req, p) <=> Head(req) = Load(p) \/ Queued(req', p)
    BY <2>1, Removing
  <2>3. QED
    BY <1>2, <2>1, <2>2, NoAnswerYet
<1>4. CASE SendUpdate
  <2>1. /\ upd \in Seq(Update) /\ out \in Update /\ upd' = Append(upd, out) /\ out' = None
        /\ UNCHANGED <<working, req>>
    BY <1>4 DEF SendUpdate, Types
  <2>2. Answered(upd', p) <=> Answered(upd, p) \/ Answers(out, p)
    BY <2>1, Appending
  <2>3. QED
    BY <1>2, <2>1, <2>2, NoAnswerYet
<1>5. ASSUME UNCHANGED <<req, upd>>,
             \/ UNCHANGED <<working, out>>
             \/ /\ working # None /\ working' = None
                /\ working = Load(p) <=> Answers(out', p)
      PROVE  UnderWay(p)' <=> UnderWay(p)
  BY <1>1, <1>2, <1>5, NoAnswerYet
<1>6. CASE Scan
  BY <1>5, <1>6, NoAnswerYet, RequestFields DEF Scan, Reply
<1>7. CASE LoadOne
  <2>1. PICK q \in AllPanes : working = Load(q)
    BY <1>7 DEF LoadOne
  <2>2. working' = None /\ \E s : out' = Loaded(q, s)
    BY <1>7, <2>1, RequestFields DEF LoadOne, AskServer, Reply
  <2>3. UNCHANGED <<req, upd>> /\ working # None
    BY <1>7, <2>1, RequestFields DEF LoadOne
  <2>4. QED
    BY <1>5, <2>1, <2>2, <2>3, LoadsApart
<1>8. CASE DetectPage
  <2>1. /\ working = Detect /\ UNCHANGED <<req, upd>>
        /\ UNCHANGED <<working, out>> \/ (working' = None /\ out' = NothingFound)
    BY <1>8 DEF DetectPage, DetectFails, Reply
  <2>2. QED
    BY <1>5, <2>1, NoAnswerYet, RequestFields
<1>9. CASE DetectSample
  <2>1. /\ working = Detect /\ UNCHANGED <<req, upd>>
        /\ \/ UNCHANGED <<working, out>>
           \/ working' = None /\ (out' = NothingFound \/ \E c, n : out' = Found(c, n))
    BY <1>9 DEF DetectSample, NoVersionLeft, DetectFails, Reply
  <2>2. QED
    BY <1>5, <2>1, NoAnswerYet, RequestFields
<1>10. CASE EndWorker \/ \E t \in Tasks : EndTask(t)
  BY <1>5, <1>10 DEF EndWorker, EndTask, workVars
<1>11. QED
  BY <1>3, <1>4, <1>6, <1>7, <1>8, <1>9, <1>10 DEF Backend

LEMMA ConnectRefines ==
  ASSUME Inv, Connect
  PROVE  UNCHANGED <<pane, Due>>
<1>1. UNCHANGED <<pane, working, out, upd>>
  BY DEF Connect, appVars, workVars
<1>2. UNCHANGED req \/ (req = <<>> /\ req' = <<Detect, Rescan>>)
  BY DEF Connect, ClientInit, Ping, Info, Probe, Deadline, Cancel, Inv, Phases
<1>3. \A p : Queued(req', p) <=> Queued(req, p)
  <2>1. ASSUME NEW p PROVE ~Queued(<<>>, p) /\ ~Queued(<<Detect, Rescan>>, p)
    <3> DEFINE t == <<Detect, Rescan>>
    <3>1. DOMAIN t = {1, 2} /\ t[1] = Detect /\ t[2] = Rescan
      OBVIOUS
    <3>2. Detect # Load(p) /\ Rescan # Load(p)
      BY NoAnswerYet
    <3> HIDE DEF t
    <3>3. ~Queued(t, p)
      BY <3>1, <3>2 DEF Queued
    <3>4. ~Queued(<<>>, p)
      BY DEF Queued
    <3>5. QED
      BY <3>3, <3>4 DEF t
  <2>2. QED
    BY <1>2, <2>1
<1>4. QED
  BY <1>1, <1>3, DueIs DEF Due, UnderWay, Queued

\* The panes keep what LazyPanes promises, for any panes and channel sizes.
THEOREM PanesAreLazy == Spec => PanesKeepTheirPromise
<1>1. Init => Promise!Init
  BY RequestFields DEF Init, Promise!Init, UnderWay, Answers
<1>2. Inv /\ [Next]_vars => [Promise!Next]_<<pane, Due>>
  <2>1. CASE UNCHANGED vars
    BY <2>1 DEF vars, appVars, workVars, Due, UnderWay
  <2>2. QED
    BY <2>1, KeyRefines, ApplyRefines, BackendRefines, ConnectRefines DEF Next
<1>3. Inv /\ [Next]_vars => [Promise!Next]_(Promise!paneVars)
  BY <1>2 DEF Promise!paneVars, Due
<1>4. QED
  BY <1>1, <1>3, SessionInv, PTL DEF Spec, PanesKeepTheirPromise, Promise!Spec

\* So a pane that says loading has its load on the way.
THEOREM LoadingIsUnderWay == Spec => []Promise!LoadingIsDue
<1>1. Init => Promise!LoadingIsDue
  BY DEF Init, Promise!LoadingIsDue
<1>2. Inv /\ Promise!LoadingIsDue /\ [Next]_vars => Promise!LoadingIsDue'
  <2> SUFFICES ASSUME Inv, Promise!LoadingIsDue, [Next]_vars,
                      NEW p \in AllPanes, pane'[p] = "loading"
               PROVE  p \in Due'
    BY DEF Promise!LoadingIsDue, Due
  <2>1. pane[p] = "loading" => p \in Due
    BY DEF Promise!LoadingIsDue, Due
  <2>2. pane \in [AllPanes -> PaneStates]
    BY DEF Inv, Types
  <2>3. [Promise!Next]_<<pane, Due>>
    <3>1. CASE UNCHANGED vars
      BY <3>1 DEF vars, appVars, workVars, Due, UnderWay
    <3>2. QED
      BY <3>1, KeyRefines, ApplyRefines, BackendRefines, ConnectRefines DEF Next
  <2>4. CASE UNCHANGED <<pane, Due>>
    BY <2>1, <2>4
  <2>5. ASSUME NEW q \in AllPanes, Promise!Ask(q) \/ Promise!Refuse(q) \/ Promise!Answer(q)
        PROVE  p \in Due'
    <3>1. CASE Promise!Ask(q)
      BY <2>1, <2>2, <3>1 DEF Promise!Ask, Promise!Shows, Due
    <3>2. CASE Promise!Refuse(q)
      BY <2>1, <2>2, <3>2 DEF Promise!Refuse, Promise!Shows, Due
    <3>3. CASE Promise!Answer(q)
      <4>1. p # q /\ pane'[p] = pane[p]
        BY <2>2, <3>3 DEF Promise!Answer, Promise!Shows, Promise!Settled
      <4>2. QED
        BY <2>1, <3>3, <4>1 DEF Promise!Answer, Due
    <3>4. QED
      BY <2>5, <3>1, <3>2, <3>3
  <2>6. QED
    BY <2>3, <2>4, <2>5 DEF Promise!Next
<1>3. QED
  BY <1>1, <1>2, SessionInv, PTL DEF Spec

-----------------------------------------------------------------------------
(* The sample                                                              *)

LEMMA SmallestFew ==
  ASSUME NEW S \in SUBSET Nat, IsFiniteSet(S), NEW n \in Nat \ {0}
  PROVE  /\ Smallest(S, n) \in SUBSET S /\ IsFiniteSet(Smallest(S, n))
         /\ Cardinality(Smallest(S, n)) <= n
         /\ Smallest(S, n) = {} => S = {}
<1> DEFINE T == Smallest(S, n)
           g == [x \in T |-> Rank(S)[x]]
<1>1. T \in SUBSET S /\ T = {x \in S : Cardinality(Below(S, x)) < n}
  BY DEF Smallest, Below
<1>2. IsFiniteSet(T)
  BY <1>1, FS_Subset
<1>3. \A x \in T : Rank(S)[x] \in Nat /\ Rank(S)[x] < n
  <2>1. \A x \in S : Rank(S)[x] \in 0..(Cardinality(S) - 1)
    BY RanksAreDense DEF Injection
  <2>2. \A x \in S : Rank(S)[x] = Cardinality(Below(S, x))
    BY DEF Rank
  <2>3. Cardinality(S) \in Nat
    BY RanksAreDense
  <2>4. \A x \in S : Rank(S)[x] \in Nat
    BY <2>1, <2>3
  <2>5. QED
    BY <1>1, <2>2, <2>4
<1>4. g \in [T -> 0..(n - 1)]
  BY <1>3
<1>5. \A x, y \in T : g[x] = g[y] => x = y
  BY <1>1, RanksAreDense DEF Injection, IsInjective
<1>6. g \in Injection(T, 0..(n - 1))
  BY <1>4, <1>5 DEF Injection, IsInjective
<1>7. IsFiniteSet(0..(n - 1)) /\ Cardinality(0..(n - 1)) = n
  BY FS_Interval
<1>8. Cardinality(T) <= n
  BY <1>6, <1>7, FS_Injection
<1>9. T = {} => S = {}
  <2>1. SUFFICES ASSUME S # {} PROVE T # {}
    OBVIOUS
  <2>2. 0 < Cardinality(S)
    BY <2>1, FS_EmptySet, RanksAreDense
  <2>3. PICK x \in S : Cardinality(Below(S, x)) = 0
    BY <2>2, RankTaken
  <2>4. QED
    BY <1>1, <2>3
<1>10. QED
  BY <1>1, <1>2, <1>8, <1>9

-----------------------------------------------------------------------------
(* Detection                                                               *)

OneForm ==
  \A p, q \in DOMAIN keyspace : \A k \in keyspace[p], l \in keyspace[q] :
    k.name = l.name => k = l

\* Detection runs once: no verdict is out while it is still queued or served.
Once ==
  /\ worker = "none" => walk = NoWalk /\ detected = NothingFound
  /\ \A i \in DOMAIN req : req[i] = Detect => i = 1 /\ Verdicts = {} /\ working # Detect
  /\ working = Detect => Verdicts = {}

\* The walk has the names of the pages it read, but for keys that SCAN leaves out.
WalkFits ==
  /\ IsFiniteSet(walk.names)
  /\ walk.names = {k.name : k \in MetaKeys(InReach)}

Right(u) ==
  /\ u.names \subseteq {k.name : k \in InReach} /\ Cardinality(u.names) <= MaxQueues
  /\ u.confidence = "Certain" => \E k \in InReach : k.name \in u.names /\ k.form = "bullmq"
  /\ u = NothingFound =>
       \/ broken
       \/ \A k \in InReach : k.form = "foreign"
       \/ caps["typeFilter"] # "Available" /\ \E k \in InReach : k.form = "foreign"

DetectInv == OneForm /\ Once /\ WalkFits /\ \A u \in Verdicts : Right(u)

LEMMA ReachFits ==
  ASSUME Types
  PROVE  /\ InReach \subseteq MetaKey
         /\ \A k \in InReach : \E i \in DOMAIN keyspace : k \in keyspace[i]
<1>1. /\ walk.page \in Nat /\ walk.page <= Len(keyspace)
      /\ DOMAIN keyspace = 1..Len(keyspace) /\ Len(keyspace) \in Nat
      /\ \A i \in 1..Len(keyspace) : keyspace[i] \in SUBSET MetaKey
  BY LenProperties, ElementOfSeq DEF Types, WalkState
<1>2. \A i \in 1..walk.page : i \in DOMAIN keyspace /\ keyspace[i] \subseteq MetaKey
  BY <1>1
<1>3. QED
  BY <1>2 DEF InReach

\* A step that neither asks for detection nor finds anything.
LEMMA StillRight ==
  ASSUME DetectInv, UNCHANGED <<serverVars, caps, walk>>, broken => broken',
         Verdicts' \subseteq Verdicts, working' = Detect => working = Detect,
         \A i \in DOMAIN req' : req'[i] = Detect => i \in DOMAIN req /\ req[i] = Detect,
         worker' = "none" => worker = "none" /\ UNCHANGED detected
  PROVE  DetectInv'
<1>1. InReach' = InReach
  BY DEF InReach, serverVars
<1>2. OneForm' /\ WalkFits'
  BY <1>1 DEF DetectInv, OneForm, WalkFits, MetaKeys, serverVars
<1>3. Once'
  BY DEF DetectInv, Once
<1>4. \A u : Right(u) => Right(u)'
  BY <1>1 DEF Right
<1>5. (\A u \in Verdicts : Right(u))'
  BY <1>4 DEF DetectInv
<1>6. QED
  BY <1>2, <1>3, <1>5 DEF DetectInv

LEMMA SendingAsks ==
  ASSUME req \in Seq(Request), NEW r \in Request, r # Detect, TrySend(r)
  PROVE  \A i \in DOMAIN req' : req'[i] = Detect => i \in DOMAIN req /\ req[i] = Detect
<1>1. CASE req' = req
  BY <1>1
<1>2. CASE req' = Append(req, r)
  <2>1. /\ DOMAIN req' = 1..(Len(req) + 1) /\ DOMAIN req = 1..Len(req) /\ Len(req) \in Nat
        /\ \A i \in 1..Len(req) : req'[i] = req[i]
        /\ req'[Len(req) + 1] = r
    BY <1>2, AppendProperties, LenProperties
  <2>2. QED
    BY <2>1
<1>3. QED
  BY <1>1, <1>2 DEF TrySend

LEMMA InitRight == Init => DetectInv
<1> SUFFICES ASSUME Init PROVE DetectInv
  OBVIOUS
<1>1. PICK i \in Instances : server = i.server /\ keyspace = i.keyspace
  BY DEF Init
<1>2. OneForm
  <2>1. Instance(i)
    BY <1>1, InstancesAssumption, Zenon
  <2>2. QED
    BY <2>1, <1>1 DEF Instance, OneForm
<1>3. Verdicts = {}
  BY RequestFields DEF Init, Verdicts
<1>4. Once
  BY <1>3 DEF Once, Init
<1>5. walk.page = 0 /\ walk.names = {}
  BY DEF Init, NoWalk
<1>6. InReach = {}
  BY <1>5 DEF InReach
<1>7. WalkFits
  BY <1>5, <1>6, FS_EmptySet DEF WalkFits, MetaKeys
<1>8. QED
  BY <1>2, <1>3, <1>4, <1>7 DEF DetectInv

LEMMA ConnectRight ==
  ASSUME Inv, DetectInv, Connect
  PROVE  DetectInv'
<1>1. /\ worker = "none" /\ UNCHANGED <<serverVars, appVars, upd, workVars>>
      /\ \/ UNCHANGED <<req, worker>>
         \/ req' = <<Detect, Rescan>> /\ worker' = "running"
  BY DEF Connect, ClientInit, Ping, Info, Probe, Deadline, Cancel, Inv, Phases
<1>2. /\ upd = <<>> /\ out = None /\ working = None /\ req = <<>>
      /\ walk = NoWalk /\ detected = NothingFound
  BY <1>1 DEF Inv, Phases, DetectInv, Once
<1>3. Verdicts' = {}
  BY <1>1, <1>2, RequestFields DEF Verdicts, workVars, appVars
<1>4. \A i \in DOMAIN req' : req'[i] = Detect => i = 1
  BY <1>1, <1>2, RequestFields
<1>5. walk'.page = 0 /\ walk'.names = {} /\ walk' = NoWalk /\ working' = None
  BY <1>1, <1>2 DEF NoWalk, workVars
<1>6. Once'
  BY <1>1, <1>2, <1>3, <1>4, <1>5, RequestFields DEF Once, appVars
<1>7. InReach' = {}
  BY <1>5 DEF InReach
<1>8. WalkFits'
  BY <1>5, <1>7, FS_EmptySet DEF WalkFits, MetaKeys
<1>9. QED
  BY <1>1, <1>3, <1>6, <1>8 DEF DetectInv, OneForm, serverVars

LEMMA KeyRight ==
  ASSUME Inv, DetectInv, Key
  PROVE  DetectInv'
<1>1. /\ UNCHANGED <<serverVars, connVars, detected, upd, workVars>> /\ worker = "running"
      /\ worker' # "none"
  BY DEF Key, Goto, Reload, Fetch, Quit, Inv, Phases, Running
<1>2. Verdicts' = Verdicts
  BY <1>1 DEF Verdicts, workVars
<1>3. \/ UNCHANGED req
      \/ \E r \in Request \ {Detect} : TrySend(r)
  <2>1. ASSUME NEW v \in {"keys", "stats"} \cup AllPanes, NEW force, LoadView(v, force)
        PROVE  UNCHANGED req \/ \E r \in Request \ {Detect} : TrySend(r)
    BY <2>1, RequestIs, RequestFields DEF LoadView, LoadPane
  <2>2. \A v \in Tabs : v \in {"keys", "stats"} \cup AllPanes
    BY DEF Tabs, AllPanes
  <2>3. view \in {"keys", "stats"} \cup AllPanes
    BY DEF Inv, Types
  <2>4. QED
    BY <2>1, <2>2, <2>3, RequestIs, RequestFields DEF Key, Goto, Reload, Fetch, Quit
<1>4. \A i \in DOMAIN req' : req'[i] = Detect => i \in DOMAIN req /\ req[i] = Detect
  <2>1. req \in Seq(Request)
    BY DEF Inv, Types
  <2>2. QED
    BY <1>3, <2>1, SendingAsks
<1>5. QED
  BY <1>1, <1>2, <1>4, StillRight DEF connVars, workVars

LEMMA ApplyRight ==
  ASSUME Inv, DetectInv, Apply
  PROVE  DetectInv'
<1>1. /\ UNCHANGED <<serverVars, connVars, req, workVars, worker>> /\ worker = "running"
      /\ upd # <<>> /\ upd' = Tail(upd)
      /\ detected' = IF Head(upd).type = "Detected" THEN Head(upd) ELSE detected
  BY DEF Apply, Inv, Phases, Running
<1>2. /\ Head(upd) = upd[1] /\ 1 \in DOMAIN upd
      /\ \A i \in DOMAIN upd' : i + 1 \in DOMAIN upd /\ upd'[i] = upd[i + 1]
  <2>1. upd \in Seq(Update)
    BY DEF Inv, Types
  <2>2. /\ Head(upd) = upd[1] /\ Len(upd') = Len(upd) - 1 /\ upd' \in Seq(Update)
        /\ \A i \in 1..Len(upd') : upd'[i] = upd[i + 1]
    BY <1>1, <2>1, HeadTailProperties
  <2>3. Len(upd) \in Nat /\ Len(upd) # 0 /\ DOMAIN upd = 1..Len(upd) /\ DOMAIN upd' = 1..Len(upd')
    BY <1>1, <2>1, <2>2, LenProperties, EmptySeq
  <2>4. QED
    BY <2>2, <2>3
<1>3. out' = out
  BY <1>1 DEF workVars
<1>4. Verdicts' \subseteq Verdicts
  BY <1>1, <1>2, <1>3 DEF Verdicts
<1>5. QED
  BY <1>1, <1>4, StillRight DEF connVars, workVars

LEMMA TakeRight ==
  ASSUME Inv, DetectInv, Take, UNCHANGED <<serverVars, ui, connVars, appVars>>
  PROVE  DetectInv'
<1>1. /\ out = None /\ working = None /\ req # <<>> /\ req' = Tail(req)
      /\ UNCHANGED <<out, broken, upd, worker>> /\ worker # "none"
      /\ working' \in {working, Head(req)}
      /\ walk' = IF Head(req) = Detect THEN NoWalk ELSE walk
      /\ UNCHANGED <<caps, detected>>
  BY DEF Take, Free, Alive, connVars, appVars
<1>2. /\ 1 \in DOMAIN req /\ Head(req) = req[1]
      /\ \A i \in DOMAIN req' : i \in Nat \ {0} /\ i + 1 \in DOMAIN req /\ req'[i] = req[i + 1]
  <2>1. req \in Seq(Request)
    BY DEF Inv, Types
  <2>2. /\ Head(req) = req[1] /\ Len(req') = Len(req) - 1 /\ req' \in Seq(Request)
        /\ \A i \in 1..Len(req') : req'[i] = req[i + 1]
    BY <1>1, <2>1, HeadTailProperties
  <2>3. Len(req) \in Nat /\ Len(req) # 0 /\ DOMAIN req = 1..Len(req) /\ DOMAIN req' = 1..Len(req')
    BY <1>1, <2>1, <2>2, LenProperties, EmptySeq
  <2>4. QED
    BY <2>2, <2>3
<1>3. \A i \in DOMAIN req' : req'[i] # Detect
  <2>1. ASSUME NEW i \in DOMAIN req', req'[i] = Detect
        PROVE  FALSE
    <3>1. i + 1 = 1
      BY <1>2, <2>1 DEF DetectInv, Once
    <3>2. QED
      BY <1>2, <3>1
  <2>2. QED
    BY <2>1
<1>4. Verdicts' = Verdicts
  BY <1>1 DEF Verdicts
<1>5. CASE Head(req) # Detect
  <2>1. working' = Detect => working = Detect
    BY <1>1, <1>5
  <2>2. QED
    BY <1>1, <1>3, <1>4, <1>5, <2>1, StillRight
<1>6. CASE Head(req) = Detect
  <2>1. Verdicts' = {}
    BY <1>2, <1>4, <1>6 DEF DetectInv, Once
  <2>2. walk'.page = 0 /\ walk'.names = {}
    BY <1>1, <1>6 DEF NoWalk
  <2>3. InReach' = {}
    BY <2>2 DEF InReach
  <2>4. WalkFits'
    BY <2>2, <2>3, FS_EmptySet DEF WalkFits, MetaKeys
  <2>5. Once'
    BY <1>1, <1>3, <2>1 DEF Once
  <2>6. QED
    BY <2>1, <2>4, <2>5 DEF DetectInv, OneForm, serverVars
<1>7. QED
  BY <1>5, <1>6

\* The reply of the request served: of detection it is the only verdict.
LEMMA ReplyRight ==
  ASSUME DetectInv, UNCHANGED <<serverVars, connVars, appVars, walk, req, upd, worker>>,
         worker # "none", broken => broken', working' = None,
         \/ out'.type # "Detected"
         \/ working = Detect /\ Right(out)'
  PROVE  DetectInv'
<1>1. Verdicts' \subseteq Verdicts \cup {u \in {out'} : u.type = "Detected"}
  BY DEF Verdicts, appVars
<1>2. CASE out'.type # "Detected"
  <2>1. Verdicts' \subseteq Verdicts
    BY <1>1, <1>2
  <2>2. QED
    BY <2>1, StillRight, RequestFields DEF connVars
<1>3. CASE working = Detect /\ Right(out)'
  <2>1. Verdicts' \subseteq {out'} /\ \A i \in DOMAIN req : req[i] # Detect
    BY <1>1, <1>3 DEF DetectInv, Once
  <2>2. keyspace' = keyspace /\ caps' = caps /\ InReach' = InReach
    BY DEF InReach, serverVars, connVars
  <2>3. OneForm' /\ WalkFits'
    <3>1. OneForm /\ WalkFits
      BY DEF DetectInv
    <3>2. QED
      BY <2>2, <3>1 DEF OneForm, WalkFits, MetaKeys
  <2>4. Once'
    BY <2>1, RequestFields DEF Once
  <2>5. (\A u \in Verdicts : Right(u))'
    BY <1>3, <2>1
  <2>6. QED
    BY <2>3, <2>4, <2>5 DEF DetectInv
<1>4. QED
  BY <1>2, <1>3

\* What the walk knows of the names it would report.
LEMMA NamesFit ==
  ASSUME Inv, DetectInv
  PROVE  /\ Names \in SUBSET walk.names /\ Names \in SUBSET Nat /\ IsFiniteSet(Names)
         /\ Cardinality(Names) \in Nat /\ Cardinality(Names) <= MaxQueues
         /\ Names = {} => walk.names = {}
         /\ Names \subseteq {k.name : k \in InReach}
<1>1. walk.names \in SUBSET Nat /\ IsFiniteSet(walk.names)
  BY DEF Inv, Types, WalkState, DetectInv, WalkFits
<1>2. MaxQueues \in Nat \ {0}
  BY CapsAssumption
<1>3. /\ Names \in SUBSET walk.names /\ IsFiniteSet(Names)
      /\ Cardinality(Names) <= MaxQueues
      /\ Names = {} => walk.names = {}
  BY <1>1, <1>2, SmallestFew DEF Names
<1>4. walk.names \subseteq {k.name : k \in InReach}
  BY DEF DetectInv, WalkFits, MetaKeys
<1>5. QED
  BY <1>1, <1>3, <1>4, FS_CardinalityType

\* The name sampled is one of them, and its form that of a key in reach.
LEMMA SampleFits ==
  ASSUME Inv, DetectInv, walk.sampled < Cardinality(Names)
  PROVE  /\ Sample \in Names
         /\ \E k \in MetaKeys(InReach) : k.name = Sample /\ k.form = FormOf(Sample)
<1>1. Sample \in Names
  <2>1. walk.sampled \in Nat
    BY DEF Inv, Types, WalkState
  <2>2. \E n \in Names : Cardinality(Below(Names, n)) = walk.sampled
    BY <2>1, NamesFit, RankTaken
  <2>3. QED
    BY <2>2 DEF Sample, Below
<1>2. PICK k \in MetaKeys(InReach) : k.name = Sample
  BY <1>1, NamesFit DEF DetectInv, WalkFits
<1>3. k \in InReach
  BY DEF MetaKeys
<1>4. PICK i \in DOMAIN keyspace : k \in keyspace[i]
  BY <1>3, ReachFits DEF Inv
<1>5. k = [name |-> Sample, form |-> k.form] /\ k.form \in MetaForms
  BY <1>2, <1>3, ReachFits DEF Inv, MetaKey
<1>6. /\ FormOf(Sample) \in MetaForms
      /\ \E j \in DOMAIN keyspace : [name |-> Sample, form |-> FormOf(Sample)] \in keyspace[j]
  BY <1>4, <1>5 DEF FormOf
<1>7. PICK j \in DOMAIN keyspace : [name |-> Sample, form |-> FormOf(Sample)] \in keyspace[j]
  BY <1>6
<1>8. k = [name |-> Sample, form |-> FormOf(Sample)]
  BY <1>2, <1>4, <1>7 DEF DetectInv, OneForm
<1>9. k.form = FormOf(Sample)
  BY <1>8
<1>10. QED
  BY <1>1, <1>2, <1>9

LEMMA FoundIs ==
  /\ \A c, n : Found(c, n).names = n /\ Found(c, n).confidence = c
  /\ NothingFound.names = {} /\ NothingFound.confidence = "nothing"
  /\ \A c \in Confidences : \A n : Found(c, n) # NothingFound
<1>1. \A c, n : Found(c, n).names = n /\ Found(c, n).confidence = c
  BY DEF Found
<1>2. NothingFound.names = {} /\ NothingFound.confidence = "nothing"
  BY <1>1 DEF NothingFound
<1>3. QED
  BY <1>1, <1>2 DEF Confidences

\* Nothing found, for one of the reasons there are.
LEMMA NothingIsRight ==
  ASSUME UNCHANGED <<serverVars, caps, walk>>, out' = NothingFound,
         \/ broken'
         \/ \A k \in InReach : k.form = "foreign"
         \/ caps["typeFilter"] # "Available" /\ \E k \in InReach : k.form = "foreign"
  PROVE  Right(out)'
<1>1. InReach' = InReach
  BY DEF InReach, serverVars
<1>2. out'.names = {} /\ out'.confidence # "Certain"
  BY FoundIs
<1>3. Cardinality(out'.names) <= MaxQueues
  BY <1>2, FS_EmptySet, CapsAssumption
<1>4. QED
  BY <1>1, <1>2, <1>3 DEF Right

LEMMA SomeIsRight ==
  ASSUME Inv, DetectInv, UNCHANGED <<serverVars, walk>>, NEW c \in Confidences,
         out' = Found(c, Names),
         c = "Certain" => \E k \in InReach : k.name \in Names /\ k.form = "bullmq"
  PROVE  Right(out)'
<1>1. InReach' = InReach
  BY DEF InReach, serverVars
<1>2. out'.names = Names /\ out'.confidence = c /\ out' # NothingFound
  BY FoundIs
<1>3. QED
  BY <1>1, <1>2, NamesFit DEF Right

LEMMA DetectPageRight ==
  ASSUME Inv, DetectInv, DetectPage, UNCHANGED <<serverVars, connVars, appVars>>, worker # "none"
  PROVE  DetectInv'
<1> DEFINE keys == MetaKeys(keyspace[walk.page + 1])
<1>1. working = Detect /\ UNCHANGED <<req, upd, worker>> /\ UNCHANGED caps
  BY DEF DetectPage, connVars
<1>2. CASE /\ walk' = [page |-> walk.page + 1, count |-> walk.count + Cardinality(keys),
                       names |-> walk.names \cup {k.name : k \in keys}, sampled |-> 0]
           /\ UNCHANGED <<lost, working, out, broken>>
  <2>1. walk.page \in Nat /\ walk.page + 1 \in DOMAIN keyspace
    <3>1. walk.page \in Nat /\ walk.page <= Len(keyspace)
      BY DEF Inv, Types, WalkState
    <3>2. walk.page # Len(keyspace) /\ Len(keyspace) \in Nat /\ DOMAIN keyspace = 1..Len(keyspace)
      BY LenProperties DEF DetectPage, Scanned, Inv, Types
    <3>3. QED
      BY <3>1, <3>2
  <2>2. InReach' = InReach \cup keyspace[walk.page + 1]
    <3>1. walk'.page = walk.page + 1 /\ keyspace' = keyspace
      BY <1>2 DEF serverVars
    <3>2. 1..(walk.page + 1) = (1..walk.page) \cup {walk.page + 1}
      BY <2>1
    <3>3. QED
      BY <3>1, <3>2 DEF InReach
  <2>3. walk'.names = walk.names \cup {k.name : k \in keys}
    BY <1>2
  <2>4. walk'.names = {k.name : k \in MetaKeys(InReach)'}
    <3>1. MetaKeys(InReach)' = MetaKeys(InReach) \cup keys
      BY <1>1, <2>2 DEF MetaKeys
    <3>2. QED
      BY <2>3, <3>1 DEF DetectInv, WalkFits
  <2>5. IsFiniteSet(walk'.names)
    <3>1. IsFiniteSet(keys)
      <4>1. IsFiniteSet(keyspace[walk.page + 1])
        BY <2>1 DEF Inv, Types
      <4>2. keys \in SUBSET keyspace[walk.page + 1]
        BY DEF MetaKeys
      <4>3. QED
        BY <4>1, <4>2, FS_Subset
    <3>2. [k \in keys |-> k.name] \in Surjection(keys, {k.name : k \in keys})
      BY DEF Surjection
    <3>3. IsFiniteSet({k.name : k \in keys})
      BY <3>1, <3>2, FS_Surjection
    <3>4. IsFiniteSet(walk.names)
      BY DEF DetectInv, WalkFits
    <3>5. IsFiniteSet(walk.names \cup {k.name : k \in keys})
      BY <3>3, <3>4, FS_Union
    <3>6. QED
      BY <2>3, <3>5
  <2>6. Verdicts' = {}
    <3>1. Verdicts' = Verdicts
      BY <1>1, <1>2 DEF Verdicts, appVars
    <3>2. QED
      BY <1>1, <3>1 DEF DetectInv, Once
  <2>7. Once'
    BY <1>1, <1>2, <2>6 DEF DetectInv, Once
  <2>8. QED
    BY <2>4, <2>5, <2>6, <2>7 DEF DetectInv, OneForm, WalkFits, serverVars
<1>3. CASE DetectFails /\ broken' = TRUE /\ UNCHANGED walk
  <2>1. out' = NothingFound /\ working' = None
    BY <1>3 DEF DetectFails, Reply
  <2>2. Right(out)'
    BY <1>1, <1>3, <2>1, NothingIsRight
  <2>3. QED
    BY <1>1, <1>3, <2>1, <2>2, ReplyRight
<1>4. QED
  BY <1>2, <1>3 DEF DetectPage

LEMMA DetectSampleRight ==
  ASSUME Inv, DetectInv, DetectSample, UNCHANGED <<serverVars, connVars, appVars>>, worker # "none"
  PROVE  DetectInv'
<1>1. working = Detect /\ UNCHANGED <<req, upd, worker>> /\ UNCHANGED caps
  BY DEF DetectSample, connVars
<1>2. ASSUME Right(out)', working' = None, UNCHANGED walk, broken => broken'
      PROVE  DetectInv'
  BY <1>1, <1>2, ReplyRight
<1>3. CASE NoVersionLeft /\ UNCHANGED <<lost, walk, broken>>
  <2>1. working' = None /\ out' = IF Names = {} THEN NothingFound ELSE Found("Weak", Names)
    BY <1>3 DEF NoVersionLeft, Reply
  <2>2. CASE Names = {}
    <3>1. walk.names = {}
      BY <2>2, NamesFit
    <3>2. MetaKeys(InReach) = {}
      BY <3>1 DEF DetectInv, WalkFits
    <3>3. \A k \in InReach : k.form = "foreign"
      BY <3>2 DEF MetaKeys
    <3>4. Right(out)'
      BY <1>1, <1>3, <2>1, <2>2, <3>3, NothingIsRight
    <3>5. QED
      BY <1>2, <1>3, <2>1, <3>4
  <2>3. CASE Names # {}
    <3>1. out' = Found("Weak", Names) /\ "Weak" \in Confidences
      BY <2>1, <2>3 DEF Confidences
    <3>2. Right(out)'
      BY <1>3, <3>1, SomeIsRight
    <3>3. QED
      BY <1>2, <1>3, <2>1, <3>2
  <2>4. QED
    BY <2>2, <2>3
<1>4. ASSUME walk.sampled < Cardinality(Names)
      PROVE  \E k \in InReach :
               /\ k.name \in Names /\ k.form = FormOf(Sample)
               /\ k.form = "foreign" => caps["typeFilter"] # "Available"
  BY <1>4, SampleFits DEF MetaKeys
<1>5. ASSUME walk.sampled < Cardinality(Names), FormOf(Sample) \in {"bullmq", "otherlib"},
             Reply(Found(Confidence(FormOf(Sample)), Names)), UNCHANGED <<lost, walk, broken>>
      PROVE  DetectInv'
  <2>1. Confidence(FormOf(Sample)) \in Confidences
    BY Confident
  <2>2. Confidence(FormOf(Sample)) = "Certain" => FormOf(Sample) = "bullmq"
    BY DEF Confidence
  <2>3. working' = None /\ out' = Found(Confidence(FormOf(Sample)), Names)
    BY <1>5 DEF Reply
  <2>4. Right(out)'
    BY <1>4, <1>5, <2>1, <2>2, <2>3, SomeIsRight
  <2>5. QED
    BY <1>2, <1>5, <2>3, <2>4
<1>6. CASE walk' = [walk EXCEPT !.sampled = @ + 1] /\ UNCHANGED <<lost, working, out, broken>>
  <2>1. walk'.page = walk.page /\ walk'.names = walk.names
    BY <1>6 DEF Inv, Types, WalkState
  <2>2. InReach' = InReach
    BY <2>1 DEF InReach, serverVars
  <2>3. OneForm' /\ WalkFits'
    BY <1>1, <2>1, <2>2 DEF DetectInv, OneForm, WalkFits, MetaKeys, serverVars
  <2>4. Verdicts' = {}
    <3>1. Verdicts' = Verdicts
      BY <1>1, <1>6 DEF Verdicts, appVars
    <3>2. QED
      BY <1>1, <3>1 DEF DetectInv, Once
  <2>5. Once'
    BY <1>1, <1>6, <2>4 DEF DetectInv, Once
  <2>6. QED
    BY <2>3, <2>4, <2>5 DEF DetectInv
<1>7. ASSUME walk.sampled < Cardinality(Names), FormOf(Sample) = "foreign",
             DetectFails, UNCHANGED <<lost, walk, broken>>
      PROVE  DetectInv'
  <2>1. working' = None /\ out' = NothingFound
    BY <1>7 DEF DetectFails, Reply
  <2>2. caps["typeFilter"] # "Available" /\ \E k \in InReach : k.form = "foreign"
    BY <1>4, <1>7
  <2>3. Right(out)'
    BY <1>1, <1>7, <2>1, <2>2, NothingIsRight
  <2>4. QED
    BY <1>2, <1>7, <2>1, <2>3
<1>8. CASE DetectFails /\ broken' = TRUE /\ UNCHANGED walk
  <2>1. working' = None /\ out' = NothingFound
    BY <1>8 DEF DetectFails, Reply
  <2>2. Right(out)'
    BY <1>1, <1>8, <2>1, NothingIsRight
  <2>3. QED
    BY <1>2, <1>8, <2>1, <2>2
<1>9. QED
  BY <1>3, <1>5, <1>6, <1>7, <1>8 DEF DetectSample

LEMMA BackendRight ==
  ASSUME Inv, DetectInv, Backend
  PROVE  DetectInv'
<1>1. UNCHANGED <<serverVars, ui, connVars, appVars>>
  BY DEF Backend
<1>2. UNCHANGED caps /\ UNCHANGED detected
  BY <1>1 DEF connVars, appVars
<1>3. CASE Take
  BY <1>1, <1>3, TakeRight
<1>4. CASE Scan \/ LoadOne
  <2>1. /\ UNCHANGED <<walk, broken, req, upd, worker>> /\ worker # "none"
        /\ working' = None /\ out'.type # "Detected"
    BY <1>4, RequestFields DEF Scan, LoadOne, AskServer, Reply, Alive
  <2>2. QED
    BY <1>1, <2>1, ReplyRight
<1>5. CASE DetectPage
  BY <1>1, <1>5, DetectPageRight DEF DetectPage, Alive
<1>6. CASE DetectSample
  BY <1>1, <1>6, DetectSampleRight DEF DetectSample, Alive
<1>7. CASE SendUpdate
  <2>1. /\ upd' = Append(upd, out) /\ out' = None /\ worker # "none"
        /\ UNCHANGED <<working, walk, broken, req, worker>>
    BY <1>7 DEF SendUpdate, Alive
  <2>2. /\ DOMAIN upd' = 1..(Len(upd) + 1) /\ DOMAIN upd = 1..Len(upd) /\ Len(upd) \in Nat
        /\ \A i \in 1..Len(upd) : upd'[i] = upd[i]
        /\ upd'[Len(upd) + 1] = out
    <3>1. upd \in Seq(Update) /\ out \in Update
      BY <1>7 DEF Inv, Types, SendUpdate
    <3>2. QED
      BY <2>1, <3>1, AppendProperties, LenProperties
  <2>3. {upd'[i] : i \in DOMAIN upd'} = {upd[i] : i \in DOMAIN upd} \cup {out}
    BY <2>2
  <2>4. Verdicts' \subseteq Verdicts
    BY <1>2, <2>1, <2>3, RequestFields DEF Verdicts
  <2>5. QED
    BY <1>1, <1>2, <2>1, <2>4, StillRight
<1>8. CASE EndWorker \/ \E t \in Tasks : EndTask(t)
  <2>1. /\ UNCHANGED <<working, out, walk, broken, req, upd>>
        /\ worker' = "none" => worker = "none"
    BY <1>8 DEF EndWorker, EndTask, workVars
  <2>2. Verdicts' = Verdicts
    BY <1>2, <2>1 DEF Verdicts
  <2>3. QED
    BY <1>1, <1>2, <2>1, <2>2, StillRight
<1>9. QED
  BY <1>3, <1>4, <1>5, <1>6, <1>7, <1>8 DEF Backend

\* No queue is made up, certainty needs a BullMQ version, and nothing is found only
\* for one of the three reasons (detect, scan_meta_keys and read_meta of the lens).
THEOREM VerdictsAreRight == Spec => []DetectionIsRight
<1>1. Init => DetectInv
  BY InitRight
<1>2. Inv /\ DetectInv /\ [Next]_vars => DetectInv'
  <2> SUFFICES ASSUME Inv, DetectInv, [Next]_vars PROVE DetectInv'
    OBVIOUS
  <2>1. CASE UNCHANGED vars
    <3>1. Verdicts' = Verdicts
      BY <2>1 DEF Verdicts, vars, appVars, workVars
    <3>2. QED
      BY <2>1, <3>1, StillRight DEF vars, connVars, appVars, workVars
  <2>2. QED
    BY <2>1, ConnectRight, KeyRight, ApplyRight, BackendRight DEF Next
<1>3. DetectInv => DetectionIsRight
  BY DEF DetectInv, DetectionIsRight, Right
<1>4. QED
  BY <1>1, <1>2, <1>3, SessionInv, PTL DEF Spec
=============================================================================
