--------------------------- MODULE KeysTabProofs ---------------------------
(***************************************************************************)
(* What the Keys tab guarantees for every set of keys and every channel    *)
(* capacity: first the selection protocol of KeyBrowser, then the rows of  *)
(* KeyTreeView.  The two machines share no state.                          *)
(*                                                                         *)
(* The rows: walk, the fold of a chain and the collecting of the branches  *)
(* are functions defined by recursion on the trie.  They exist because a   *)
(* node's value depends on those of deeper nodes only and the longest key  *)
(* bounds the depth (RecursionDown); what they compute is shown from the   *)
(* leaves up (FromTheLeaves): the rows a place contributes are exactly the *)
(* nodes shown below it, in order (WalkShows).  As a set has one listing   *)
(* in a strict order (SortedIsOrdered), they are the rows KeyTreeRows      *)
(* defines (WalkIsRows).                                                   *)
(***************************************************************************)
EXTENDS KeyBrowser, KeyTreeView, DataFacts, SequenceTheorems

-----------------------------------------------------------------------------
(* The selection protocol.                                                 *)

(* Requests and updates are told apart by their op.                        *)
LEMMA MessageTypes ==
  /\ Rescan \in Request /\ More \in Request /\ Detect \in Request
  /\ RefreshInfo \in Request
  /\ \A k \in Keys : Select(k) \in Request
  /\ \A r \in BOOLEAN : Batch(r) \in Update
  /\ \A k \in Keys : Detail(k) \in Update /\ Error(k) \in Update
  /\ Error("scan") \in Update /\ Error("info") \in Update
  /\ Detected \in Update /\ Info \in Update
  BY DEF Request, Update, InLine, ErrorOf

LEMMA RequestOps ==
  ASSUME NEW r \in Request
  PROVE  /\ r.op = "Select" => r.key \in Keys /\ r = Select(r.key)
         /\ r \in InLine => r.op # "Select"
         /\ r \in Scans => r.op # "Select"
  BY DEF Request, InLine, Scans, Select, Rescan, More, Detect, RefreshInfo

LEMMA UpdateOps ==
  ASSUME NEW u \in Update
  PROVE  /\ u.op = "Batch" => u.reset \in BOOLEAN
         /\ u.op = "Detail" => u.key \in Keys /\ u = Detail(u.key)
         /\ u.op = "Error" => u.of \in ErrorOf /\ u = Error(u.of)
  BY DEF Update, Batch, Detail, Error, Detected, Info

(* Appending and taking keep a channel within its type and capacity.       *)
LEMMA AppendFits ==
  ASSUME NEW M, NEW q \in Seq(M), NEW m \in M, NEW cap \in Nat, Len(q) < cap
  PROVE  Append(q, m) \in Seq(M) /\ Len(Append(q, m)) <= cap
  BY AppendProperties, LenProperties

LEMMA TailFits ==
  ASSUME NEW M, NEW q \in Seq(M), q # <<>>, NEW cap \in Nat, Len(q) <= cap
  PROVE  /\ Tail(q) \in Seq(M) /\ Len(Tail(q)) <= cap
         /\ Head(q) \in M
  BY HeadTailProperties, EmptySeq, LenProperties

LEMMA AppendKeeps ==
  ASSUME NEW M, NEW q \in Seq(M), NEW m \in M
  PROVE  /\ Len(Append(q, m)) = Len(q) + 1
         /\ \A i \in 1 .. Len(q) : Append(q, m)[i] = q[i]
         /\ Append(q, m)[Len(q) + 1] = m
         /\ Len(q) \in Nat
  BY AppendProperties, LenProperties

LEMMA TailShifts ==
  ASSUME NEW M, NEW q \in Seq(M), q # <<>>
  PROVE  /\ Len(Tail(q)) = Len(q) - 1
         /\ \A i \in 1 .. Len(q) - 1 : Tail(q)[i] = q[i + 1]
         /\ Head(q) = q[1]
         /\ Len(q) \in Nat /\ Len(q) >= 1
  BY HeadTailProperties, EmptySeq, LenProperties

-----------------------------------------------------------------------------
(* Type correctness.                                                       *)

LEMMA FlushTypes ==
  ASSUME TypeOK, NEW row \in Row \cup {NoRow}, FlushSelection(row)
  PROVE  /\ pending' \in Keys \cup {Nothing}
         /\ detail' \in Keys \cup {Nothing}
         /\ dirty' \in BOOLEAN
         /\ req' \in Seq(Request) /\ Len(req') <= ReqCap
<1>1. CASE AskFor(row)
  BY <1>1, MessageTypes, AppendFits, CapacityAssumption DEF AskFor, TypeOK
<1>2. CASE NothingUnder(row) \/ BranchUnder(row) \/ AlreadyAsked(row)
             \/ Refused(row)
  BY <1>2 DEF NothingUnder, BranchUnder, AlreadyAsked, Refused, TypeOK
<1>3. QED
  BY <1>1, <1>2 DEF FlushSelection

(* Every variable keeps its type, and the channels their capacities.       *)
THEOREM TypeCorrect == Spec => []TypeOK
<1>1. Init => TypeOK
  <2> SUFFICES ASSUME Init PROVE TypeOK
    OBVIOUS
  <2>1. req \in Seq(Request) /\ Len(req) = 2
    BY MessageTypes DEF Init
  <2>2. upd \in Seq(Update) /\ Len(upd) = 0
    BY DEF Init
  <2>3. Len(req) <= ReqCap /\ Len(upd) <= UpdCap
    BY <2>1, <2>2, CapacityAssumption
  <2>4. /\ under \in Row \cup {NoRow}
        /\ pending \in Keys \cup {Nothing} /\ detail \in Keys \cup {Nothing}
        /\ dirty \in BOOLEAN /\ fetchAt \in BOOLEAN
        /\ error \in ErrorOf \cup {Nothing}
        /\ loading \in BOOLEAN
        /\ working \in InLine \cup {Nothing}
        /\ reading \in Keys \cup {Nothing} /\ late \in Keys \cup {Nothing}
        /\ refreshing \in BOOLEAN
    BY DEF Init
  <2>5. QED
    BY <2>1, <2>2, <2>3, <2>4 DEF TypeOK
<1>2. TypeOK /\ [Next]_vars => TypeOK'
  <2> SUFFICES ASSUME TypeOK, [Next]_vars PROVE TypeOK'
    OBVIOUS
  <2>1. CASE MoveCursor
    BY <2>1 DEF MoveCursor, Rearm, TypeOK, workVars
  <2>2. CASE JumpCursor
    <3>1. under' \in Row \cup {NoRow}
      BY <2>2 DEF JumpCursor
    <3>2. /\ pending' \in Keys \cup {Nothing} /\ detail' \in Keys \cup {Nothing}
          /\ dirty' \in BOOLEAN
          /\ req' \in Seq(Request) /\ Len(req') <= ReqCap
      BY <2>2, <3>1, FlushTypes DEF JumpCursor
    <3>3. QED
      BY <2>2, <3>1, <3>2 DEF JumpCursor, Rearm, TypeOK, workVars
  <2>3. CASE EnterKey
    <3>1. /\ pending' \in Keys \cup {Nothing} /\ detail' \in Keys \cup {Nothing}
          /\ dirty' \in BOOLEAN
          /\ req' \in Seq(Request) /\ Len(req') <= ReqCap
      BY <2>3, FlushTypes DEF EnterKey, TypeOK
    <3>2. QED
      BY <2>3, <3>1 DEF EnterKey, Rearm, TypeOK, workVars
  <2>4. CASE Rearrange
    BY <2>4 DEF Rearrange, Rearm, TypeOK, workVars, detailVars
  <2>5. CASE AskScan
    <3>1. req' \in Seq(Request) /\ Len(req') <= ReqCap
      BY <2>5, MessageTypes, AppendFits, CapacityAssumption DEF AskScan, TypeOK
    <3>2. QED
      BY <2>5, <3>1 DEF AskScan, Rearm, TypeOK, workVars, detailVars
  <2>6. CASE FetchTimer
    <3>1. /\ pending' \in Keys \cup {Nothing} /\ detail' \in Keys \cup {Nothing}
          /\ dirty' \in BOOLEAN
          /\ req' \in Seq(Request) /\ Len(req') <= ReqCap
      BY <2>6, FlushTypes DEF FetchTimer, TypeOK
    <3>2. QED
      BY <2>6, <3>1 DEF FetchTimer, TypeOK, workVars
  <2>7. CASE InfoTick
    <3>1. req' \in Seq(Request) /\ Len(req') <= ReqCap
      BY <2>7, MessageTypes, AppendFits, CapacityAssumption DEF InfoTick, TypeOK
    <3>2. QED
      BY <2>7, <3>1 DEF InfoTick, TypeOK, uiVars, detailVars, workVars
  <2>8. CASE Apply
    <3>1. upd # <<>> /\ upd' = Tail(upd) /\ UNCHANGED <<req, workVars>>
      BY <2>8 DEF Apply, ApplyBatch, ApplyDetail, ApplyError, ApplyOther
    <3>2. /\ upd' \in Seq(Update) /\ Len(upd') <= UpdCap
          /\ Head(upd) \in Update
      BY <3>1, TailFits, CapacityAssumption DEF TypeOK
    <3>3. CASE ApplyBatch
      BY <3>1, <3>2, <3>3 DEF ApplyBatch, TypeOK, workVars
    <3>4. CASE ApplyDetail
      BY <3>1, <3>2, <3>4, UpdateOps DEF ApplyDetail, TypeOK, workVars
    <3>5. CASE ApplyError
      BY <3>1, <3>2, <3>5, UpdateOps
      DEF ApplyError, TypeOK, workVars, detailVars
    <3>6. CASE ApplyOther
      BY <3>1, <3>2, <3>6 DEF ApplyOther, TypeOK, workVars, detailVars
    <3>7. QED
      BY <2>8, <3>3, <3>4, <3>5, <3>6 DEF Apply
  <2>9. CASE WorkerTake \/ SpawnDetail \/ SpawnInfo
    <3>1. req # <<>> /\ req' = Tail(req) /\ UNCHANGED <<uiVars, upd>>
      BY <2>9 DEF WorkerTake, SpawnDetail, SpawnInfo
    <3>2. /\ req' \in Seq(Request) /\ Len(req') <= ReqCap
          /\ Head(req) \in Request
      BY <3>1, TailFits, CapacityAssumption DEF TypeOK
    <3>3. CASE WorkerTake
      BY <3>1, <3>2, <3>3 DEF WorkerTake, TypeOK, uiVars, detailVars
    <3>4. CASE SpawnDetail
      BY <3>1, <3>2, <3>4, RequestOps DEF SpawnDetail, TypeOK, uiVars, detailVars
    <3>5. CASE SpawnInfo
      BY <3>1, <3>2, <3>5, CapacityAssumption
      DEF SpawnInfo, TypeOK, uiVars, detailVars
    <3>6. QED
      BY <2>9, <3>3, <3>4, <3>5
  <2>10. CASE WorkerReply
    <3>1. PICK u \in Update : upd' = Append(upd, u)
      <4>1. (working = Rescan) \in BOOLEAN
        OBVIOUS
      <4>2. Batch(working = Rescan) \in Update
        BY <4>1, MessageTypes
      <4>3. QED
        BY <2>10, <4>2, MessageTypes DEF WorkerReply
    <3>2. Len(upd) < UpdCap
      BY <2>10 DEF WorkerReply
    <3>3. upd' \in Seq(Update) /\ Len(upd') <= UpdCap
      BY <3>1, <3>2, AppendFits, CapacityAssumption DEF TypeOK
    <3>4. QED
      BY <2>10, <3>3 DEF WorkerReply, TypeOK, uiVars, detailVars
  <2>11. CASE Tasks
    <3>1. upd' \in Seq(Update) /\ Len(upd') <= UpdCap
      BY <2>11, MessageTypes, AppendFits, CapacityAssumption
      DEF Tasks, DetailDone, LateDone, InfoDone, Answer, TypeOK
    <3>2. QED
      BY <2>11, <3>1
      DEF Tasks, DetailDone, LateDone, InfoDone, TypeOK, uiVars, detailVars
  <2>12. CASE UNCHANGED vars
    BY <2>12 DEF vars, TypeOK, uiVars, detailVars, workVars
  <2>13. QED
    BY <2>1, <2>2, <2>3, <2>4, <2>5, <2>6, <2>7, <2>8, <2>9, <2>10, <2>11,
       <2>12 DEF Next, KeyPress, Worker
<1>3. QED
  BY <1>1, <1>2, PTL DEF Spec

-----------------------------------------------------------------------------
(* The spinner.                                                            *)

ScanAsked == \E i \in 1 .. Len(req) : req[i] \in Scans
ScanDone  == \E i \in 1 .. Len(upd) : ScanReply(upd[i])

LEMMA FlushKeepsScans ==
  ASSUME TypeOK, NEW row \in Row \cup {NoRow}, FlushSelection(row), ScanAsked
  PROVE  ScanAsked'
<1>1. CASE AskFor(row)
  BY <1>1, MessageTypes, AppendKeeps DEF AskFor, ScanAsked, TypeOK
<1>2. CASE UNCHANGED req
  BY <1>2 DEF ScanAsked
<1>3. QED
  BY <1>1, <1>2 DEF FlushSelection, NothingUnder, BranchUnder, AlreadyAsked,
                    Refused

LEMMA SendKeepsReplies ==
  ASSUME TypeOK, NEW u \in Update, upd' = Append(upd, u)
  PROVE  /\ ScanDone => ScanDone'
         /\ ScanReply(u) => ScanDone'
  BY AppendKeeps DEF ScanDone, TypeOK

(* The spinner turns only while a scan is queued, running or answered.     *)
THEOREM SpinnerSound == Spec => []SpinnerMeansScan
<1>1. Init => SpinnerMeansScan
  <2> SUFFICES ASSUME Init PROVE ScanOutstanding
    BY DEF SpinnerMeansScan
  <2>1. Len(req) = 2 /\ req[2] = Rescan
    BY DEF Init
  <2>2. QED
    BY <2>1 DEF ScanOutstanding, Scans
<1>2. TypeOK /\ SpinnerMeansScan /\ [Next]_vars => SpinnerMeansScan'
  <2> SUFFICES ASSUME TypeOK, SpinnerMeansScan, [Next]_vars, loading'
               PROVE  ScanOutstanding'
    BY DEF SpinnerMeansScan
  <2> USE DEF ScanAsked, ScanDone
  <2>a. loading => ScanAsked \/ working \in Scans \/ ScanDone
    BY DEF SpinnerMeansScan, ScanOutstanding
  <2>b. ScanAsked' \/ working' \in Scans \/ ScanDone' => ScanOutstanding'
    BY DEF ScanOutstanding
  <2> USE DEF workVars
  <2>1. CASE MoveCursor \/ Rearrange
    BY <2>1, <2>a, <2>b DEF MoveCursor, Rearrange, detailVars
  <2>2. CASE JumpCursor \/ EnterKey \/ FetchTimer
    <3>1. PICK row \in Row \cup {NoRow} : FlushSelection(row)
      BY <2>2 DEF JumpCursor, EnterKey, FetchTimer, TypeOK
    <3>2. ScanAsked => ScanAsked'
      BY <3>1, FlushKeepsScans
    <3>3. UNCHANGED <<loading, upd, working>>
      BY <2>2 DEF JumpCursor, EnterKey, FetchTimer
    <3>4. QED
      BY <3>2, <3>3, <2>a, <2>b
  <2>3. CASE AskScan
    <3>1. Len(req) < ReqCap /\ \E m \in Scans : req' = Append(req, m)
      BY <2>3 DEF AskScan, TypeOK, Scans
    <3>2. PICK m \in Scans : req' = Append(req, m)
      BY <3>1
    <3>3. m \in Request
      BY MessageTypes DEF Scans
    <3>4. ScanAsked'
      BY <3>2, <3>3, AppendKeeps DEF TypeOK
    <3>5. QED
      BY <3>4, <2>b
  <2>4. CASE InfoTick
    <3>1. ScanAsked => ScanAsked'
      BY <2>4, MessageTypes, AppendKeeps DEF InfoTick, TypeOK
    <3>2. QED
      BY <2>4, <3>1, <2>a, <2>b DEF InfoTick, uiVars
  <2>5. CASE ApplyBatch \/ ApplyError
    BY <2>5 DEF ApplyBatch, ApplyError
  <2>6. CASE ApplyDetail \/ ApplyOther
    <3>1. upd # <<>> /\ upd' = Tail(upd) /\ ~ScanReply(Head(upd))
      BY <2>6 DEF ApplyDetail, ApplyOther, ScanReply
    <3>2. ScanDone => ScanDone'
      BY <3>1, TailShifts DEF TypeOK
    <3>3. QED
      BY <2>6, <3>2, <2>a, <2>b DEF ApplyDetail, ApplyOther
  <2>7. CASE WorkerTake \/ SpawnDetail \/ SpawnInfo
    <3>1. req # <<>> /\ req' = Tail(req) /\ UNCHANGED <<loading, upd>>
      BY <2>7 DEF WorkerTake, SpawnDetail, SpawnInfo, uiVars
    <3>2. ScanAsked => ScanAsked' \/ Head(req) \in Scans
      BY <3>1, TailShifts DEF TypeOK
    <3>3. working = Nothing
      BY <2>7 DEF WorkerTake, SpawnDetail, SpawnInfo
    <3>4. Head(req) \in Scans => working' \in Scans
      <4>1. RefreshInfo \notin Scans
        BY DEF RefreshInfo, Scans, Rescan, More
      <4>2. \A r \in Scans : r.op # "Select"
        BY DEF Scans, Rescan, More
      <4>3. QED
        BY <2>7, <4>1, <4>2 DEF WorkerTake, SpawnDetail, SpawnInfo
    <3>5. Nothing \notin Scans
      BY NothingAssumption DEF InLine, Scans
    <3>6. QED
      BY <3>1, <3>2, <3>3, <3>4, <3>5, <2>a, <2>b
  <2>8. CASE WorkerReply
    <3>1. working \in Scans => ScanDone'
      <4>1. ASSUME working \in Scans PROVE \E u \in Update :
              ScanReply(u) /\ upd' = Append(upd, u)
        <5>1. working # Detect
          BY <4>1 DEF Scans, Rescan, More, Detect
        <5>2. (working = Rescan) \in BOOLEAN
          OBVIOUS
        <5>3. Batch(working = Rescan) \in Update /\ Error("scan") \in Update
          BY <5>2, MessageTypes
        <5>4. ScanReply(Batch(working = Rescan)) /\ ScanReply(Error("scan"))
          BY DEF ScanReply, Batch, Error
        <5>5. QED
          BY <2>8, <5>1, <5>3, <5>4 DEF WorkerReply
      <4>2. QED
        BY <4>1, SendKeepsReplies
    <3>2. ScanDone => ScanDone'
      <4>1. (working = Rescan) \in BOOLEAN
        OBVIOUS
      <4>2. Batch(working = Rescan) \in Update
        BY <4>1, MessageTypes
      <4>3. \E u \in Update : upd' = Append(upd, u)
        BY <2>8, <4>2, MessageTypes DEF WorkerReply
      <4>4. QED
        BY <4>3, SendKeepsReplies
    <3>3. QED
      BY <2>8, <3>1, <3>2, <2>a, <2>b DEF WorkerReply, uiVars
  <2>9. CASE Tasks
    <3>1. UNCHANGED upd \/ \E u \in Update : upd' = Append(upd, u)
      BY <2>9, MessageTypes DEF Tasks, DetailDone, LateDone, InfoDone, Answer,
                                TypeOK
    <3>2. ScanDone => ScanDone'
      BY <3>1, SendKeepsReplies
    <3>3. QED
      BY <2>9, <3>2, <2>a, <2>b
      DEF Tasks, DetailDone, LateDone, InfoDone, uiVars
  <2>10. CASE UNCHANGED vars
    BY <2>10, <2>a, <2>b DEF vars, uiVars
  <2>11. QED
    BY <2>1, <2>2, <2>3, <2>4, <2>5, <2>6, <2>7, <2>8, <2>9, <2>10
    DEF Next, KeyPress, Worker, Apply
<1>3. QED
  BY <1>1, <1>2, TypeCorrect, PTL DEF Spec

-----------------------------------------------------------------------------
(* The newest selection.                                                   *)

LEMMA QueueOther ==
  ASSUME TypeOK, NewestReadIsPending,
         NEW m \in Request, m.op # "Select", req' = Append(req, m),
         UNCHANGED <<pending, reading>>
  PROVE  NewestReadIsPending'
<1>1. Selects' = Selects
  BY AppendKeeps DEF Selects, TypeOK
<1>2. \A i \in Selects : req'[i] = req[i]
  BY AppendKeeps DEF Selects, TypeOK
<1>3. QED
  BY <1>1, <1>2 DEF NewestReadIsPending, IsNewest

LEMMA ServeOther ==
  ASSUME TypeOK, NewestReadIsPending,
         req # <<>>, Head(req).op # "Select", req' = Tail(req),
         UNCHANGED <<pending, reading>>
  PROVE  NewestReadIsPending'
<1>1. /\ \A i \in Selects' : i + 1 \in Selects /\ req'[i] = req[i + 1]
      /\ \A i \in Selects : i - 1 \in Selects'
  BY TailShifts DEF Selects, TypeOK
<1>2. \A i \in Selects : i \in Nat
  BY DEF Selects
<1>3. \A i \in Selects' : IsNewest(i)' => IsNewest(i + 1)
  BY <1>1, <1>2 DEF IsNewest, Selects
<1>4. Selects' = {} => Selects = {}
  BY <1>1
<1>5. QED
  BY <1>1, <1>3, <1>4 DEF NewestReadIsPending

LEMMA FlushKeepsNewest ==
  ASSUME TypeOK, NewestReadIsPending, UNCHANGED reading,
         NEW row \in Row \cup {NoRow}, FlushSelection(row)
  PROVE  NewestReadIsPending'
<1>1. CASE AskFor(row)
  <2>1. Select(row) \in Request /\ Select(row).op = "Select"
        /\ Select(row).key = row
    BY <1>1, MessageTypes DEF AskFor, Select
  <2>2. /\ Len(req') = Len(req) + 1 /\ req'[Len(req) + 1] = Select(row)
        /\ Len(req) \in Nat
    BY <1>1, <2>1, AppendKeeps DEF AskFor, TypeOK
  <2>3. Len(req) + 1 \in Selects'
    BY <2>1, <2>2 DEF Selects
  <2>4. \A i \in Selects' : IsNewest(i)' => i = Len(req) + 1
    BY <2>2, <2>3 DEF IsNewest, Selects
  <2>5. QED
    BY <1>1, <2>1, <2>2, <2>3, <2>4 DEF AskFor, NewestReadIsPending
<1>2. CASE BranchUnder(row) \/ Refused(row)
  BY <1>2 DEF BranchUnder, Refused, NewestReadIsPending
<1>3. CASE NothingUnder(row) \/ AlreadyAsked(row)
  BY <1>3 DEF NothingUnder, AlreadyAsked, NewestReadIsPending, Selects, IsNewest
<1>4. QED
  BY <1>1, <1>2, <1>3 DEF FlushSelection

(* The read the App waits for is never one that a queued selection will    *)
(* abort: the newest selection sent is the pending key.                    *)
THEOREM NewestRead == Spec => []NewestReadIsPending
<1>1. Init => NewestReadIsPending
  BY DEF Init, NewestReadIsPending
<1>2. TypeOK /\ NewestReadIsPending /\ [Next]_vars => NewestReadIsPending'
  <2> SUFFICES ASSUME TypeOK, NewestReadIsPending, [Next]_vars
               PROVE  NewestReadIsPending'
    OBVIOUS
  <2> USE DEF workVars, detailVars, uiVars
  <2>1. ASSUME UNCHANGED <<req, pending, reading>>
        PROVE  NewestReadIsPending'
    BY <2>1 DEF NewestReadIsPending, Selects, IsNewest
  <2>2. CASE JumpCursor \/ EnterKey \/ FetchTimer
    <3>1. \E row \in Row \cup {NoRow} : FlushSelection(row)
      BY <2>2 DEF JumpCursor, EnterKey, FetchTimer, TypeOK
    <3>2. UNCHANGED reading
      BY <2>2 DEF JumpCursor, EnterKey, FetchTimer
    <3>3. QED
      BY <3>1, <3>2, FlushKeepsNewest
  <2>3. CASE AskScan
    <3>1. UNCHANGED <<pending, reading>>
      BY <2>3 DEF AskScan
    <3>2. UNCHANGED req
          \/ req' = Append(req, Rescan) \/ req' = Append(req, More)
      BY <2>3 DEF AskScan
    <3>3. Rescan.op # "Select" /\ More.op # "Select"
      BY DEF Rescan, More
    <3>4. QED
      BY <2>1, <3>1, <3>2, <3>3, QueueOther, MessageTypes
  <2>4. CASE InfoTick
    <3>1. RefreshInfo.op # "Select"
      BY DEF RefreshInfo
    <3>2. QED
      BY <2>4, <3>1, QueueOther, MessageTypes DEF InfoTick
  <2>5. CASE WorkerTake
    <3>1. Head(req).op # "Select"
      BY <2>5 DEF WorkerTake, InLine, Rescan, More, Detect
    <3>2. QED
      BY <2>5, <3>1, ServeOther DEF WorkerTake
  <2>6. CASE SpawnInfo
    <3>1. Head(req).op # "Select"
      BY <2>6 DEF SpawnInfo, RefreshInfo
    <3>2. QED
      BY <2>6, <3>1, ServeOther DEF SpawnInfo
  <2>7. CASE SpawnDetail
    <3>1. 1 \in Selects /\ req[1].key = reading'
      BY <2>7, TailShifts DEF SpawnDetail, Selects, TypeOK
    <3>2. /\ \A i \in Selects' : i + 1 \in Selects /\ req'[i] = req[i + 1]
          /\ \A i \in Selects \ {1} : i - 1 \in Selects'
      BY <2>7, TailShifts DEF SpawnDetail, Selects, TypeOK
    <3>3. \A i \in Selects : i \in Nat /\ i >= 1
      BY DEF Selects
    <3>4. \A i \in Selects' : IsNewest(i)' => IsNewest(i + 1)
      BY <3>2, <3>3 DEF IsNewest, Selects
    <3>5. Selects' = {} => IsNewest(1)
      BY <3>1, <3>2 DEF IsNewest
    <3>6. UNCHANGED pending
      BY <2>7 DEF SpawnDetail
    <3>7. QED
      BY <3>1, <3>2, <3>4, <3>5, <3>6 DEF NewestReadIsPending
  <2>8. CASE DetailDone
    BY <2>8 DEF DetailDone, NewestReadIsPending, Selects, IsNewest
  <2>9. CASE MoveCursor \/ Rearrange \/ Apply \/ WorkerReply \/ LateDone
             \/ InfoDone \/ UNCHANGED vars
    <3>1. UNCHANGED <<req, pending, reading>>
      BY <2>9 DEF MoveCursor, Rearrange, Apply, ApplyBatch, ApplyDetail,
         ApplyError, ApplyOther, WorkerReply, LateDone, InfoDone, vars
    <3>2. QED
      BY <2>1, <3>1
  <2>10. QED
    BY <2>2, <2>3, <2>4, <2>5, <2>6, <2>7, <2>8, <2>9
    DEF Next, KeyPress, Worker, Tasks
<1>3. QED
  BY <1>1, <1>2, TypeCorrect, PTL DEF Spec

-----------------------------------------------------------------------------
(* Delivery of the answer.                                                 *)

Queued(k)   == \E i \in 1 .. Len(req) : req[i] = Select(k)
Answered(k) == \E i \in 1 .. Len(upd) : upd[i] \in {Detail(k), Error(k)}

LEMMA QueueGrows ==
  ASSUME TypeOK, NEW k \in Keys, Queued(k),
         UNCHANGED req \/ \E m \in Request : req' = Append(req, m)
  PROVE  Queued(k)'
  BY AppendKeeps DEF Queued, TypeOK

LEMMA UpdatesGrow ==
  ASSUME TypeOK, NEW k \in Keys, Answered(k),
         UNCHANGED upd \/ \E u \in Update : upd' = Append(upd, u)
  PROVE  Answered(k)'
  BY AppendKeeps DEF Answered, TypeOK

(* A selection that waits has a newest one.                                *)
LEMMA LargestIndex ==
  ASSUME NEW n \in Nat, NEW S \in SUBSET (1 .. n), S # {}
  PROVE  \E i \in S : \A j \in S : j <= i
<1> DEFINE R == OpToRel(<, Nat)
           T == {n - i : i \in S}
<1>0. \A i \in S : i \in Nat /\ i <= n /\ n - i \in Nat
  OBVIOUS
<1>1. T \subseteq Nat /\ T # {}
  <2>1. PICK i \in S : TRUE
    OBVIOUS
  <2>2. n - i \in T
    OBVIOUS
  <2>3. QED
    BY <1>0, <2>2
<1>2. PICK x \in T : \A y \in T : <<y, x>> \notin R
  <2> HIDE DEF T
  <2> QED BY <1>1, NatLessThanWellFounded, WFMin
<1>3. \A y \in T : ~(y < x)
  BY <1>1, <1>2 DEF OpToRel
<1>4. PICK i \in S : x = n - i
  BY <1>2
<1>5. \A j \in S : ~(n - j < n - i)
  BY <1>3, <1>4
<1>6. QED
  BY <1>0, <1>4, <1>5

LEMMA NewestQueued ==
  ASSUME TypeOK, NewestReadIsPending, pending # Nothing, Selects # {}
  PROVE  \E i \in Selects : IsNewest(i) /\ req[i] = Select(pending)
<1>1. Len(req) \in Nat /\ Selects \in SUBSET (1 .. Len(req))
  BY LenProperties DEF TypeOK, Selects
<1>2. PICK i \in Selects : \A j \in Selects : j <= i
  BY <1>1, LargestIndex
<1>3. req[i] \in Request /\ req[i].op = "Select"
  BY <1>2, ElementOfSeq DEF Selects, TypeOK
<1>4. QED
  BY <1>2, <1>3, RequestOps DEF NewestReadIsPending, IsNewest

LEMMA FlushGrows ==
  ASSUME TypeOK, NEW row \in Row \cup {NoRow}, FlushSelection(row)
  PROVE  UNCHANGED req \/ \E m \in Request : req' = Append(req, m)
  BY MessageTypes
  DEF FlushSelection, NothingUnder, BranchUnder, AlreadyAsked, AskFor, Refused

(* The answer the App waits for ends in its value or in an error: no abort *)
(* and no staleness check loses it.                                        *)
THEOREM AnswerDelivered == Spec => AnswerIsDelivered
<1>1. TypeOK /\ NewestReadIsPending /\ [Next]_vars => [AnswerStep]_vars
  <2> SUFFICES ASSUME TypeOK, NewestReadIsPending, [Next]_vars,
                      NEW k \in Keys, pending = k, pending' = k, InFlight(k)
               PROVE  InFlight(k)' \/ detail' = k \/ error' # Nothing
    BY DEF AnswerStep, TypeOK, InFlight
  <2>a. Queued(k) \/ reading = k \/ Answered(k)
    BY DEF InFlight, Queued, Answered
  <2>b. Queued(k)' \/ reading' = k \/ Answered(k)' => InFlight(k)'
    BY DEF InFlight, Queued, Answered
  <2> USE DEF workVars, uiVars
  <2>1. CASE MoveCursor \/ Rearrange \/ JumpCursor \/ EnterKey \/ FetchTimer
             \/ AskScan \/ InfoTick
    <3>1. \/ UNCHANGED req
          \/ \E m \in Request : req' = Append(req, m)
          \/ \E row \in Row \cup {NoRow} : FlushSelection(row)
      BY <2>1, MessageTypes DEF MoveCursor, Rearrange, JumpCursor, EnterKey,
         FetchTimer, AskScan, InfoTick, TypeOK
    <3>2. UNCHANGED req \/ \E m \in Request : req' = Append(req, m)
      BY <3>1, FlushGrows
    <3>3. UNCHANGED <<upd, reading>>
      BY <2>1 DEF MoveCursor, Rearrange, JumpCursor, EnterKey, FetchTimer,
         AskScan, InfoTick
    <3>4. QED
      BY <3>2, <3>3, <2>a, <2>b, QueueGrows, UpdatesGrow
  <2>2. CASE Apply
    <3>1. upd # <<>> /\ upd' = Tail(upd) /\ UNCHANGED <<req, reading>>
      BY <2>2 DEF Apply, ApplyBatch, ApplyDetail, ApplyError, ApplyOther
    <3>2. CASE Head(upd) \in {Detail(k), Error(k)}
      <4>1. CASE Head(upd) = Detail(k)
        BY <2>2, <4>1 DEF Apply, ApplyBatch, ApplyDetail, ApplyError,
           ApplyOther, Detail
      <4>2. CASE Head(upd) = Error(k)
        BY <2>2, <4>2, KeysAssumption DEF Apply, ApplyBatch,
           ApplyDetail, ApplyError, ApplyOther, Error
      <4>3. QED
        BY <3>2, <4>1, <4>2
    <3>3. CASE Head(upd) \notin {Detail(k), Error(k)}
      <4>1. Answered(k) => Answered(k)'
        BY <3>1, <3>3, TailShifts, SMTT(30) DEF Answered, TypeOK
      <4>2. Queued(k) => Queued(k)'
        BY <3>1 DEF Queued
      <4>3. QED
        BY <3>1, <4>1, <4>2, <2>a, <2>b
    <3>4. QED
      BY <3>2, <3>3
  <2>3. CASE WorkerTake \/ SpawnInfo
    <3>1. req # <<>> /\ req' = Tail(req) /\ UNCHANGED <<upd, reading>>
          /\ Head(req).op # "Select"
      BY <2>3 DEF WorkerTake, SpawnInfo, InLine, Rescan, More, Detect,
         RefreshInfo
    <3>2. Queued(k) => Queued(k)'
      BY <3>1, TailShifts DEF Queued, Select, TypeOK
    <3>3. Answered(k) => Answered(k)'
      BY <3>1 DEF Answered
    <3>4. QED
      BY <3>1, <3>2, <3>3, <2>a, <2>b
  <2>4. CASE SpawnDetail
    <3>1. /\ req # <<>> /\ req' = Tail(req) /\ UNCHANGED upd
          /\ Head(req).op = "Select" /\ reading' = Head(req).key
          /\ Head(req) = req[1]
      BY <2>4, TailShifts DEF SpawnDetail, TypeOK
    <3>2. 1 \in Selects /\ req[1] = Select(reading')
      BY <3>1, TailShifts, RequestOps DEF Selects, TypeOK
    <3>3. CASE IsNewest(1)
      <4>1. req[1].key = k
        BY <3>2, <3>3, KeysAssumption DEF NewestReadIsPending
      <4>2. reading' = k
        BY <3>1, <4>1
      <4>3. QED
        BY <4>2, <2>b
    <3>4. CASE ~IsNewest(1) /\ ~Queued(k)'
      <4>1. PICK i \in Selects : IsNewest(i) /\ req[i] = Select(k)
        BY <3>2, NewestQueued, KeysAssumption
      <4>2. i # 1 /\ i \in 1 .. Len(req)
        BY <3>4, <4>1 DEF Selects
      <4>3. i - 1 \in 1 .. Len(req') /\ req'[i - 1] = Select(k)
        BY <3>1, <4>1, <4>2, TailShifts DEF TypeOK
      <4>4. Queued(k)'
        BY <4>3 DEF Queued
      <4>5. QED
        BY <4>4, <3>4
    <3>5. QED
      BY <3>3, <3>4, <2>b
  <2>5. CASE WorkerReply \/ Tasks
    <3>1. UNCHANGED req
      BY <2>5 DEF WorkerReply, Tasks, DetailDone, LateDone, InfoDone
    <3>2. UNCHANGED upd \/ \E u \in Update : upd' = Append(upd, u)
      <4>1. (working = Rescan) \in BOOLEAN
        OBVIOUS
      <4>2. Batch(working = Rescan) \in Update
        BY <4>1, MessageTypes
      <4>3. QED
        BY <2>5, <4>2, MessageTypes DEF WorkerReply, Tasks, DetailDone,
           LateDone, InfoDone, Answer, TypeOK
    <3>3. reading = k => reading' = k \/ Answered(k)'
      <4>1. CASE DetailDone /\ reading = k
        <5>1. PICK u \in {Detail(k), Error(k)} : upd' = Append(upd, u)
          BY <4>1 DEF DetailDone, Answer
        <5>2. u \in Update
          BY MessageTypes
        <5>3. QED
          BY <5>1, <5>2, AppendKeeps DEF Answered, TypeOK
      <4>2. CASE ~DetailDone
        BY <2>5, <4>2 DEF WorkerReply, Tasks, LateDone, InfoDone
      <4>3. QED
        BY <4>1, <4>2
    <3>4. QED
      BY <3>1, <3>2, <3>3, <2>a, <2>b, QueueGrows, UpdatesGrow
  <2>6. CASE UNCHANGED vars
    BY <2>6, <2>a, <2>b DEF vars, Queued, Answered
  <2>7. QED
    BY <2>1, <2>2, <2>3, <2>4, <2>5, <2>6 DEF Next, KeyPress, Worker
<1>2. QED
  BY <1>1, TypeCorrect, NewestRead, PTL DEF Spec, AnswerIsDelivered

-----------------------------------------------------------------------------
(* Sets in order                                                           *)

\* s lists the members of S, each once, in a strict order.
Sorted(s, S, before) ==
  /\ s \in Seq(S)
  /\ \A x \in S : \E i \in DOMAIN s : s[i] = x
  /\ \A i, j \in DOMAIN s : i < j => <<s[i], s[j]>> \in before /\ <<s[j], s[i]>> \notin before

\* There is one way to list a set in an order.
LEMMA SortedIsOrdered ==
  ASSUME NEW S, NEW s, NEW before, Sorted(s, S, before), \A x \in S : <<x, x>> \notin before
  PROVE  Ordered(S, before) = s
<1> DEFINE n == Len(s)
           Under(x) == {y \in S : <<y, x>> \in before}
<1>1. /\ n \in Nat /\ DOMAIN s = 1 .. n /\ s \in [1 .. n -> S]
      /\ \A i \in 1 .. n : s[i] \in S
  BY DEF Sorted
<1>2. \A i, j \in 1 .. n : s[i] = s[j] => i = j
  <2>1. SUFFICES ASSUME NEW i \in 1 .. n, NEW j \in 1 .. n, i # j PROVE s[i] # s[j]
    OBVIOUS
  <2>2. i < j \/ j < i
    <3>1. i \in Nat /\ j \in Nat
      BY <1>1
    <3>2. QED
      BY <2>1, <3>1
  <2>3. QED
    BY <1>1, <2>2 DEF Sorted
<1>3. \A m \in 0 .. n : IsFiniteSet({s[i] : i \in 1 .. m}) /\ Cardinality({s[i] : i \in 1 .. m}) = m
  <2>1. SUFFICES ASSUME NEW m \in 0 .. n
                 PROVE  LET T == {s[i] : i \in 1 .. m} IN IsFiniteSet(T) /\ Cardinality(T) = m
    OBVIOUS
  <2> DEFINE T == {s[i] : i \in 1 .. m}
             f == [i \in 1 .. m |-> s[i]]
  <2>2. \A i \in 1 .. m : i \in 1 .. n
    BY <1>1
  <2>3. f \in Bijection(1 .. m, T)
    BY <1>2, <2>2 DEF Bijection, Injection, Surjection, IsInjective
  <2>4. IsFiniteSet(1 .. m) /\ Cardinality(1 .. m) = m
    BY <1>1, FS_Interval
  <2> HIDE DEF f, T
  <2>5. QED
    BY <2>3, <2>4, FS_Bijection DEF ExistsBijection, T
<1>4. S = {s[i] : i \in 1 .. n}
  BY <1>1 DEF Sorted
<1>5. Cardinality(S) = n
  <2>1. n \in 0 .. n
    BY <1>1
  <2>2. QED
    BY <1>3, <1>4, <2>1
<1>6. ASSUME NEW i \in 1 .. n
      PROVE  Cardinality(Under(s[i])) = i - 1
  <2>1. \A j \in 1 .. n : <<s[j], s[i]>> \in before <=> j < i
    <3>1. SUFFICES ASSUME NEW j \in 1 .. n PROVE <<s[j], s[i]>> \in before <=> j < i
      OBVIOUS
    <3>2. j < i \/ j = i \/ i < j
      OBVIOUS
    <3>3. QED
      BY <1>1, <3>2 DEF Sorted
  <2>2. Under(s[i]) = {s[j] : j \in 1 .. (i - 1)}
    <3>1. \A x \in Under(s[i]) : \E j \in 1 .. (i - 1) : x = s[j]
      <4>1. SUFFICES ASSUME NEW x \in Under(s[i]) PROVE \E j \in 1 .. (i - 1) : x = s[j]
        OBVIOUS
      <4>2. PICK j \in 1 .. n : s[j] = x
        BY <1>1 DEF Sorted
      <4>3. j < i
        BY <2>1, <4>2
      <4>4. QED
        BY <4>2, <4>3
    <3>2. \A j \in 1 .. (i - 1) : s[j] \in Under(s[i])
      <4>1. \A j \in 1 .. (i - 1) : j \in 1 .. n /\ j < i
        BY <1>1
      <4>2. QED
        BY <1>1, <2>1, <4>1
    <3>3. QED
      BY <3>1, <3>2
  <2>3. i - 1 \in 0 .. n
    OBVIOUS
  <2>4. QED
    BY <1>3, <2>2, <2>3
<1>7. \A i \in 1 .. n : (CHOOSE x \in S : Cardinality(Under(x)) = i - 1) = s[i]
  <2>1. SUFFICES ASSUME NEW i \in 1 .. n
                 PROVE  (CHOOSE x \in S : Cardinality(Under(x)) = i - 1) = s[i]
    OBVIOUS
  <2>2. \A x \in S : Cardinality(Under(x)) = i - 1 => x = s[i]
    <3>1. SUFFICES ASSUME NEW x \in S, Cardinality(Under(x)) = i - 1 PROVE x = s[i]
      OBVIOUS
    <3>2. PICK j \in 1 .. n : s[j] = x
      BY <1>1 DEF Sorted
    <3>3. j - 1 = i - 1
      BY <1>6, <3>1, <3>2
    <3>4. QED
      BY <3>2, <3>3
  <2>3. s[i] \in S /\ Cardinality(Under(s[i])) = i - 1
    BY <1>1, <1>6
  <2> HIDE DEF Under
  <2>4. QED
    BY <2>2, <2>3
<1>8. QED
  BY <1>1, <1>5, <1>7 DEF Ordered

\* A finite set can be listed in any strict total order, and Ordered does.
LEMMA OrderedSorts ==
  ASSUME NEW S, IsFiniteSet(S), NEW before,
         \A x \in S : <<x, x>> \notin before,
         \A x, y, z \in S : <<x, y>> \in before /\ <<y, z>> \in before => <<x, z>> \in before,
         \A x, y \in S : x = y \/ <<x, y>> \in before \/ <<y, x>> \in before
  PROVE  Sorted(Ordered(S, before), S, before)
<1> DEFINE n == Cardinality(S)
           Under(x) == {y \in S : <<y, x>> \in before}
           rank == [x \in S |-> Cardinality(Under(x))]
           s == Ordered(S, before)
<1>1. n \in Nat
  BY FS_CardinalityType
<1>2. ASSUME NEW x \in S
      PROVE  IsFiniteSet(Under(x)) /\ Cardinality(Under(x)) \in Nat /\ Cardinality(Under(x)) < n
  <2>1. Under(x) \in SUBSET S /\ Under(x) # S
    OBVIOUS
  <2> HIDE DEF Under
  <2>2. IsFiniteSet(Under(x)) /\ Cardinality(Under(x)) <= n /\ Cardinality(Under(x)) # n
    BY <2>1, FS_Subset
  <2>3. QED
    BY <1>1, <2>2, FS_CardinalityType
<1>3. ASSUME NEW x \in S, NEW y \in S, <<x, y>> \in before
      PROVE  Cardinality(Under(x)) < Cardinality(Under(y))
  <2>1. Under(x) \in SUBSET Under(y)
    BY <1>3
  <2>2. x \in Under(y) /\ x \notin Under(x)
    BY <1>3
  <2> HIDE DEF Under
  <2>3. /\ Cardinality(Under(x)) <= Cardinality(Under(y))
        /\ Cardinality(Under(x)) # Cardinality(Under(y))
    BY <1>2, <2>1, <2>2, FS_Subset
  <2>4. QED
    BY <1>2, <2>3
<1> HIDE DEF Under
<1>4. rank \in [S -> 0 .. (n - 1)]
  BY <1>1, <1>2
<1>5. \A x, y \in S : rank[x] = rank[y] => x = y
  <2>1. \A x, y \in S : <<x, y>> \in before => rank[x] < rank[y]
    BY <1>3
  <2>2. \A x \in S : rank[x] \in Nat
    BY <1>2
  <2> HIDE DEF rank
  <2>3. \A x, y \in S : <<x, y>> \in before => rank[x] # rank[y]
    BY <2>1, <2>2
  <2>4. QED
    BY <2>3
<1>6. rank \in Injection(S, 0 .. (n - 1))
  BY <1>4, <1>5 DEF Injection, IsInjective
<1>7. IsFiniteSet(0 .. (n - 1)) /\ Cardinality(0 .. (n - 1)) = n
  <2>1. \A m \in Nat : IsFiniteSet(0 .. (m - 1)) /\ Cardinality(0 .. (m - 1)) = m
    BY FS_Interval
  <2>2. QED
    BY <1>1, <2>1
<1>8. rank \in Surjection(S, 0 .. (n - 1))
  BY <1>6, <1>7, FS_Injection
<1>9. ASSUME NEW i \in 1 .. n
      PROVE  s[i] \in S /\ rank[s[i]] = i - 1
  <2>1. i - 1 \in 0 .. (n - 1)
    BY <1>1
  <2>2. PICK x \in S : rank[x] = i - 1
    BY <1>8, <2>1 DEF Surjection
  <2>3. s[i] = CHOOSE y \in S : Cardinality(Under(y)) = i - 1
    BY DEF Ordered, Under
  <2>4. Cardinality(Under(x)) = i - 1
    BY <2>2
  <2>5. QED
    BY <2>3, <2>4
<1>10. s \in Seq(S) /\ DOMAIN s = 1 .. n
  <2>1. DOMAIN s = 1 .. n /\ s = [i \in 1 .. n |-> CHOOSE y \in S : Cardinality(Under(y)) = i - 1]
    BY DEF Ordered, Under
  <2>2. s \in [1 .. n -> S]
    <3>1. \A i \in 1 .. n : (CHOOSE y \in S : Cardinality(Under(y)) = i - 1) \in S
      BY <1>9, <2>1
    <3> HIDE DEF s
    <3>2. QED
      BY <2>1, <3>1
  <2>3. DOMAIN s = 1 .. n
    BY <2>1
  <2> HIDE DEF s, n
  <2>4. s \in Seq(S)
    BY <1>1, <2>2
  <2>5. QED
    BY <2>3, <2>4
<1> HIDE DEF s, rank
<1>11. ASSUME NEW x \in S
       PROVE  \E i \in DOMAIN s : s[i] = x
  <2>1. rank[x] \in 0 .. (n - 1)
    BY <1>4
  <2>2. rank[x] + 1 \in 1 .. n /\ (rank[x] + 1) - 1 = rank[x]
    BY <1>1, <2>1
  <2>3. QED
    BY <1>5, <1>9, <1>10, <2>2
<1>12. ASSUME NEW i \in 1 .. n, NEW j \in 1 .. n, i < j
       PROVE  <<s[i], s[j]>> \in before /\ <<s[j], s[i]>> \notin before
  <2>1. s[i] \in S /\ s[j] \in S /\ rank[s[i]] < rank[s[j]]
    <3>1. rank[s[i]] = i - 1 /\ rank[s[j]] = j - 1 /\ i - 1 < j - 1
      BY <1>9, <1>12
    <3>2. QED
      BY <1>9, <3>1
  <2>2. <<s[j], s[i]>> \notin before
    <3>1. <<s[j], s[i]>> \in before => rank[s[j]] < rank[s[i]]
      BY <1>3, <2>1 DEF rank
    <3>2. rank[s[i]] \in Nat /\ rank[s[j]] \in Nat
      BY <1>4, <2>1
    <3>3. QED
      BY <2>1, <3>1, <3>2
  <2>3. s[i] # s[j]
    <3>1. rank[s[i]] = i - 1 /\ rank[s[j]] = j - 1
      BY <1>9
    <3>2. QED
      BY <1>12, <3>1
  <2>4. QED
    BY <2>1, <2>2, <2>3
<1>13. QED
  BY <1>10, <1>11, <1>12 DEF Sorted, s

-----------------------------------------------------------------------------
(* Paths                                                                   *)

Path == Seq(Nat)

\* A prefix agrees with the path as far as it goes.
LEMMA PrefixIs ==
  \A p, q \in Path : IsPrefix(p, q) <=> Len(p) <= Len(q) /\ \A i \in 1 .. Len(p) : p[i] = q[i]
<1>1. SUFFICES ASSUME NEW p \in Path, NEW q \in Path
               PROVE  IsPrefix(p, q) <=> Len(p) <= Len(q) /\ \A i \in 1 .. Len(p) : p[i] = q[i]
  OBVIOUS
<1>2. ASSUME Len(p) <= Len(q)
      PROVE  /\ SubSeq(p, 1, Len(p)) = [i \in 1 .. Len(p) |-> p[i]]
             /\ SubSeq(q, 1, Len(p)) = [i \in 1 .. Len(p) |-> q[i]]
  BY <1>2 DEF Path
<1>3. QED
  BY <1>2 DEF IsPrefix, Path

LEMMA PathLen == \A p \in Path : Len(p) \in Nat /\ (Len(p) = 0 <=> p = <<>>)
  BY DEF Path

\* Prefixes are a partial order, and those of one path are a chain.
LEMMA PrefixOrder ==
  /\ \A p \in Path : IsPrefix(p, p) /\ IsPrefix(<<>>, p)
  /\ \A p, q \in Path : IsPrefix(p, q) => Len(p) <= Len(q) /\ (Len(p) = Len(q) => p = q)
  /\ \A p, q, r \in Path : IsPrefix(p, q) /\ IsPrefix(q, r) => IsPrefix(p, r)
  /\ \A p, q, r \in Path : IsPrefix(p, r) /\ IsPrefix(q, r) /\ Len(p) <= Len(q) => IsPrefix(p, q)
<1>1. \A p \in Path : IsPrefix(p, p) /\ IsPrefix(<<>>, p)
  <2>1. <<>> \in Path /\ Len(<<>>) = 0
    BY DEF Path
  <2>2. QED
    BY <2>1, PrefixIs, PathLen
<1>2. ASSUME NEW p \in Path, NEW q \in Path, IsPrefix(p, q)
      PROVE  Len(p) <= Len(q) /\ (Len(p) = Len(q) => p = q)
  <2>1. Len(p) <= Len(q) /\ \A i \in 1 .. Len(p) : p[i] = q[i]
    BY <1>2, PrefixIs
  <2>2. QED
    BY <2>1 DEF Path
<1>3. ASSUME NEW p \in Path, NEW q \in Path, NEW r \in Path, IsPrefix(p, q), IsPrefix(q, r)
      PROVE  IsPrefix(p, r)
  <2>1. /\ Len(p) <= Len(q) /\ \A i \in 1 .. Len(p) : p[i] = q[i]
        /\ Len(q) <= Len(r) /\ \A i \in 1 .. Len(q) : q[i] = r[i]
    BY <1>3, PrefixIs
  <2>2. Len(p) \in Nat /\ Len(q) \in Nat /\ Len(r) \in Nat
    BY PathLen
  <2>3. Len(p) <= Len(r) /\ \A i \in 1 .. Len(p) : p[i] = r[i]
    BY <2>1, <2>2
  <2>4. QED
    BY <2>3, PrefixIs
<1>4. ASSUME NEW p \in Path, NEW q \in Path, NEW r \in Path, IsPrefix(p, r), IsPrefix(q, r),
             Len(p) <= Len(q)
      PROVE  IsPrefix(p, q)
  <2>1. /\ \A i \in 1 .. Len(p) : p[i] = r[i]
        /\ \A i \in 1 .. Len(q) : q[i] = r[i]
    BY <1>4, PrefixIs
  <2>2. Len(p) \in Nat /\ Len(q) \in Nat
    BY PathLen
  <2>3. \A i \in 1 .. Len(p) : p[i] = q[i]
    BY <1>4, <2>1, <2>2
  <2>4. QED
    BY <1>4, <2>3, PrefixIs
<1>5. QED
  BY <1>1, <1>2, <1>3, <1>4

\* A strict prefix is a shorter one.
LEMMA StrictIs ==
  \A p, q \in Path : IsStrictPrefix(p, q) <=> IsPrefix(p, q) /\ Len(p) < Len(q)
  BY PrefixOrder, PathLen DEF IsStrictPrefix

\* The prefix of a length.
LEMMA CutIs ==
  ASSUME NEW q \in Path, NEW n \in 0 .. Len(q)
  PROVE  /\ SubSeq(q, 1, n) \in Path /\ Len(SubSeq(q, 1, n)) = n
         /\ IsPrefix(SubSeq(q, 1, n), q)
         /\ \A p \in Path : IsPrefix(p, q) /\ Len(p) = n => p = SubSeq(q, 1, n)
<1> DEFINE c == SubSeq(q, 1, n)
<1>1. c \in Path /\ Len(c) = n /\ \A i \in 1 .. n : c[i] = q[i]
  BY DEF Path
<1>2. n <= Len(q) /\ n \in Nat
  BY PathLen
<1> HIDE DEF c
<1>3. IsPrefix(c, q)
  BY <1>1, <1>2, PrefixIs
<1>4. \A p \in Path : IsPrefix(p, q) /\ Len(p) = n => p = c
  BY <1>1, <1>2, <1>3, PrefixOrder
<1>5. QED
  BY <1>1, <1>3, <1>4 DEF c

-----------------------------------------------------------------------------
(* The trie of the keys                                                    *)

\* Finitely many keys, none of them empty.
Good(ks) == ks \subseteq Path \ {<<>>} /\ IsFiniteSet(ks)

\* A node is a prefix of a key, and so is what is above it.
LEMMA NodesAre ==
  ASSUME NEW ks, Good(ks)
  PROVE  /\ \A q : q \in Nodes(ks) <=> q \in Path /\ q # <<>> /\ \E k \in ks : IsPrefix(q, k)
         /\ ks \subseteq Nodes(ks)
         /\ \A p \in Path : \A q \in Nodes(ks) : p # <<>> /\ IsPrefix(p, q) => p \in Nodes(ks)
<1>1. \A k \in ks : k \in Path /\ k # <<>> /\ Len(k) \in Nat
  BY PathLen DEF Good
<1>2. ASSUME NEW q, q \in Nodes(ks)
      PROVE  q \in Path /\ q # <<>> /\ \E k \in ks : IsPrefix(q, k)
  <2>1. PICK k \in ks : \E n \in 1 .. Len(k) : q = SubSeq(k, 1, n)
    BY <1>2 DEF Nodes
  <2>2. PICK n \in 1 .. Len(k) : q = SubSeq(k, 1, n)
    BY <2>1
  <2>3. n \in 0 .. Len(k) /\ n # 0
    BY <1>1
  <2>4. q \in Path /\ Len(q) = n /\ IsPrefix(q, k)
    BY <1>1, <2>2, <2>3, CutIs
  <2>5. QED
    BY <2>3, <2>4, PathLen
<1>3. ASSUME NEW q \in Path, q # <<>>, NEW k \in ks, IsPrefix(q, k)
      PROVE  q \in Nodes(ks)
  <2>1. Len(q) \in 1 .. Len(k)
    BY <1>1, <1>3, PathLen, PrefixOrder
  <2>2. Len(q) \in 0 .. Len(k)
    BY <2>1
  <2>3. q = SubSeq(k, 1, Len(q))
    BY <1>1, <1>3, <2>2, CutIs
  <2>4. q \in {SubSeq(k, 1, n) : n \in 1 .. Len(k)}
    BY <2>1, <2>3
  <2>5. QED
    BY <2>4 DEF Nodes
<1>4. \A q : q \in Nodes(ks) <=> q \in Path /\ q # <<>> /\ \E k \in ks : IsPrefix(q, k)
  BY <1>2, <1>3
<1>5. ks \subseteq Nodes(ks)
  BY <1>1, <1>4, PrefixOrder
<1>6. ASSUME NEW p \in Path, NEW q \in Nodes(ks), p # <<>>, IsPrefix(p, q)
      PROVE  p \in Nodes(ks)
  <2>1. PICK k \in ks : IsPrefix(q, k)
    BY <1>4
  <2>2. IsPrefix(p, k)
    BY <1>1, <1>4, <1>6, <2>1, PrefixOrder
  <2>3. QED
    BY <1>4, <1>6, <2>2
<1>7. QED
  BY <1>4, <1>5, <1>6

\* The longest key bounds the depth of the tree.
LEMMA DepthBounded ==
  ASSUME NEW ks, Good(ks)
  PROVE  \E m \in Nat : \A q \in Places(ks) : q \in Path /\ Len(q) \in 0 .. m
<1>1. \A k \in ks : k \in Path /\ Len(k) \in Nat
  BY PathLen DEF Good
<1>2. Cardinality(ks) \in Nat /\ ExistsBijection(1 .. Cardinality(ks), ks)
  BY FS_CardinalityType DEF Good
<1>3. PICK f \in Bijection(1 .. Cardinality(ks), ks) : TRUE
  BY <1>2 DEF ExistsBijection
<1>4. /\ \A i \in 1 .. Cardinality(ks) : f[i] \in ks
      /\ \A k \in ks : \E i \in 1 .. Cardinality(ks) : f[i] = k
  BY <1>3 DEF Bijection, Injection, Surjection
<1> DEFINE S == {n \in Nat : \E m \in Nat : \A i \in 1 .. Cardinality(ks) : i <= n => Len(f[i]) <= m}
<1>5. 0 \in S
  OBVIOUS
<1>6. ASSUME NEW n \in Nat, n \in S PROVE n + 1 \in S
  <2>1. PICK m \in Nat : \A i \in 1 .. Cardinality(ks) : i <= n => Len(f[i]) <= m
    BY <1>6
  <2>2. CASE n + 1 \notin 1 .. Cardinality(ks)
    <3>1. \A i \in 1 .. Cardinality(ks) : i <= n + 1 => i <= n
      BY <1>2, <2>2
    <3>2. QED
      BY <2>1, <3>1
  <2>3. CASE n + 1 \in 1 .. Cardinality(ks)
    <3>1. Len(f[n + 1]) \in Nat
      BY <1>1, <1>4, <2>3
    <3>2. PICK b \in Nat : m <= b /\ Len(f[n + 1]) <= b
      BY <3>1
    <3>3. ASSUME NEW i \in 1 .. Cardinality(ks), i <= n + 1
          PROVE  Len(f[i]) <= b
      <4>1. Len(f[i]) \in Nat
        BY <1>1, <1>4
      <4>2. i = n + 1 \/ i <= n
        BY <3>3
      <4>3. QED
        BY <2>1, <3>2, <4>1, <4>2
    <3>4. QED
      BY <3>3
  <2>4. QED
    BY <2>2, <2>3
<1>7. Cardinality(ks) \in S
  <2> HIDE DEF S
  <2>1. QED
    BY <1>2, <1>5, <1>6, Induction
<1>8. PICK m \in Nat : \A i \in 1 .. Cardinality(ks) : i <= Cardinality(ks) => Len(f[i]) <= m
  BY <1>7
<1>9. \A k \in ks : Len(k) <= m
  <2>1. \A i \in 1 .. Cardinality(ks) : i <= Cardinality(ks)
    BY <1>2
  <2>2. QED
    BY <1>4, <1>8, <2>1
<1>10. ASSUME NEW q \in Nodes(ks)
       PROVE  q \in Path /\ Len(q) \in 0 .. m
  <2>1. q \in Path /\ \E k \in ks : IsPrefix(q, k)
    BY NodesAre
  <2>2. PICK k \in ks : IsPrefix(q, k)
    BY <2>1
  <2>3. Len(q) <= Len(k) /\ Len(k) <= m /\ Len(k) \in Nat /\ Len(q) \in Nat
    BY <1>1, <1>9, <2>1, <2>2, PrefixOrder, PathLen
  <2>4. QED
    BY <2>1, <2>3
<1>11. <<>> \in Path /\ Len(<<>>) \in 0 .. m
  BY DEF Path
<1>12. QED
  BY <1>10, <1>11 DEF Places

\* A child is its parent's path and one segment more.
LEMMA ChildrenAre ==
  ASSUME NEW ks, Good(ks), NEW p \in Path, NEW c \in Children(ks, p)
  PROVE  /\ c \in Nodes(ks) /\ c \in Path /\ Len(c) = Len(p) + 1
         /\ IsPrefix(p, c) /\ IsStrictPrefix(p, c)
         /\ Last(c) \in Nat /\ c = Append(p, Last(c))
<1>1. c \in Nodes(ks) /\ c \in Path /\ Len(c) = Len(p) + 1 /\ IsPrefix(p, c)
  BY NodesAre DEF Children
<1>2. Len(p) \in Nat /\ IsStrictPrefix(p, c)
  BY <1>1, PathLen, StrictIs
<1>3. Last(c) = c[Len(p) + 1] /\ Last(c) \in Nat
  <2>1. Len(p) + 1 \in DOMAIN c
    BY <1>1, <1>2 DEF Path
  <2>2. QED
    BY <1>1, <2>1 DEF Last, Path
<1>4. c = Append(p, Last(c))
  <2>1. \A i \in 1 .. Len(p) : p[i] = c[i]
    BY <1>1, PrefixIs
  <2>2. QED
    BY <1>1, <1>2, <1>3, <2>1 DEF Path
<1>5. QED
  BY <1>1, <1>2, <1>3, <1>4

\* Below a place, each node is at or below one child of it.
LEMMA ChildToward ==
  ASSUME NEW ks, Good(ks), NEW p \in Path, NEW q \in Nodes(ks), IsStrictPrefix(p, q)
  PROVE  \E c \in Children(ks, p) :
           IsPrefix(c, q) /\ \A d \in Children(ks, p) : IsPrefix(d, q) => d = c
<1>1. q \in Path /\ IsPrefix(p, q) /\ Len(p) < Len(q) /\ Len(p) \in Nat /\ Len(q) \in Nat
  BY NodesAre, StrictIs, PathLen
<1> DEFINE n == Len(p) + 1
           c == SubSeq(q, 1, n)
<1>2. n \in 0 .. Len(q) /\ n # 0
  BY <1>1
<1>3. /\ c \in Path /\ Len(c) = n /\ IsPrefix(c, q)
      /\ \A d \in Path : IsPrefix(d, q) /\ Len(d) = n => d = c
  <2> HIDE DEF n
  <2>1. QED
    BY <1>1, <1>2, CutIs
<1> HIDE DEF c
<1>4. c # <<>> /\ IsPrefix(p, c)
  BY <1>1, <1>2, <1>3, PathLen, PrefixOrder
<1>5. c \in Children(ks, p)
  BY <1>3, <1>4, NodesAre DEF Children
<1>6. QED
  BY <1>3, <1>5, ChildrenAre

\* No more children than keys; a single one is all there is.
LEMMA ChildrenFinite ==
  ASSUME NEW ks, Good(ks), NEW p \in Path
  PROVE  /\ IsFiniteSet(Children(ks, p))
         /\ Cardinality(Children(ks, p)) = 1 <=> \E c : Children(ks, p) = {c}
<1> DEFINE n == Len(p) + 1
           K == {k \in ks : \E c \in Children(ks, p) : IsPrefix(c, k)}
           f == [k \in K |-> SubSeq(k, 1, n)]
<1>1. IsFiniteSet(K)
  BY FS_Subset DEF Good
<1>2. ASSUME NEW k \in K, NEW c \in Children(ks, p), IsPrefix(c, k)
      PROVE  SubSeq(k, 1, n) = c
  <2>1. c \in Path /\ k \in Path /\ Len(c) = n
    BY ChildrenAre DEF Good
  <2>2. Len(c) \in 0 .. Len(k)
    BY <1>2, <2>1, PrefixOrder, PathLen
  <2> HIDE DEF n
  <2>3. QED
    BY <1>2, <2>1, <2>2, CutIs
<1>3. f \in Surjection(K, Children(ks, p))
  <2>1. \A k \in K : f[k] \in Children(ks, p)
    BY <1>2
  <2>2. ASSUME NEW c \in Children(ks, p) PROVE \E k \in K : f[k] = c
    <3>1. c \in Nodes(ks)
      BY ChildrenAre
    <3>2. PICK k \in ks : IsPrefix(c, k)
      BY <3>1, NodesAre
    <3>3. k \in K
      BY <3>2
    <3>4. QED
      BY <1>2, <3>2, <3>3
  <2>3. f \in [K -> Children(ks, p)]
    BY <2>1
  <2> HIDE DEF f, K
  <2>4. QED
    BY <2>2, <2>3 DEF Surjection
<1>4. IsFiniteSet(Children(ks, p))
  <2> HIDE DEF f, K
  <2>1. QED
    BY <1>1, <1>3, FS_Surjection
<1>5. QED
  BY <1>4, FS_Singleton

-----------------------------------------------------------------------------
(* The fold of a chain                                                     *)

\* A node without a row, and the child the fold goes on to.
Passed(ks, q) == q \notin ks /\ Cardinality(Children(ks, q)) = 1
Only(ks, q)   == CHOOSE c \in Children(ks, q) : TRUE

\* r is the row nearest at or below q.
Nearest(ks, q, r) ==
  /\ r \in RowNodes(ks) /\ IsPrefix(q, r)
  /\ \A s \in RowNodes(ks) : IsPrefix(q, s) => IsPrefix(r, s)

LEMMA RowNodesAre ==
  ASSUME NEW ks, Good(ks)
  PROVE  /\ \A q : q \in RowNodes(ks) <=> q \in Nodes(ks) /\ ~Passed(ks, q)
         /\ \A q \in RowNodes(ks) : q \in Path
         /\ ks \subseteq RowNodes(ks)
  BY NodesAre DEF RowNodes, Passed

LEMMA OnlyIs ==
  ASSUME NEW ks, Good(ks), NEW q \in Nodes(ks), Passed(ks, q)
  PROVE  Children(ks, q) = {Only(ks, q)} /\ Only(ks, q) \in Nodes(ks) /\ Len(Only(ks, q)) = Len(q) + 1
<1>1. q \in Path
  BY NodesAre
<1>2. PICK c : Children(ks, q) = {c}
  BY <1>1, ChildrenFinite DEF Passed
<1>3. Only(ks, q) = c
  BY <1>2 DEF Only
<1>4. QED
  BY <1>1, <1>2, <1>3, ChildrenAre

\* What is true at the leaves and passes from the deeper nodes to a node is true of all.
LEMMA FromTheLeaves ==
  ASSUME NEW ks, Good(ks), NEW S,
         \A p \in Places(ks) : (\A q \in Places(ks) : Len(p) < Len(q) => q \in S) => p \in S
  PROVE  Places(ks) \subseteq S
<1>1. PICK m \in Nat : \A q \in Places(ks) : q \in Path /\ Len(q) \in 0 .. m
  BY DepthBounded
<1> DEFINE T == {n \in Nat : \A p \in Places(ks) : m - Len(p) < n => p \in S}
<1>2. 0 \in T
  <2>1. \A p \in Places(ks) : ~(m - Len(p) < 0)
    BY <1>1
  <2>2. QED
    BY <2>1
<1>3. ASSUME NEW n \in Nat, n \in T PROVE n + 1 \in T
  <2>1. ASSUME NEW p \in Places(ks), m - Len(p) < n + 1 PROVE p \in S
    <3>1. ASSUME NEW q \in Places(ks), Len(p) < Len(q) PROVE q \in S
      <4>1. m - Len(q) < n
        <5>1. Len(p) \in 0 .. m /\ Len(q) \in 0 .. m
          BY <1>1
        <5>2. QED
          BY <2>1, <3>1, <5>1
      <4>2. QED
        BY <1>3, <4>1
    <3>2. QED
      BY <3>1
  <2>2. QED
    BY <2>1
<1>4. m + 1 \in T
  <2> HIDE DEF T
  <2>1. QED
    BY <1>2, <1>3, Induction
<1>5. \A p \in Places(ks) : m - Len(p) < m + 1
  BY <1>1
<1>6. QED
  BY <1>4, <1>5

\* Phi gives a function's value at a place from its values deeper down.
Deepens(P, V, Phi) ==
  /\ Phi \in [[P -> V] -> [P -> V]]
  /\ \A g, h \in [P -> V] : \A x \in P :
       (\A y \in P : Len(x) < Len(y) => g[y] = h[y]) => Phi[g][x] = Phi[h][x]

LEMMA RecursionDown ==
  ASSUME NEW ks, Good(ks), NEW P, P \subseteq Places(ks), NEW V, [P -> V] # {},
         NEW Phi, Deepens(P, V, Phi)
  PROVE  \E g \in [P -> V] : g = Phi[g]
<1>1. PICK m \in Nat : \A q \in Places(ks) : q \in Path /\ Len(q) \in 0 .. m
  BY DepthBounded
<1> DEFINE size == [x \in P |-> m - Len(x)]
<1>2. size \in [P -> Nat] /\ (\A x \in P : size[x] <= m)
  BY <1>1
<1>3. \A x, y \in P : Len(x) < Len(y) => size[y] < size[x]
  BY <1>1
<1> HIDE DEF size
<1>4. Descends(P, V, size, Phi)
  BY <1>3 DEF Descends, Deepens
<1>5. QED
  BY <1>2, <1>4, Recursion

\* The fold stops at the nearest row.
LEMMA FoldedIs ==
  ASSUME NEW ks, Good(ks), NEW c \in Nodes(ks)
  PROVE  Nearest(ks, c, Folded(ks, c))
<1> DEFINE N == Nodes(ks)
           Phi == [g \in [N -> N] |-> [q \in N |-> IF Passed(ks, q) THEN g[Only(ks, q)] ELSE q]]
           F(g) == [q \in N |-> IF Passed(ks, q) THEN g[Only(ks, q)] ELSE q]
           fold == CHOOSE g : g = F(g)
<1>1. \A q \in N : Passed(ks, q) => Only(ks, q) \in N /\ Len(q) < Len(Only(ks, q))
  <2>1. \A q \in N : Len(q) \in Nat
    BY NodesAre, PathLen
  <2>2. QED
    BY <2>1, OnlyIs
<1>2. Deepens(N, N, Phi)
  BY <1>1 DEF Deepens
<1>3. \A g \in [N -> N] : Phi[g] = F(g)
  OBVIOUS
<1>4. [N -> N] # {} /\ N \subseteq Places(ks)
  <2>1. [q \in N |-> q] \in [N -> N]
    OBVIOUS
  <2>2. QED
    BY <2>1 DEF Places
<1>5. \E g : g = F(g)
  <2> HIDE DEF Phi, F, N
  <2>1. \E g \in [N -> N] : g = Phi[g]
    BY <1>2, <1>4, RecursionDown
  <2>2. QED
    BY <1>3, <2>1
<1>6. fold = F(fold)
  <2> HIDE DEF F
  <2>1. QED
    BY <1>5
<1>7. Folded(ks, c) = fold[c]
  BY DEF Folded, Passed, Only
<1> HIDE DEF fold
<1>8. \A q \in N : fold[q] = IF Passed(ks, q) THEN fold[Only(ks, q)] ELSE q
  BY <1>6
<1> DEFINE S == {p \in Places(ks) : p \in N => Nearest(ks, p, fold[p])}
<1>9. ASSUME NEW p \in N, \A q \in Places(ks) : Len(p) < Len(q) => q \in S
      PROVE  Nearest(ks, p, fold[p])
  <2>1. p \in Path
    BY NodesAre
  <2>2. CASE ~Passed(ks, p)
    <3>1. fold[p] = p /\ p \in RowNodes(ks)
      BY <1>8, <2>2, RowNodesAre
    <3>2. QED
      BY <2>1, <3>1, PrefixOrder DEF Nearest
  <2>3. CASE Passed(ks, p)
    <3> DEFINE d == Only(ks, p)
    <3>1. d \in N /\ fold[p] = fold[d] /\ Children(ks, p) = {d}
      BY <1>8, <2>3, OnlyIs
    <3>2. IsPrefix(p, d) /\ d \in Path
      BY <2>1, <3>1, ChildrenAre
    <3>3. Nearest(ks, d, fold[d])
      <4>1. d \in Places(ks) /\ Len(p) < Len(d)
        BY <1>1, <2>3, <3>1 DEF Places
      <4>2. QED
        BY <1>9, <3>1, <4>1
    <3> HIDE DEF d
    <3>4. \A s \in RowNodes(ks) : IsPrefix(p, s) => IsPrefix(d, s)
      <4>1. SUFFICES ASSUME NEW s \in RowNodes(ks), IsPrefix(p, s) PROVE IsPrefix(d, s)
        OBVIOUS
      <4>2. s \in N /\ s # p
        BY <2>3, RowNodesAre
      <4>3. PICK e \in Children(ks, p) : IsPrefix(e, s)
        BY <2>1, <4>1, <4>2, ChildToward DEF IsStrictPrefix
      <4>4. QED
        BY <3>1, <4>3
    <3>5. fold[d] \in Path
      BY <3>3, RowNodesAre DEF Nearest
    <3>6. IsPrefix(p, fold[d])
      BY <2>1, <3>2, <3>3, <3>5, PrefixOrder DEF Nearest
    <3>7. QED
      BY <3>1, <3>3, <3>4, <3>6 DEF Nearest
  <2>4. QED
    BY <2>2, <2>3
<1>10. Places(ks) \subseteq S
  <2>1. \A p \in Places(ks) : (\A q \in Places(ks) : Len(p) < Len(q) => q \in S) => p \in S
    BY <1>9
  <2> HIDE DEF S
  <2>2. QED
    BY <2>1, FromTheLeaves
<1>11. QED
  BY <1>7, <1>10 DEF Places

-----------------------------------------------------------------------------
(* The order of a node's children                                          *)

SegmentLess(nodes) == {pq \in nodes \X nodes : Last(pq[1]) < Last(pq[2])}

\* The children are listed once each by their segments.
LEMMA InOrderIs ==
  ASSUME NEW ks, Good(ks), NEW p \in Path, NEW nodes \in SUBSET Children(ks, p)
  PROVE  /\ InOrder(nodes) \in Seq(nodes)
         /\ \A c \in nodes : \E i \in DOMAIN InOrder(nodes) : InOrder(nodes)[i] = c
         /\ \A i, j \in DOMAIN InOrder(nodes) : i < j => Last(InOrder(nodes)[i]) < Last(InOrder(nodes)[j])
<1> DEFINE less == SegmentLess(nodes)
<1>1. IsFiniteSet(nodes)
  BY ChildrenFinite, FS_Subset
<1>2. \A c \in nodes : Last(c) \in Nat /\ c = Append(p, Last(c))
  BY ChildrenAre
<1>3. \A c, d : <<c, d>> \in less <=> c \in nodes /\ d \in nodes /\ Last(c) < Last(d)
  BY DEF SegmentLess
<1> HIDE DEF less
<1>4. \A c \in nodes : <<c, c>> \notin less
  BY <1>2, <1>3
<1>5. \A c, d, e \in nodes : <<c, d>> \in less /\ <<d, e>> \in less => <<c, e>> \in less
  <2>1. SUFFICES ASSUME NEW c \in nodes, NEW d \in nodes, NEW e \in nodes,
                        <<c, d>> \in less, <<d, e>> \in less
                 PROVE  <<c, e>> \in less
    OBVIOUS
  <2>2. Last(c) < Last(d) /\ Last(d) < Last(e)
    BY <1>3, <2>1
  <2>3. Last(c) \in Nat /\ Last(d) \in Nat /\ Last(e) \in Nat
    BY <1>2
  <2>4. Last(c) < Last(e)
    BY <2>2, <2>3
  <2>5. QED
    BY <1>3, <2>4
<1>6. \A c, d \in nodes : c = d \/ <<c, d>> \in less \/ <<d, c>> \in less
  <2>1. SUFFICES ASSUME NEW c \in nodes, NEW d \in nodes, c # d
                 PROVE  <<c, d>> \in less \/ <<d, c>> \in less
    OBVIOUS
  <2>2. Last(c) # Last(d)
    BY <1>2, <2>1
  <2>3. Last(c) < Last(d) \/ Last(d) < Last(c)
    <3>1. Last(c) \in Nat /\ Last(d) \in Nat
      BY <1>2
    <3>2. QED
      BY <2>2, <3>1
  <2>4. QED
    BY <1>3, <2>3
<1>7. Sorted(Ordered(nodes, less), nodes, less)
  BY <1>1, <1>4, <1>5, <1>6, OrderedSorts
<1>8. InOrder(nodes) = Ordered(nodes, less)
  BY DEF InOrder, less, SegmentLess
<1>9. QED
  BY <1>3, <1>7, <1>8 DEF Sorted

\* What walk's partition says of two children: branches first, then by segment.
Precedes(ks, c, d) ==
  LET b(x) == IsBranch(ks, Folded(ks, x))
  IN  (b(c) /\ ~b(d)) \/ ((b(c) <=> b(d)) /\ Last(c) < Last(d))

\* All children are listed, and in this order.
LEMMA ListedIs ==
  ASSUME NEW ks, Good(ks), NEW p \in Path
  PROVE  /\ Listed(ks, p) \in Seq(Children(ks, p))
         /\ \A c \in Children(ks, p) : \E i \in DOMAIN Listed(ks, p) : Listed(ks, p)[i] = c
         /\ \A i, j \in DOMAIN Listed(ks, p) :
              i < j => Precedes(ks, Listed(ks, p)[i], Listed(ks, p)[j])
<1> DEFINE C == Children(ks, p)
           B == {c \in C : IsBranch(ks, Folded(ks, c))}
           L == {c \in C : ~IsBranch(ks, Folded(ks, c))}
           s == InOrder(B)
           t == InOrder(L)
           n == Len(s)
<1>1. /\ s \in Seq(B) /\ (\A c \in B : \E i \in DOMAIN s : s[i] = c)
      /\ \A i, j \in DOMAIN s : i < j => Last(s[i]) < Last(s[j])
  <2>1. B \in SUBSET C
    OBVIOUS
  <2> HIDE DEF B
  <2>2. QED
    BY <2>1, InOrderIs
<1>2. /\ t \in Seq(L) /\ (\A c \in L : \E i \in DOMAIN t : t[i] = c)
      /\ \A i, j \in DOMAIN t : i < j => Last(t[i]) < Last(t[j])
  <2>1. L \in SUBSET C
    OBVIOUS
  <2> HIDE DEF L
  <2>2. QED
    BY <2>1, InOrderIs
<1>3. Listed(ks, p) = s \o t
  BY DEF Listed
<1> HIDE DEF s, t
<1> DEFINE l == s \o t
<1>4. s \in Seq(C) /\ t \in Seq(C)
  BY <1>1, <1>2
<1>5. /\ l \in Seq(C) /\ n \in Nat
      /\ DOMAIN s = 1 .. n /\ DOMAIN t = 1 .. Len(t) /\ DOMAIN l = 1 .. n + Len(t) /\ Len(t) \in Nat
      /\ \A i \in DOMAIN s : i \in DOMAIN l /\ l[i] = s[i]
      /\ \A i \in DOMAIN t : n + i \in DOMAIN l /\ l[n + i] = t[i]
  <2> HIDE DEF C
  <2>1. QED
    BY <1>4
<1>6. \A i \in DOMAIN l : i \in DOMAIN s \/ (i - n \in DOMAIN t /\ l[i] = t[i - n])
  <2>1. SUFFICES ASSUME NEW i \in DOMAIN l, i \notin DOMAIN s
                 PROVE  i - n \in DOMAIN t /\ l[i] = t[i - n]
    OBVIOUS
  <2>2. i \in Nat /\ i - n \in 1 .. Len(t) /\ n + (i - n) = i
    BY <1>5, <2>1
  <2>3. QED
    BY <1>5, <2>2
<1>7. /\ \A i \in DOMAIN s : IsBranch(ks, Folded(ks, s[i]))
      /\ \A i \in DOMAIN t : ~IsBranch(ks, Folded(ks, t[i]))
  <2>1. \A i \in DOMAIN s : s[i] \in B
    BY <1>1
  <2>2. \A i \in DOMAIN t : t[i] \in L
    BY <1>2
  <2>3. QED
    BY <2>1, <2>2
<1>8. ASSUME NEW c \in C PROVE \E i \in DOMAIN l : l[i] = c
  <2>1. CASE c \in B
    <3>1. PICK i \in DOMAIN s : s[i] = c
      BY <1>1, <2>1
    <3>2. QED
      BY <1>5, <3>1
  <2>2. CASE c \in L
    <3>1. PICK i \in DOMAIN t : t[i] = c
      BY <1>2, <2>2
    <3>2. QED
      BY <1>5, <3>1
  <2>3. QED
    BY <2>1, <2>2
<1> HIDE DEF l, B, L
<1>9. ASSUME NEW i \in DOMAIN l, NEW j \in DOMAIN l, i < j
      PROVE  Precedes(ks, l[i], l[j])
  <2>1. CASE j \in DOMAIN s
    <3>1. i \in DOMAIN s
      BY <1>5, <1>9, <2>1
    <3>2. Last(l[i]) < Last(l[j]) /\ l[i] = s[i] /\ l[j] = s[j]
      BY <1>1, <1>5, <1>9, <2>1, <3>1
    <3>3. QED
      BY <1>7, <2>1, <3>1, <3>2 DEF Precedes
  <2>2. CASE j \notin DOMAIN s /\ i \in DOMAIN s
    <3>1. j - n \in DOMAIN t /\ l[j] = t[j - n] /\ l[i] = s[i]
      BY <1>5, <1>6, <2>2
    <3>2. QED
      BY <1>7, <2>2, <3>1 DEF Precedes
  <2>3. CASE j \notin DOMAIN s /\ i \notin DOMAIN s
    <3>1. j - n \in DOMAIN t /\ l[j] = t[j - n] /\ i - n \in DOMAIN t /\ l[i] = t[i - n]
      BY <1>6, <2>3
    <3>2. i - n < j - n
      BY <1>5, <1>9
    <3>3. Last(l[i]) < Last(l[j])
      BY <1>2, <3>1, <3>2
    <3>4. QED
      BY <1>7, <3>1, <3>3 DEF Precedes
  <2>4. QED
    BY <2>1, <2>2, <2>3
<1>10. QED
  BY <1>3, <1>5, <1>8, <1>9 DEF l

-----------------------------------------------------------------------------
(* The recursion of the walk                                               *)

\* What rows and walk's results are made of; WalkOf is the body of the recursion.
Line == [path : Path, key : BOOLEAN, branch : BOOLEAN, open : BOOLEAN]

Lists(ks) == [Places(ks) -> [Path -> Seq(Line)]]

WalkOf(ks, open, below, n, p) ==
  FlattenSeq([i \in DOMAIN Listed(ks, n) |-> Emitted(ks, open, below, p, Listed(ks, n)[i])])

\* A child's row is deeper than its parent, so its rows are known already.
LEMMA FoldedIn ==
  ASSUME NEW ks, Good(ks), NEW p \in Path, NEW c \in Children(ks, p)
  PROVE  /\ Folded(ks, c) \in Places(ks) /\ Folded(ks, c) \in Path
         /\ Len(p) < Len(Folded(ks, c))
         /\ IsPrefix(c, Folded(ks, c))
<1>1. c \in Nodes(ks) /\ c \in Path /\ Len(c) = Len(p) + 1
  BY ChildrenAre
<1>2. Folded(ks, c) \in Nodes(ks) /\ Folded(ks, c) \in Path /\ IsPrefix(c, Folded(ks, c))
  BY <1>1, FoldedIs, RowNodesAre DEF Nearest
<1>3. QED
  BY <1>1, <1>2, PrefixOrder, PathLen DEF Places

LEMMA JoinType ==
  ASSUME NEW p \in Path, NEW n \in Nat, NEW t \in Path, NEW i \in Nat \ {0}
  PROVE  Join(p, n) \in Path /\ Join(p, n) \o SubSeq(t, i, Len(t)) \in Path
<1>1. Join(p, n) \in Path
  BY DEF Join, Path
<1>2. SubSeq(t, i, Len(t)) \in Path
  BY DEF Path
<1>3. QED
  BY <1>1, <1>2 DEF Path

LEMMA EmittedType ==
  ASSUME NEW ks, Good(ks), NEW open, NEW n \in Path, NEW p \in Path, NEW c \in Children(ks, n),
         NEW below \in Lists(ks)
  PROVE  Emitted(ks, open, below, p, c) \in Seq(Line)
<1> DEFINE t == Folded(ks, c)
           path == Join(p, Last(c)) \o SubSeq(t, Len(c) + 1, Len(t))
<1>1. t \in Places(ks) /\ t \in Path
  BY FoldedIn
<1>2. Last(c) \in Nat /\ Len(c) + 1 \in Nat \ {0}
  BY ChildrenAre, PathLen
<1>3. path \in Path
  BY <1>1, <1>2, JoinType
<1>4. below[t][path] \in Seq(Line)
  BY <1>1, <1>3 DEF Lists
<1> DEFINE opened == IsBranch(ks, t) /\ path \in open
           row == [path |-> path, key |-> t \in ks, branch |-> IsBranch(ks, t), open |-> opened]
           rest == IF opened THEN below[t][path] ELSE <<>>
<1>5. Emitted(ks, open, below, p, c) = <<row>> \o rest
  BY DEF Emitted
<1> HIDE DEF t, path
<1>6. row \in Line
  BY <1>3 DEF Line, IsBranch
<1>7. rest \in Seq(Line)
  BY <1>4
<1> HIDE DEF row, rest
<1>8. QED
  BY <1>5, <1>6, <1>7

LEMMA EmittedAgrees ==
  ASSUME NEW ks, Good(ks), NEW open, NEW n \in Path, NEW p \in Path, NEW c \in Children(ks, n),
         NEW f, NEW g, \A q \in Places(ks) : Len(n) < Len(q) => f[q] = g[q]
  PROVE  Emitted(ks, open, f, p, c) = Emitted(ks, open, g, p, c)
<1>1. f[Folded(ks, c)] = g[Folded(ks, c)]
  BY FoldedIn
<1>2. QED
  BY <1>1 DEF Emitted

LEMMA WalkOfType ==
  ASSUME NEW ks, Good(ks), NEW open, NEW n \in Path, NEW p \in Path, NEW below \in Lists(ks)
  PROVE  /\ [i \in DOMAIN Listed(ks, n) |-> Emitted(ks, open, below, p, Listed(ks, n)[i])]
              \in Seq(Seq(Line))
         /\ WalkOf(ks, open, below, n, p) \in Seq(Line)
<1> DEFINE l == Listed(ks, n)
           s == [i \in DOMAIN l |-> Emitted(ks, open, below, p, l[i])]
<1>1. l \in Seq(Children(ks, n))
  BY ListedIs
<1> HIDE DEF l
<1>2. Len(l) \in Nat /\ DOMAIN l = 1 .. Len(l) /\ \A i \in 1 .. Len(l) : l[i] \in Children(ks, n)
  BY <1>1
<1>3. \A i \in 1 .. Len(l) : Emitted(ks, open, below, p, l[i]) \in Seq(Line)
  BY <1>2, EmittedType
<1>4. s \in Seq(Seq(Line))
  BY <1>2, <1>3
<1> HIDE DEF s
<1>5. FlattenSeq(s) \in Seq(Line)
  BY <1>4, FlattenType
<1>6. QED
  BY <1>4, <1>5 DEF WalkOf, s, l

\* Walk is what walk computes: its rows of a place from its rows deeper down.
LEMMA WalkIs ==
  ASSUME NEW ks, Good(ks), NEW open
  PROVE  \E w \in Lists(ks) :
           /\ \A n \in Places(ks) : \A p \in Path : w[n][p] = WalkOf(ks, open, w, n, p)
           /\ \A n, p : Walk(ks, open, n, p) = w[n][p]
<1> DEFINE P == Places(ks)
           V == [Path -> Seq(Line)]
           F(g) == [n \in P |-> [p \in Path |-> WalkOf(ks, open, g, n, p)]]
           Phi == [g \in [P -> V] |-> F(g)]
           walk == CHOOSE g : g = F(g)
<1>1. \A n \in P : n \in Path
  BY DepthBounded
<1>2. \A g \in [P -> V] : F(g) \in [P -> V]
  BY <1>1, WalkOfType DEF Lists
<1>3. ASSUME NEW g, NEW h, NEW x \in P,
             \A y \in P : Len(x) < Len(y) => g[y] = h[y]
      PROVE  F(g)[x] = F(h)[x]
  <2>1. ASSUME NEW p \in Path PROVE WalkOf(ks, open, g, x, p) = WalkOf(ks, open, h, x, p)
    <3> DEFINE l == Listed(ks, x)
    <3>1. l \in Seq(Children(ks, x)) /\ x \in Path
      BY <1>1, ListedIs
    <3> HIDE DEF l
    <3>2. \A i \in DOMAIN l : l[i] \in Children(ks, x)
      BY <3>1
    <3>3. \A i \in DOMAIN l : Emitted(ks, open, g, p, l[i]) = Emitted(ks, open, h, p, l[i])
      BY <1>3, <3>1, <3>2, EmittedAgrees
    <3>4. [i \in DOMAIN l |-> Emitted(ks, open, g, p, l[i])] = [i \in DOMAIN l |-> Emitted(ks, open, h, p, l[i])]
      BY <3>3
    <3>5. QED
      BY <3>4 DEF WalkOf, l
  <2>2. QED
    BY <2>1
<1>4. Deepens(P, V, Phi)
  <2>1. Phi \in [[P -> V] -> [P -> V]]
    BY <1>2
  <2>2. \A g \in [P -> V] : Phi[g] = F(g)
    OBVIOUS
  <2> HIDE DEF Phi, F, P, V
  <2>3. \A g, h \in [P -> V] : \A x \in P :
          (\A y \in P : Len(x) < Len(y) => g[y] = h[y]) => Phi[g][x] = Phi[h][x]
    <3>1. SUFFICES ASSUME NEW g \in [P -> V], NEW h \in [P -> V], NEW x \in P,
                          \A y \in P : Len(x) < Len(y) => g[y] = h[y]
                   PROVE  Phi[g][x] = Phi[h][x]
      OBVIOUS
    <3>2. F(g)[x] = F(h)[x]
      BY <1>3, <3>1
    <3>3. Phi[g] = F(g) /\ Phi[h] = F(h)
      BY <2>2
    <3>4. QED
      BY <3>2, <3>3
  <2>4. QED
    BY <2>1, <2>3 DEF Deepens
<1>5. [P -> V] # {}
  <2>1. [n \in P |-> [p \in Path |-> <<>>]] \in [P -> V]
    OBVIOUS
  <2>2. QED
    BY <2>1
<1>6. PICK g \in [P -> V] : g = F(g)
  <2>1. \A g \in [P -> V] : Phi[g] = F(g)
    OBVIOUS
  <2> HIDE DEF Phi, F, V
  <2>2. PICK g \in [P -> V] : g = Phi[g]
    BY <1>4, <1>5, RecursionDown
  <2>3. QED
    BY <2>1, <2>2
<1>7. walk = F(walk)
  <2> HIDE DEF F
  <2>1. QED
    BY <1>6
<1>8. \A n, p : Walk(ks, open, n, p) = walk[n][p]
  BY DEF Walk, WalkOf, Path
<1> HIDE DEF walk
<1>9. walk = g
  <2> DEFINE S == {n \in P : walk[n] = g[n]}
  <2>1. ASSUME NEW n \in P, \A q \in P : Len(n) < Len(q) => q \in S
        PROVE  n \in S
    <3>1. \A q \in P : Len(n) < Len(q) => walk[q] = g[q]
      BY <2>1
    <3> HIDE DEF F
    <3>2. F(walk)[n] = F(g)[n]
      BY <1>3, <3>1
    <3>3. QED
      BY <1>6, <1>7, <3>2
  <2>2. P \subseteq S
    <3> HIDE DEF S
    <3>1. QED
      BY <2>1, FromTheLeaves
  <2>3. \A n \in P : F(walk)[n] = F(g)[n]
    <3> HIDE DEF F
    <3>1. QED
      BY <1>6, <1>7, <2>2
  <2>4. F(walk) = F(g)
    BY <2>3
  <2> HIDE DEF F
  <2>5. QED
    BY <1>6, <1>7, <2>4
<1>10. \A n \in P : \A p \in Path : g[n][p] = WalkOf(ks, open, g, n, p)
  <2>1. \A n \in P : \A p \in Path : F(g)[n][p] = WalkOf(ks, open, g, n, p)
    OBVIOUS
  <2> HIDE DEF F
  <2>2. QED
    BY <1>6, <2>1
<1>11. g \in Lists(ks)
  BY <1>6 DEF Lists
<1> HIDE DEF F, Phi, V
<1>12. QED
  BY <1>8, <1>9, <1>10, <1>11

-----------------------------------------------------------------------------
(* The order of the rows                                                   *)

\* Rows below different children of a place part at the children's rows.
LEMMA PartingIs ==
  ASSUME NEW ks, Good(ks), NEW p \in Path, NEW c \in Children(ks, p), NEW d \in Children(ks, p),
         c # d, NEW t, Nearest(ks, c, t), NEW x \in RowNodes(ks), IsPrefix(t, x),
         NEW y \in RowNodes(ks), IsPrefix(d, y)
  PROVE  Parting(ks, x, y) = t /\ ~IsPrefix(x, y)
<1>1. /\ c \in Path /\ d \in Path /\ t \in Path /\ x \in Path /\ y \in Path
      /\ t \in RowNodes(ks) /\ IsPrefix(c, t)
      /\ Len(c) = Len(p) + 1 /\ Len(d) = Len(p) + 1 /\ IsPrefix(p, c) /\ IsPrefix(p, d)
  BY ChildrenAre, RowNodesAre DEF Nearest
<1>2. Len(p) \in Nat /\ Len(t) \in Nat /\ Len(x) \in Nat
  BY <1>1, PathLen
<1>3. ~IsPrefix(c, y)
  BY <1>1, <1>2, PrefixOrder
<1>4. ~IsPrefix(t, y) /\ ~IsPrefix(x, y)
  BY <1>1, <1>3, PrefixOrder
<1>5. \A s : s \in Above(ks, x) <=> s \in RowNodes(ks) /\ IsStrictPrefix(s, x)
  BY DEF Above
<1>6. t \in Above(ks, x) \cup {x}
  BY <1>1, <1>5 DEF IsStrictPrefix
<1>7. ASSUME NEW s \in Above(ks, x), IsStrictPrefix(s, t)
      PROVE  IsPrefix(s, y)
  <2>1. s \in Path /\ s \in RowNodes(ks) /\ IsPrefix(s, t) /\ Len(s) < Len(t) /\ Len(s) \in Nat
    BY <1>1, <1>5, <1>7, RowNodesAre, StrictIs, PathLen
  <2>2. ~IsPrefix(c, s)
    <3>1. SUFFICES ASSUME IsPrefix(c, s) PROVE FALSE
      OBVIOUS
    <3>2. IsPrefix(t, s)
      BY <2>1, <3>1 DEF Nearest
    <3>3. Len(t) <= Len(s)
      BY <1>1, <2>1, <3>2, PrefixOrder
    <3>4. QED
      BY <1>2, <2>1, <3>3
  <2>3. Len(s) <= Len(p)
    <3>1. ~(Len(c) <= Len(s))
      BY <1>1, <2>1, <2>2, PrefixOrder
    <3>2. QED
      BY <1>1, <1>2, <2>1, <3>1
  <2>4. IsPrefix(p, t) /\ IsPrefix(p, y)
    BY <1>1, PrefixOrder
  <2>5. IsPrefix(s, p)
    BY <1>1, <2>1, <2>3, <2>4, PrefixOrder
  <2>6. QED
    BY <1>1, <2>1, <2>4, <2>5, PrefixOrder
<1>8. ASSUME NEW r \in Above(ks, x) \cup {x}, ~IsPrefix(r, y),
             \A s \in Above(ks, x) : IsStrictPrefix(s, r) => IsPrefix(s, y)
      PROVE  r = t
  <2>1. r \in Path /\ IsPrefix(r, x) /\ Len(r) \in Nat
    BY <1>1, <1>5, RowNodesAre, PrefixOrder, PathLen DEF IsStrictPrefix
  <2>2. CASE Len(r) < Len(t)
    <3>1. IsPrefix(r, t)
      BY <1>1, <1>2, <2>1, <2>2, PrefixOrder
    <3>2. IsStrictPrefix(r, t)
      BY <1>1, <2>1, <2>2, <3>1, StrictIs
    <3>3. r # x
      BY <1>1, <1>2, <2>1, <2>2, PrefixOrder
    <3>4. QED
      BY <1>7, <1>8, <3>2, <3>3
  <2>3. CASE Len(t) < Len(r)
    <3>1. IsPrefix(t, r)
      BY <1>1, <1>2, <2>1, <2>3, PrefixOrder
    <3>2. IsStrictPrefix(t, r)
      BY <1>1, <2>1, <2>3, <3>1, StrictIs
    <3>3. t # x
      BY <1>1, <1>2, <2>1, <2>3, PrefixOrder
    <3>4. QED
      BY <1>4, <1>6, <1>8, <3>2, <3>3
  <2>4. CASE Len(r) = Len(t)
    <3>1. IsPrefix(r, t)
      BY <1>1, <1>2, <2>1, <2>4, PrefixOrder
    <3>2. QED
      BY <1>1, <2>1, <2>4, <3>1, PrefixOrder
  <2>5. QED
    BY <1>2, <2>1, <2>2, <2>3, <2>4
<1>9. Parting(ks, x, y) = t
  BY <1>4, <1>6, <1>7, <1>8 DEF Parting
<1>10. QED
  BY <1>4, <1>9

\* Rows below different children compare by the segments of the children.
LEMMA LexIs ==
  ASSUME NEW ks, Good(ks), NEW p \in Path, NEW c \in Children(ks, p), NEW d \in Children(ks, p),
         c # d, NEW t \in Path, IsPrefix(c, t), NEW u \in Path, IsPrefix(d, u)
  PROVE  LexBefore(t, u) <=> Last(c) < Last(d)
<1> DEFINE n == Len(p) + 1
<1>1. /\ c \in Path /\ d \in Path /\ Len(c) = n /\ Len(d) = n /\ n \in Nat \ {0}
      /\ Last(c) \in Nat /\ Last(d) \in Nat
      /\ c = Append(p, Last(c)) /\ d = Append(p, Last(d))
  BY ChildrenAre, PathLen
<1>2. c[n] = Last(c) /\ d[n] = Last(d) /\ \A i \in 1 .. n - 1 : c[i] = d[i]
  <2>1. \A a \in Nat : Append(p, a)[n] = a /\ \A i \in 1 .. n - 1 : Append(p, a)[i] = p[i]
    BY DEF Path
  <2> HIDE DEF n
  <2>2. QED
    BY <1>1, <2>1
<1>3. Last(c) # Last(d)
  BY <1>1
<1>4. /\ n <= Len(t) /\ \A i \in 1 .. n : t[i] = c[i]
      /\ n <= Len(u) /\ \A i \in 1 .. n : u[i] = d[i]
  BY <1>1, PrefixIs
<1>5. DOMAIN t = 1 .. Len(t) /\ DOMAIN u = 1 .. Len(u) /\ Len(t) \in Nat /\ Len(u) \in Nat
  BY PathLen DEF Path
<1> HIDE DEF n
<1>6. n \in DOMAIN t \cap DOMAIN u /\ t[n] = Last(c) /\ u[n] = Last(d)
  BY <1>1, <1>2, <1>4, <1>5
<1>7. \A j \in 1 .. n - 1 : t[j] = u[j]
  <2>1. \A j \in 1 .. n - 1 : j \in 1 .. n
    BY <1>1
  <2>2. QED
    BY <1>2, <1>4, <2>1
<1>8. ASSUME LexBefore(t, u) PROVE Last(c) < Last(d)
  <2>1. PICK i \in DOMAIN t \cap DOMAIN u : t[i] < u[i] /\ \A j \in 1 .. i - 1 : t[j] = u[j]
    BY <1>8 DEF LexBefore
  <2>2. i \in Nat /\ i # 0 /\ t[i] \in Nat /\ u[i] \in Nat
    BY <1>5 DEF Path
  <2>3. ~(i < n)
    BY <1>1, <1>7, <2>1, <2>2
  <2>4. ~(n < i)
    <3>1. SUFFICES ASSUME n < i PROVE FALSE
      OBVIOUS
    <3>2. n \in 1 .. i - 1
      BY <1>1, <2>2, <3>1
    <3>3. QED
      BY <1>3, <1>6, <2>1, <3>2
  <2>5. i = n
    BY <1>1, <2>2, <2>3, <2>4
  <2>6. QED
    BY <1>6, <2>1, <2>5
<1>9. QED
  BY <1>6, <1>7, <1>8 DEF LexBefore

\* Of two children, all that is below the one that precedes comes before all that is
\* below the other.
LEMMA BlocksApart ==
  ASSUME NEW ks, Good(ks), NEW p \in Path, NEW c \in Children(ks, p), NEW d \in Children(ks, p),
         Precedes(ks, c, d),
         NEW x \in RowNodes(ks), IsPrefix(Folded(ks, c), x),
         NEW y \in RowNodes(ks), IsPrefix(Folded(ks, d), y)
  PROVE  RowBefore(ks, x, y) /\ ~RowBefore(ks, y, x)
<1> DEFINE t == Folded(ks, c)
           u == Folded(ks, d)
<1>1. /\ c \in Nodes(ks) /\ d \in Nodes(ks) /\ c \in Path /\ d \in Path
      /\ Last(c) \in Nat /\ Last(d) \in Nat
  BY ChildrenAre
<1>2. c # d
  BY <1>1 DEF Precedes
<1>3. Nearest(ks, c, t) /\ Nearest(ks, d, u)
  BY <1>1, FoldedIs
<1>4. (IsBranch(ks, t) /\ ~IsBranch(ks, u)) \/ ((IsBranch(ks, t) <=> IsBranch(ks, u)) /\ Last(c) < Last(d))
  BY DEF Precedes
<1> HIDE DEF t, u
<1>5. /\ t \in Path /\ u \in Path /\ x \in Path /\ y \in Path
      /\ IsPrefix(c, t) /\ IsPrefix(d, u) /\ IsPrefix(t, x) /\ IsPrefix(u, y)
  BY <1>3, RowNodesAre DEF Nearest, t, u
<1>6. IsPrefix(c, x) /\ IsPrefix(d, y)
  BY <1>1, <1>5, PrefixOrder
<1>7. Parting(ks, x, y) = t /\ ~IsPrefix(x, y)
  BY <1>2, <1>3, <1>5, <1>6, PartingIs
<1>8. Parting(ks, y, x) = u /\ ~IsPrefix(y, x)
  BY <1>2, <1>3, <1>5, <1>6, PartingIs
<1>9. (LexBefore(t, u) <=> Last(c) < Last(d)) /\ (LexBefore(u, t) <=> Last(d) < Last(c))
  BY <1>2, <1>5, LexIs
<1>10. ~(Last(c) < Last(d) /\ Last(d) < Last(c))
  BY <1>1
<1>11. RowBefore(ks, x, y)
  BY <1>4, <1>7, <1>8, <1>9 DEF RowBefore
<1>12. ~RowBefore(ks, y, x)
  BY <1>4, <1>7, <1>8, <1>9, <1>10 DEF RowBefore, IsStrictPrefix
<1>13. QED
  BY <1>11, <1>12

\* A row comes before what is below it, and none before itself.
LEMMA ParentFirst ==
  ASSUME NEW ks, NEW t \in Path, NEW x \in Path, IsStrictPrefix(t, x)
  PROVE  RowBefore(ks, t, x) /\ ~RowBefore(ks, x, t)
<1>1. IsPrefix(t, x) /\ Len(t) < Len(x) /\ Len(t) \in Nat /\ Len(x) \in Nat
  BY StrictIs, PathLen
<1>2. ~IsStrictPrefix(x, t)
  BY <1>1, StrictIs
<1>3. QED
  BY <1>1, <1>2 DEF RowBefore

LEMMA NotBeforeItself == \A ks : \A x \in Path : ~RowBefore(ks, x, x)
  BY PrefixOrder DEF RowBefore, IsStrictPrefix

-----------------------------------------------------------------------------
(* The rows of the walk are those of the tree                              *)

\* No key begins with the separator.
Plain(ks) == \A k \in ks : Head(k) # Empty

LEMMA SamePath ==
  ASSUME NEW p \in Path, NEW q \in Path, Len(p) = Len(q), \A i \in 1 .. Len(q) : p[i] = q[i]
  PROVE  p = q
  BY DEF Path

LEMMA ExtendIs ==
  ASSUME NEW c \in Path, NEW t \in Path, IsPrefix(c, t)
  PROVE  c \o SubSeq(t, Len(c) + 1, Len(t)) = t
<1>1. Len(c) <= Len(t) /\ \A i \in 1 .. Len(c) : c[i] = t[i]
  BY PrefixIs
<1> DEFINE d == SubSeq(t, Len(c) + 1, Len(t))
<1>2. /\ d \in Path /\ Len(d) = Len(t) - Len(c)
      /\ \A i \in 1 .. Len(t) - Len(c) : d[i] = t[Len(c) + i]
  <2>1. Len(c) \in Nat /\ Len(t) \in Nat
    BY PathLen
  <2>2. QED
    BY <1>1, <2>1 DEF Path
<1> HIDE DEF d
<1>3. /\ c \o d \in Path /\ Len(c \o d) = Len(t)
      /\ \A i \in 1 .. Len(t) : (c \o d)[i] = IF i <= Len(c) THEN c[i] ELSE d[i - Len(c)]
  BY <1>1, <1>2 DEF Path
<1>4. \A i \in 1 .. Len(t) : (c \o d)[i] = t[i]
  <2>1. SUFFICES ASSUME NEW i \in 1 .. Len(t) PROVE (c \o d)[i] = t[i]
    OBVIOUS
  <2>2. Len(c) \in Nat /\ Len(t) \in Nat
    BY PathLen
  <2>3. CASE i <= Len(c)
    <3>1. i \in 1 .. Len(c)
      BY <2>2, <2>3
    <3>2. QED
      BY <1>1, <1>3, <2>3, <3>1
  <2>4. CASE ~(i <= Len(c))
    <3>1. i - Len(c) \in 1 .. Len(t) - Len(c) /\ Len(c) + (i - Len(c)) = i
      BY <2>2, <2>4
    <3>2. QED
      BY <1>2, <1>3, <2>4, <3>1
  <2>5. QED
    BY <2>3, <2>4
<1>5. c \o d = t
  <2> DEFINE e == c \o d
  <2>1. e \in Path /\ Len(e) = Len(t) /\ \A i \in 1 .. Len(t) : e[i] = t[i]
    BY <1>3, <1>4
  <2> HIDE DEF e
  <2>2. e = t
    BY <2>1, SamePath
  <2>3. QED
    BY <2>2 DEF e
<1>6. QED
  BY <1>5 DEF d

\* The text walk gives a child is the child's path.
LEMMA JoinIs ==
  ASSUME NEW ks, Good(ks), Plain(ks), NEW p \in Places(ks), NEW c \in Children(ks, p)
  PROVE  Join(p, Last(c)) = c
<1>1. p \in Path /\ c \in Path /\ c = Append(p, Last(c)) /\ Last(c) \in Nat
  BY DepthBounded, ChildrenAre
<1>2. CASE p = <<>>
  BY <1>1, <1>2 DEF Join, EmptyText
<1>3. CASE p # <<>>
  <2>1. PICK k \in ks : IsPrefix(p, k)
    BY <1>3, NodesAre DEF Places
  <2>2. k \in Path /\ k[1] # Empty
    BY DEF Good, Plain
  <2>3. Len(p) \in Nat /\ Len(p) # 0
    BY <1>1, <1>3, PathLen
  <2>4. p[1] = k[1]
    BY <1>1, <2>1, <2>2, <2>3, PrefixIs
  <2>5. p # <<Empty>>
    BY <2>2, <2>4
  <2>6. QED
    BY <1>1, <1>3, <2>5 DEF Join, EmptyText
<1>4. QED
  BY <1>2, <1>3

\* The rows shown below a place, and those a child of it brings.
Under(ks, open, p) ==
  {q \in RowNodes(ks) :
     /\ IsStrictPrefix(p, q)
     /\ \A r \in RowNodes(ks) : IsStrictPrefix(p, r) /\ IsStrictPrefix(r, q) => r \in open}

Brought(ks, open, t) == {q \in {t} \cup Under(ks, open, t) : q = t \/ t \in open}

\* What is shown below a place is what its children bring.
LEMMA UnderIs ==
  ASSUME NEW ks, Good(ks), NEW open, NEW p \in Path
  PROVE  \A q : q \in Under(ks, open, p) <=>
                  \E c \in Children(ks, p) : q \in Brought(ks, open, Folded(ks, c))
<1>1. ASSUME NEW c \in Children(ks, p)
      PROVE  LET t == Folded(ks, c)
             IN  /\ t \in RowNodes(ks) /\ t \in Path /\ IsStrictPrefix(p, t)
                 /\ \A s \in RowNodes(ks) : IsPrefix(c, s) => IsPrefix(t, s)
                 /\ \A r \in RowNodes(ks) : ~(IsStrictPrefix(p, r) /\ IsStrictPrefix(r, t))
  <2> DEFINE t == Folded(ks, c)
  <2>1. Nearest(ks, c, t)
    BY ChildrenAre, FoldedIs
  <2>2. c \in Path /\ IsStrictPrefix(p, c) /\ IsPrefix(p, c) /\ Len(c) = Len(p) + 1
    BY ChildrenAre
  <2> HIDE DEF t
  <2>3. t \in Path /\ t \in RowNodes(ks) /\ IsPrefix(c, t)
    BY <2>1, RowNodesAre DEF Nearest
  <2>4. IsPrefix(p, t) /\ Len(p) < Len(t)
    BY <2>2, <2>3, PrefixOrder, PathLen
  <2>5. ASSUME NEW r \in RowNodes(ks), IsStrictPrefix(p, r), IsStrictPrefix(r, t) PROVE FALSE
    <3>1. r \in Path /\ Len(p) < Len(r) /\ IsPrefix(r, t) /\ Len(r) < Len(t)
      BY <2>3, <2>5, RowNodesAre, StrictIs
    <3>2. Len(p) \in Nat /\ Len(r) \in Nat /\ Len(t) \in Nat
      BY <2>3, <3>1, PathLen
    <3>3. Len(c) <= Len(r)
      BY <2>2, <3>1, <3>2
    <3>4. IsPrefix(c, r)
      BY <2>2, <2>3, <3>1, <3>3, PrefixOrder
    <3>5. Len(t) <= Len(r)
      BY <2>1, <2>3, <3>1, <3>4, PrefixOrder DEF Nearest
    <3>6. QED
      BY <3>1, <3>2, <3>5
  <2>6. QED
    BY <2>1, <2>3, <2>4, <2>5, StrictIs DEF Nearest, t
<1>2. ASSUME NEW q \in Under(ks, open, p)
      PROVE  \E c \in Children(ks, p) : q \in Brought(ks, open, Folded(ks, c))
  <2>1. q \in RowNodes(ks) /\ IsStrictPrefix(p, q) /\ q \in Nodes(ks) /\ q \in Path
    BY RowNodesAre DEF Under
  <2>2. PICK c \in Children(ks, p) : IsPrefix(c, q)
    BY <2>1, ChildToward
  <2> DEFINE t == Folded(ks, c)
  <2>3. /\ t \in RowNodes(ks) /\ t \in Path /\ IsStrictPrefix(p, t) /\ IsPrefix(t, q)
    BY <1>1, <2>1, <2>2
  <2> HIDE DEF t
  <2>4. CASE q # t
    <3>1. IsStrictPrefix(t, q)
      BY <2>3, <2>4 DEF IsStrictPrefix
    <3>2. t \in open
      BY <2>3, <3>1 DEF Under
    <3>3. ASSUME NEW r \in RowNodes(ks), IsStrictPrefix(t, r), IsStrictPrefix(r, q)
          PROVE  r \in open
      <4>1. r \in Path
        BY RowNodesAre
      <4>2. IsPrefix(p, t) /\ IsPrefix(t, r) /\ Len(p) < Len(t) /\ Len(t) < Len(r)
        BY <2>3, <3>3, <4>1, StrictIs
      <4>3. IsPrefix(p, r) /\ Len(p) < Len(r)
        BY <2>3, <4>1, <4>2, PrefixOrder, PathLen
      <4>4. IsStrictPrefix(p, r)
        BY <4>1, <4>3, StrictIs
      <4>5. QED
        BY <3>3, <4>4 DEF Under
    <3>4. QED
      BY <2>1, <3>1, <3>2, <3>3 DEF Brought, Under, t
  <2>5. CASE q = t
    BY <2>5 DEF Brought, t
  <2>6. QED
    BY <2>4, <2>5
<1>3. ASSUME NEW q, NEW c \in Children(ks, p), q \in Brought(ks, open, Folded(ks, c))
      PROVE  q \in Under(ks, open, p)
  <2> DEFINE t == Folded(ks, c)
  <2>1. /\ t \in RowNodes(ks) /\ t \in Path /\ IsStrictPrefix(p, t)
        /\ \A r \in RowNodes(ks) : ~(IsStrictPrefix(p, r) /\ IsStrictPrefix(r, t))
    BY <1>1
  <2>2. q = t \/ (q \in Under(ks, open, t) /\ t \in open)
    BY <1>3 DEF Brought
  <2> HIDE DEF t
  <2>3. CASE q = t
    BY <2>1, <2>3 DEF Under
  <2>4. CASE q # t
    <3>1. q \in RowNodes(ks) /\ q \in Path /\ IsStrictPrefix(t, q) /\ t \in open
      BY <2>2, <2>4, RowNodesAre DEF Under
    <3>2. IsPrefix(p, t) /\ IsPrefix(t, q) /\ Len(p) < Len(t) /\ Len(t) < Len(q)
      BY <2>1, <3>1, StrictIs
    <3>3. IsPrefix(p, q) /\ Len(p) < Len(q)
      BY <2>1, <3>1, <3>2, PrefixOrder, PathLen
    <3>4. ASSUME NEW r \in RowNodes(ks), IsStrictPrefix(p, r), IsStrictPrefix(r, q)
          PROVE  r \in open
      <4>1. r \in Path /\ IsPrefix(r, q) /\ Len(r) \in Nat /\ Len(t) \in Nat
        BY <2>1, <3>1, <3>4, RowNodesAre, StrictIs, PathLen
      <4>2. CASE Len(r) < Len(t)
        <5>1. IsStrictPrefix(r, t)
          BY <2>1, <3>1, <3>2, <4>1, <4>2, PrefixOrder, StrictIs
        <5>2. QED
          BY <2>1, <3>4, <5>1
      <4>3. CASE Len(r) = Len(t)
        <5>1. r = t
          BY <2>1, <3>1, <3>2, <4>1, <4>3, PrefixOrder
        <5>2. QED
          BY <3>1, <5>1
      <4>4. CASE Len(t) < Len(r)
        <5>1. IsStrictPrefix(t, r)
          BY <2>1, <3>1, <3>2, <4>1, <4>4, PrefixOrder, StrictIs
        <5>2. QED
          BY <2>2, <2>4, <3>4, <5>1 DEF Under
      <4>5. QED
        BY <4>1, <4>2, <4>3, <4>4
    <3>5. IsStrictPrefix(p, q)
      BY <3>1, <3>3, StrictIs
    <3>6. QED
      BY <3>1, <3>4, <3>5 DEF Under
  <2>5. QED
    BY <2>3, <2>4
<1>4. QED
  BY <1>2, <1>3

\* The lines are the rows of the nodes of S, each once, in the order of the rows.
Shows(s, ks, open, S) ==
  /\ s \in Seq(Line)
  /\ \A q \in S : \E i \in DOMAIN s : s[i] = RowOf(ks, open, q)
  /\ \A i \in DOMAIN s : s[i].path \in S /\ s[i] = RowOf(ks, open, s[i].path)
  /\ \A i, j \in DOMAIN s : i < j =>
       RowBefore(ks, s[i].path, s[j].path) /\ ~RowBefore(ks, s[j].path, s[i].path)

\* A child's lines: its own row, and those below it if it is open.
LEMMA EmittedShows ==
  ASSUME NEW ks, Good(ks), Plain(ks), NEW open, NEW p \in Places(ks), NEW c \in Children(ks, p),
         NEW below \in Lists(ks),
         Shows(below[Folded(ks, c)][Folded(ks, c)], ks, open, Under(ks, open, Folded(ks, c)))
  PROVE  Shows(Emitted(ks, open, below, p, c), ks, open, Brought(ks, open, Folded(ks, c)))
<1> DEFINE t == Folded(ks, c)
           row == RowOf(ks, open, t)
           opened == IsBranch(ks, t) /\ t \in open
           rest == IF opened THEN below[t][t] ELSE <<>>
           s == <<row>> \o rest
<1>1. p \in Path /\ c \in Path
  BY DepthBounded, ChildrenAre
<1>2. t \in Places(ks) /\ t \in Path /\ IsPrefix(c, t) /\ t \in RowNodes(ks)
  <2>1. c \in Nodes(ks)
    BY <1>1, ChildrenAre
  <2>2. QED
    BY <1>1, <2>1, FoldedIn, FoldedIs DEF Nearest
<1>3. Join(p, Last(c)) \o SubSeq(t, Len(c) + 1, Len(t)) = t
  <2> HIDE DEF t
  <2>1. QED
    BY <1>1, <1>2, JoinIs, ExtendIs
<1>4. Emitted(ks, open, below, p, c) = s
  BY <1>3 DEF Emitted, RowOf
<1>5. row.path = t /\ row \in Line
  <2> HIDE DEF t
  <2>1. QED
    BY <1>2 DEF RowOf, Line, IsBranch
<1>6. Shows(rest, ks, open, {q \in Under(ks, open, t) : t \in open})
  <2>1. CASE opened
    <3>1. {q \in Under(ks, open, t) : t \in open} = Under(ks, open, t)
      BY <2>1
    <3>2. QED
      BY <2>1, <3>1
  <2>2. CASE ~opened
    <3>1. t \in open => Children(ks, t) = {}
      BY <2>2 DEF IsBranch
    <3> HIDE DEF t
    <3>2. {q \in Under(ks, open, t) : t \in open} = {}
      BY <1>2, <3>1, UnderIs
    <3>3. rest = <<>>
      BY <2>2
    <3> HIDE DEF rest, opened
    <3>4. rest \in Seq(Line) /\ DOMAIN rest = {}
      BY <3>3
    <3> DEFINE S == {q \in Under(ks, open, t) : t \in open}
    <3> HIDE DEF S
    <3>5. Shows(rest, ks, open, S)
      BY <3>2, <3>4 DEF Shows, S
    <3>6. QED
      BY <3>5 DEF S
  <2>3. QED
    BY <2>1, <2>2
<1> HIDE DEF t, row, opened, rest, s
<1>7. rest \in Seq(Line)
  BY <1>6 DEF Shows
<1>8. /\ s \in Seq(Line) /\ DOMAIN s = 1 .. Len(rest) + 1 /\ Len(rest) \in Nat
      /\ s[1] = row
      /\ \A i \in DOMAIN rest : i + 1 \in DOMAIN s /\ s[i + 1] = rest[i]
      /\ DOMAIN rest = 1 .. Len(rest)
  BY <1>5, <1>7 DEF s
<1>9. \A i \in DOMAIN s : i = 1 \/ (i - 1 \in DOMAIN rest /\ s[i] = rest[i - 1])
  <2>1. SUFFICES ASSUME NEW i \in DOMAIN s, i # 1 PROVE i - 1 \in DOMAIN rest /\ s[i] = rest[i - 1]
    OBVIOUS
  <2>2. i \in Nat /\ i - 1 \in DOMAIN rest /\ (i - 1) + 1 = i
    BY <1>8, <2>1
  <2>3. QED
    BY <1>8, <2>2
<1>10. \A q \in Brought(ks, open, t) : \E i \in DOMAIN s : s[i] = RowOf(ks, open, q)
  <2>1. SUFFICES ASSUME NEW q \in Brought(ks, open, t) PROVE \E i \in DOMAIN s : s[i] = RowOf(ks, open, q)
    OBVIOUS
  <2>2. CASE q = t
    <3>1. 1 \in DOMAIN s
      BY <1>8
    <3>2. QED
      BY <1>8, <2>2, <3>1 DEF row
  <2>3. CASE q # t
    <3>1. PICK i \in DOMAIN rest : rest[i] = RowOf(ks, open, q)
      BY <1>6, <2>3 DEF Brought, Shows
    <3>2. QED
      BY <1>8, <3>1
  <2>4. QED
    BY <2>2, <2>3
<1>11. \A i \in DOMAIN rest : /\ rest[i].path \in Under(ks, open, t) /\ t \in open
                              /\ rest[i] = RowOf(ks, open, rest[i].path)
  BY <1>6 DEF Shows
<1>12. \A i \in DOMAIN s : s[i].path \in Brought(ks, open, t) /\ s[i] = RowOf(ks, open, s[i].path)
  <2>1. SUFFICES ASSUME NEW i \in DOMAIN s
                 PROVE  s[i].path \in Brought(ks, open, t) /\ s[i] = RowOf(ks, open, s[i].path)
    OBVIOUS
  <2>2. CASE i = 1
    BY <1>5, <1>8, <2>2 DEF Brought, row
  <2>3. CASE i # 1
    BY <1>9, <1>11, <2>3 DEF Brought
  <2>4. QED
    BY <2>2, <2>3
<1>13. ASSUME NEW i \in DOMAIN s, NEW j \in DOMAIN s, i < j
       PROVE  RowBefore(ks, s[i].path, s[j].path) /\ ~RowBefore(ks, s[j].path, s[i].path)
  <2>1. i \in Nat /\ j \in Nat /\ i >= 1 /\ j # 1
    BY <1>8, <1>13
  <2>2. j - 1 \in DOMAIN rest /\ s[j] = rest[j - 1]
    BY <1>9, <2>1
  <2>3. CASE i = 1
    <3>1. s[j].path \in RowNodes(ks) /\ IsStrictPrefix(t, s[j].path)
      BY <1>11, <2>2 DEF Under
    <3>2. s[j].path \in Path
      BY <3>1, RowNodesAre
    <3>3. s[i].path = t
      BY <1>5, <1>8, <2>3
    <3>4. QED
      BY <1>2, <3>1, <3>2, <3>3, ParentFirst
  <2>4. CASE i # 1
    <3>1. i - 1 \in DOMAIN rest /\ s[i] = rest[i - 1]
      BY <1>9, <2>4
    <3>2. i - 1 < j - 1
      BY <1>13, <2>1
    <3>3. QED
      BY <1>6, <2>2, <3>1, <3>2 DEF Shows
  <2>5. QED
    BY <2>3, <2>4
<1>14. Shows(s, ks, open, Brought(ks, open, t))
  BY <1>8, <1>10, <1>12, <1>13 DEF Shows
<1>15. QED
  BY <1>4, <1>14 DEF t

\* The rows walk gives for a place are those shown below it.
LEMMA WalkShows ==
  ASSUME NEW ks, Good(ks), Plain(ks), NEW open, NEW w \in Lists(ks),
         \A n \in Places(ks) : \A p \in Path : w[n][p] = WalkOf(ks, open, w, n, p),
         NEW p \in Places(ks),
         \A q \in Places(ks) : Len(p) < Len(q) => Shows(w[q][q], ks, open, Under(ks, open, q))
  PROVE  Shows(w[p][p], ks, open, Under(ks, open, p))
<1> DEFINE l == Listed(ks, p)
           s == [i \in DOMAIN l |-> Emitted(ks, open, w, p, l[i])]
           f == FlattenSeq(s)
           N(i) == Brought(ks, open, Folded(ks, l[i]))
<1>1. p \in Path
  BY DepthBounded
<1>2. s \in Seq(Seq(Line)) /\ w[p][p] = f
  <2>1. s \in Seq(Seq(Line))
    BY <1>1, WalkOfType
  <2>2. f = WalkOf(ks, open, w, p, p)
    BY DEF WalkOf
  <2> HIDE DEF s, f
  <2>3. QED
    BY <1>1, <2>1, <2>2
<1>3. /\ l \in Seq(Children(ks, p))
      /\ \A c \in Children(ks, p) : \E i \in DOMAIN l : l[i] = c
      /\ \A i, j \in DOMAIN l : i < j => Precedes(ks, l[i], l[j])
  BY <1>1, ListedIs
<1> HIDE DEF l
<1>4. /\ DOMAIN l = 1 .. Len(l) /\ Len(l) \in Nat
      /\ \A i \in 1 .. Len(l) : l[i] \in Children(ks, p)
      /\ Len(s) = Len(l)
  BY <1>2, <1>3
<1>5. \A i \in 1 .. Len(l) : Shows(s[i], ks, open, N(i))
  <2>1. SUFFICES ASSUME NEW i \in 1 .. Len(l) PROVE Shows(s[i], ks, open, N(i))
    OBVIOUS
  <2> DEFINE t == Folded(ks, l[i])
  <2>2. t \in Places(ks) /\ Len(p) < Len(t)
    BY <1>1, <1>4, FoldedIn
  <2>3. Shows(w[t][t], ks, open, Under(ks, open, t))
    <3> HIDE DEF t
    <3>1. QED
      BY <2>2
  <2>4. s[i] = Emitted(ks, open, w, p, l[i])
    BY <1>4
  <2>5. Shows(Emitted(ks, open, w, p, l[i]), ks, open, N(i))
    BY <1>4, <2>3, EmittedShows
  <2>6. QED
    BY <2>4, <2>5
<1>6. f \in Seq(Line) /\ Laid(f, s, Len(l))
  <2> HIDE DEF s
  <2>1. QED
    BY <1>2, <1>4, FlattenLaid
<1> HIDE DEF s, f
<1>7. ASSUME NEW q \in Under(ks, open, p)
      PROVE  \E i \in DOMAIN f : f[i] = RowOf(ks, open, q)
  <2>1. PICK c \in Children(ks, p) : q \in Brought(ks, open, Folded(ks, c))
    BY <1>1, UnderIs
  <2>2. PICK a \in DOMAIN l : l[a] = c
    BY <1>3
  <2>3. a \in 1 .. Len(l) /\ q \in N(a)
    BY <1>4, <2>1, <2>2
  <2> HIDE DEF N
  <2>4. PICK k \in DOMAIN s[a] : s[a][k] = RowOf(ks, open, q)
    BY <1>5, <2>3 DEF Shows
  <2>5. QED
    BY <1>6, <2>3, <2>4 DEF Laid
<1>8. ASSUME NEW a \in 1 .. Len(l), NEW k \in DOMAIN s[a]
      PROVE  /\ s[a][k].path \in Under(ks, open, p) /\ s[a][k].path \in RowNodes(ks)
             /\ IsPrefix(Folded(ks, l[a]), s[a][k].path)
             /\ s[a][k] = RowOf(ks, open, s[a][k].path)
  <2>1. s[a][k].path \in N(a) /\ s[a][k] = RowOf(ks, open, s[a][k].path)
    <3> HIDE DEF N
    <3>1. QED
      BY <1>5 DEF Shows
  <2>2. l[a] \in Children(ks, p)
    BY <1>4
  <2>3. s[a][k].path \in Under(ks, open, p)
    BY <1>1, <2>1, <2>2, UnderIs
  <2>4. s[a][k].path \in RowNodes(ks)
    BY <2>3 DEF Under
  <2>5. Folded(ks, l[a]) \in Path
    BY <1>1, <2>2, FoldedIn
  <2>6. IsPrefix(Folded(ks, l[a]), s[a][k].path)
    BY <2>1, <2>5, PrefixOrder DEF Brought, Under, IsStrictPrefix
  <2>7. QED
    BY <2>1, <2>3, <2>4, <2>6
<1>9. ASSUME NEW i \in DOMAIN f
      PROVE  f[i].path \in Under(ks, open, p) /\ f[i] = RowOf(ks, open, f[i].path)
  <2>1. PICK a \in 1 .. Len(l) : \E k \in DOMAIN s[a] : f[i] = s[a][k]
    BY <1>6 DEF Laid
  <2>2. QED
    BY <1>8, <2>1
<1>10. ASSUME NEW i \in DOMAIN f, NEW j \in DOMAIN f, i < j
       PROVE  RowBefore(ks, f[i].path, f[j].path) /\ ~RowBefore(ks, f[j].path, f[i].path)
  <2>1. PICK a \in 1 .. Len(l), b \in 1 .. Len(l) : \E k \in DOMAIN s[a], m \in DOMAIN s[b] :
          f[i] = s[a][k] /\ f[j] = s[b][m] /\ (a < b \/ (a = b /\ k < m))
    <3> HIDE DEF N
    <3>1. \A x, y \in DOMAIN f : x < y =>
            \E a, b \in 1 .. Len(l) : \E k \in DOMAIN s[a], m \in DOMAIN s[b] :
              f[x] = s[a][k] /\ f[y] = s[b][m] /\ (a < b \/ (a = b /\ k < m))
      BY <1>6 DEF Laid
    <3>2. QED
      BY <1>10, <3>1
  <2>2. PICK k \in DOMAIN s[a], m \in DOMAIN s[b] :
          f[i] = s[a][k] /\ f[j] = s[b][m] /\ (a < b \/ (a = b /\ k < m))
    BY <2>1
  <2>3. CASE a < b
    <3>1. Precedes(ks, l[a], l[b]) /\ l[a] \in Children(ks, p) /\ l[b] \in Children(ks, p)
      BY <1>3, <1>4, <2>3
    <3>2. /\ s[a][k].path \in RowNodes(ks) /\ IsPrefix(Folded(ks, l[a]), s[a][k].path)
          /\ s[b][m].path \in RowNodes(ks) /\ IsPrefix(Folded(ks, l[b]), s[b][m].path)
      BY <1>8
    <3>3. RowBefore(ks, s[a][k].path, s[b][m].path) /\ ~RowBefore(ks, s[b][m].path, s[a][k].path)
      BY <1>1, <3>1, <3>2, BlocksApart
    <3>4. QED
      BY <2>2, <3>3
  <2>4. CASE a = b /\ k < m
    <3> HIDE DEF N
    <3>1. RowBefore(ks, s[a][k].path, s[a][m].path) /\ ~RowBefore(ks, s[a][m].path, s[a][k].path)
      BY <1>5, <2>4 DEF Shows
    <3>2. QED
      BY <2>2, <2>4, <3>1
  <2>5. QED
    BY <2>2, <2>3, <2>4
<1>11. Shows(f, ks, open, Under(ks, open, p))
  BY <1>6, <1>7, <1>9, <1>10 DEF Shows
<1>12. QED
  BY <1>2, <1>11

\* A row shows when it is shown below the root.
LEMMA ShownIsUnder ==
  ASSUME NEW ks, Good(ks), NEW open
  PROVE  Shown(ks, open) = Under(ks, open, <<>>)
<1>1. \A q \in RowNodes(ks) : IsStrictPrefix(<<>>, q)
  BY NodesAre, RowNodesAre, PrefixOrder DEF IsStrictPrefix
<1>2. QED
  BY <1>1 DEF Shown, Under, Above

\* What the App shows is what the tree's rows are.
LEMMA WalkIsRows ==
  ASSUME NEW ks, Good(ks), NEW open
  PROVE  /\ Walk(ks, open, <<>>, <<>>) \in Seq(Line)
         /\ Plain(ks) => /\ Shows(Walk(ks, open, <<>>, <<>>), ks, open, Shown(ks, open))
                         /\ Walk(ks, open, <<>>, <<>>) = Rows(ks, open)
<1>1. PICK w \in Lists(ks) : /\ \A n \in Places(ks) : \A p \in Path : w[n][p] = WalkOf(ks, open, w, n, p)
                             /\ \A n, p : Walk(ks, open, n, p) = w[n][p]
  BY WalkIs
<1> DEFINE s == w[<<>>][<<>>]
<1>2. <<>> \in Path /\ <<>> \in Places(ks)
  BY DEF Path, Places
<1>3. s \in Seq(Line)
  BY <1>2 DEF Lists
<1>4. ASSUME Plain(ks)
      PROVE  Shows(s, ks, open, Shown(ks, open)) /\ s = Rows(ks, open)
  <2> DEFINE S == {p \in Places(ks) : Shows(w[p][p], ks, open, Under(ks, open, p))}
  <2>1. \A p \in Places(ks) : (\A q \in Places(ks) : Len(p) < Len(q) => q \in S) => p \in S
    <3>1. SUFFICES ASSUME NEW p \in Places(ks), \A q \in Places(ks) : Len(p) < Len(q) => q \in S
                   PROVE  Shows(w[p][p], ks, open, Under(ks, open, p))
      OBVIOUS
    <3>2. \A q \in Places(ks) : Len(p) < Len(q) => Shows(w[q][q], ks, open, Under(ks, open, q))
      BY <3>1
    <3>3. QED
      BY <1>1, <1>4, <3>2, WalkShows
  <2>2. Places(ks) \subseteq S
    <3> HIDE DEF S
    <3>1. QED
      BY <2>1, FromTheLeaves
  <2> DEFINE shown == Shown(ks, open)
             before == {pq \in shown \X shown : RowBefore(ks, pq[1], pq[2])}
             paths == [i \in DOMAIN s |-> s[i].path]
  <2>3. Shows(s, ks, open, shown)
    BY <1>2, <2>2, ShownIsUnder
  <2> HIDE DEF s, S, shown
  <2>4. /\ DOMAIN s = 1 .. Len(s) /\ Len(s) \in Nat
        /\ \A i \in DOMAIN s : s[i].path \in shown /\ s[i] = RowOf(ks, open, s[i].path)
        /\ \A i, j \in DOMAIN s : i < j =>
             RowBefore(ks, s[i].path, s[j].path) /\ ~RowBefore(ks, s[j].path, s[i].path)
    BY <1>3, <2>3 DEF Shows
  <2>5. \A q \in shown : \E i \in DOMAIN s : s[i].path = q
    <3>1. SUFFICES ASSUME NEW q \in shown PROVE \E i \in DOMAIN s : s[i].path = q
      OBVIOUS
    <3>2. PICK i \in DOMAIN s : s[i] = RowOf(ks, open, q)
      BY <2>3 DEF Shows
    <3>3. RowOf(ks, open, q).path = q
      BY DEF RowOf
    <3>4. QED
      BY <3>2, <3>3
  <2>6. \A p, q : <<p, q>> \in before <=> p \in shown /\ q \in shown /\ RowBefore(ks, p, q)
    OBVIOUS
  <2>7. \A q \in shown : <<q, q>> \notin before
    <3>1. \A q \in shown : q \in Path
      BY RowNodesAre DEF Shown, shown
    <3> HIDE DEF before
    <3>2. QED
      BY <2>6, <3>1, NotBeforeItself
  <2> HIDE DEF before
  <2>8. Sorted(paths, shown, before)
    <3>1. paths \in Seq(shown) /\ DOMAIN paths = DOMAIN s /\ \A i \in DOMAIN s : paths[i] = s[i].path
      BY <2>4
    <3> HIDE DEF paths
    <3>2. QED
      BY <2>4, <2>5, <2>6, <3>1 DEF Sorted
  <2>9. Ordered(shown, before) = paths
    <3> HIDE DEF paths
    <3>1. QED
      BY <2>7, <2>8, SortedIsOrdered
  <2>10. Rows(ks, open) = [i \in DOMAIN Ordered(shown, before) |-> RowOf(ks, open, Ordered(shown, before)[i])]
    BY DEF Rows, shown, before
  <2>11. Rows(ks, open) = [i \in DOMAIN s |-> s[i]]
    <3>1. Rows(ks, open) = [i \in DOMAIN paths |-> RowOf(ks, open, paths[i])]
      <4> HIDE DEF paths
      <4>1. QED
        BY <2>9, <2>10
    <3>2. QED
      BY <2>4, <3>1
  <2>12. Rows(ks, open) = s
    BY <1>3, <2>11 DEF s
  <2>13. QED
    BY <2>3, <2>12 DEF shown
<1> HIDE DEF s
<1>5. QED
  BY <1>1, <1>3, <1>4 DEF s

-----------------------------------------------------------------------------
(* The branches E opens                                                    *)

\* The body of the recursion, and what is in it.
CollectOf(ks, g, n, p) ==
  UNION {LET path == Join(p, Last(c)) IN {path} \cup g[c][path] :
           c \in {d \in Children(ks, n) : IsBranch(ks, d)}}

LEMMA CollectMember ==
  ASSUME NEW ks, NEW g, NEW n, NEW p
  PROVE  \A q : q \in CollectOf(ks, g, n, p) <=>
                  \E c \in Children(ks, n) :
                    /\ IsBranch(ks, c)
                    /\ q = Join(p, Last(c)) \/ q \in g[c][Join(p, Last(c))]
  BY DEF CollectOf

\* Every branch is collected, under the path it has.
LEMMA CollectIs ==
  ASSUME NEW ks, Good(ks)
  PROVE  /\ CollectBranches(ks, <<>>, <<>>) \subseteq Path
         /\ Plain(ks) => \A q \in Nodes(ks) : IsBranch(ks, q) => q \in CollectBranches(ks, <<>>, <<>>)
<1> DEFINE P == Places(ks)
           V == [Path -> SUBSET Path]
           F(g) == [n \in P |-> [p \in Path |-> CollectOf(ks, g, n, p)]]
           Phi == [g \in [P -> V] |-> F(g)]
           collect == CHOOSE g : g = F(g)
<1>1. \A n \in P : n \in Path
  BY DepthBounded
<1>2. <<>> \in P /\ <<>> \in Path
  BY DEF Places, Path
<1>3. ASSUME NEW n \in P, NEW p \in Path, NEW c \in Children(ks, n)
      PROVE  Join(p, Last(c)) \in Path /\ c \in P /\ Len(n) < Len(c)
  <2>1. Last(c) \in Nat /\ c \in Nodes(ks) /\ Len(c) = Len(n) + 1 /\ Len(n) \in Nat
    BY <1>1, ChildrenAre, PathLen
  <2>2. QED
    BY <2>1 DEF Join, Path, Places
<1>4. ASSUME NEW g, NEW n \in P, \A c \in P : Len(n) < Len(c) => g[c] \in V, NEW p \in Path
      PROVE  CollectOf(ks, g, n, p) \in SUBSET Path
  <2>1. ASSUME NEW c \in Children(ks, n)
        PROVE  Join(p, Last(c)) \in Path /\ g[c][Join(p, Last(c))] \in SUBSET Path
    <3>1. Join(p, Last(c)) \in Path /\ g[c] \in V
      BY <1>3, <1>4
    <3>2. QED
      BY <3>1
  <2>2. ASSUME NEW q \in CollectOf(ks, g, n, p) PROVE q \in Path
    <3>1. PICK c \in Children(ks, n) : q = Join(p, Last(c)) \/ q \in g[c][Join(p, Last(c))]
      BY CollectMember
    <3>2. QED
      BY <2>1, <3>1
  <2>3. QED
    BY <2>2
<1>5. ASSUME NEW g \in [P -> V]
      PROVE  F(g) \in [P -> V]
  <2>1. \A n \in P : \A p \in Path : CollectOf(ks, g, n, p) \in SUBSET Path
    <3> HIDE DEF V
    <3>1. QED
      BY <1>4
  <2>2. QED
    BY <2>1
<1>6. ASSUME NEW g, NEW h, NEW x \in P, \A y \in P : Len(x) < Len(y) => g[y] = h[y]
      PROVE  F(g)[x] = F(h)[x]
  <2>1. ASSUME NEW p \in Path PROVE CollectOf(ks, g, x, p) = CollectOf(ks, h, x, p)
    <3>1. \A c \in Children(ks, x) : g[c] = h[c]
      BY <1>2, <1>3, <1>6
    <3>2. \A q : q \in CollectOf(ks, g, x, p) <=> q \in CollectOf(ks, h, x, p)
      BY <3>1, CollectMember
    <3>3. QED
      BY <3>2 DEF CollectOf
  <2>2. QED
    BY <2>1
<1>7. Deepens(P, V, Phi)
  <2>1. Phi \in [[P -> V] -> [P -> V]]
    <3> HIDE DEF F, V
    <3>1. QED
      BY <1>5
  <2>2. \A g \in [P -> V] : Phi[g] = F(g)
    OBVIOUS
  <2> HIDE DEF Phi, F, P, V
  <2>3. ASSUME NEW g \in [P -> V], NEW h \in [P -> V], NEW x \in P,
               \A y \in P : Len(x) < Len(y) => g[y] = h[y]
        PROVE  Phi[g][x] = Phi[h][x]
    <3>1. F(g)[x] = F(h)[x]
      BY <1>6, <2>3
    <3>2. QED
      BY <2>2, <3>1
  <2>4. QED
    BY <2>1, <2>3 DEF Deepens
<1>8. [P -> V] # {}
  <2>1. [n \in P |-> [p \in Path |-> {}]] \in [P -> V]
    OBVIOUS
  <2>2. QED
    BY <2>1
<1>9. \E g : g = F(g)
  <2>1. \A g \in [P -> V] : Phi[g] = F(g)
    OBVIOUS
  <2> HIDE DEF Phi, F, V
  <2>2. PICK g \in [P -> V] : g = Phi[g]
    BY <1>7, <1>8, RecursionDown
  <2>3. QED
    BY <2>1, <2>2
<1>10. collect = F(collect)
  <2> HIDE DEF F
  <2>1. QED
    BY <1>9
<1>11. CollectBranches(ks, <<>>, <<>>) = collect[<<>>][<<>>]
  BY DEF CollectBranches, CollectOf, Path
<1> HIDE DEF collect
<1>12. /\ \A n \in P : collect[n] = [p \in Path |-> CollectOf(ks, collect, n, p)]
       /\ \A n \in P : \A p \in Path : collect[n][p] = CollectOf(ks, collect, n, p)
  <2>1. \A n \in P : F(collect)[n] = [p \in Path |-> CollectOf(ks, collect, n, p)]
    OBVIOUS
  <2> HIDE DEF F
  <2>2. \A n \in P : collect[n] = [p \in Path |-> CollectOf(ks, collect, n, p)]
    BY <1>10, <2>1
  <2>3. QED
    BY <2>2
<1>13. \A n \in P : collect[n] \in V
  <2> DEFINE S == {n \in P : collect[n] \in V}
  <2>1. ASSUME NEW n \in P, \A q \in P : Len(n) < Len(q) => q \in S
        PROVE  n \in S
    <3>1. \A c \in P : Len(n) < Len(c) => collect[c] \in V
      BY <2>1
    <3>2. \A p \in Path : CollectOf(ks, collect, n, p) \in SUBSET Path
      <4> HIDE DEF V
      <4>1. QED
        BY <1>4, <3>1
    <3>3. collect[n] \in V
      BY <1>12, <3>2
    <3>4. QED
      BY <3>3
  <2>2. P \subseteq S
    <3> HIDE DEF S
    <3>1. QED
      BY <2>1, FromTheLeaves
  <2>3. QED
    BY <2>2
<1>14. collect[<<>>][<<>>] \subseteq Path
  BY <1>2, <1>13
<1> DEFINE Branches(n) == {q \in Nodes(ks) : IsStrictPrefix(n, q) /\ IsBranch(ks, q)}
           S == {n \in P : Branches(n) \subseteq collect[n][n]}
<1>15. ASSUME Plain(ks), NEW n \in P, \A q \in P : Len(n) < Len(q) => q \in S, NEW q \in Branches(n)
       PROVE  q \in collect[n][n]
  <2>1. q \in Path /\ n \in Path
    BY <1>1, NodesAre
  <2>2. PICK c \in Children(ks, n) : IsPrefix(c, q)
    BY <2>1, ChildToward
  <2>3. c \in Path /\ c \in P /\ Len(n) < Len(c) /\ Join(n, Last(c)) = c
    BY <1>3, <1>15, <2>1, <2>2, ChildrenAre, JoinIs
  <2>4. CASE q = c
    <3>1. IsBranch(ks, c)
      BY <2>4
    <3>2. q \in CollectOf(ks, collect, n, n)
      BY <2>3, <2>4, <3>1, CollectMember
    <3>3. QED
      BY <1>12, <2>1, <3>2
  <2>5. CASE q # c
    <3>1. IsStrictPrefix(c, q)
      BY <2>2, <2>5 DEF IsStrictPrefix
    <3>2. IsBranch(ks, c)
      BY <2>3, <3>1, ChildToward DEF IsBranch
    <3>3. q \in collect[c][c]
      BY <1>15, <2>3, <3>1
    <3>4. q \in CollectOf(ks, collect, n, n)
      BY <2>3, <3>2, <3>3, CollectMember
    <3>5. QED
      BY <1>12, <2>1, <3>4
  <2>6. QED
    BY <2>4, <2>5
<1>16. ASSUME Plain(ks) PROVE P \subseteq S
  <2>1. ASSUME NEW n \in P, \A q \in P : Len(n) < Len(q) => q \in S PROVE n \in S
    <3>1. Branches(n) \subseteq collect[n][n]
      <4> HIDE DEF Branches, S
      <4>1. QED
        BY <1>15, <1>16, <2>1
    <3>2. QED
      BY <3>1
  <2> HIDE DEF S
  <2>2. QED
    BY <2>1, FromTheLeaves
<1>17. ASSUME Plain(ks), NEW q \in Nodes(ks), IsBranch(ks, q)
       PROVE  q \in collect[<<>>][<<>>]
  <2>1. q \in Path /\ q # <<>>
    BY NodesAre
  <2>2. IsStrictPrefix(<<>>, q)
    BY <2>1, PrefixOrder DEF IsStrictPrefix
  <2>3. QED
    BY <1>2, <1>16, <1>17, <2>2
<1>18. QED
  BY <1>11, <1>14, <1>17

-----------------------------------------------------------------------------
(* The App's rows                                                          *)

\* The inductive invariant: the rows are what walk makes of the tree as it is, so they
\* never lag behind keys and expanded, and the cursor is on one of them.
TreeInv ==
  /\ keys \subseteq Universe /\ IsFiniteSet(keys) /\ expanded \subseteq Path
  /\ rows = Walk(keys, expanded, <<>>, <<>>)
  /\ selected \in Nat \ {0}
  /\ rows # <<>> => selected \in DOMAIN rows

LEMMA KeysAreGood ==
  ASSUME NEW ks, ks \subseteq Universe, IsFiniteSet(ks)
  PROVE  Good(ks) /\ (NoLeadingSeparator => Plain(ks))
  BY UniverseAssumption DEF Good, Plain, NoLeadingSeparator, Path

LEMMA LeastIs ==
  ASSUME NEW n \in Nat, NEW S, S \subseteq 1 .. n, S # {}
  PROVE  (CHOOSE i \in S : \A j \in S : i <= j) \in S
<1>1. S \subseteq Int /\ \A x \in S : 1 <= x
  OBVIOUS
<1>2. Min(S) \in S /\ \A x \in S : Min(S) <= x
  BY <1>1, MinIs, 1 \in Int
<1>3. QED
  BY <1>2

\* A rebuild shows the tree as it is now, with the cursor on a row of it, and on the row
\* it came from when that is there.
LEMMA RebuildIs ==
  ASSUME NEW from \in Nat \ {0}, Rebuild(from),
         keys' \subseteq Universe, IsFiniteSet(keys'), expanded' \subseteq Path
  PROVE  /\ TreeInv'
         /\ from \in DOMAIN rows /\ (\E i \in DOMAIN rows' : rows'[i].path = rows[from].path)
              => rows'[selected'].path = rows[from].path
<1> DEFINE same == {i \in DOMAIN rows' : from \in DOMAIN rows /\ rows'[i].path = rows[from].path}
           line == IF same = {} THEN from ELSE CHOOSE i \in same : \A j \in same : i <= j
<1>1. /\ rows' = Walk(keys', expanded', <<>>, <<>>)
      /\ selected' = IF line <= Len(rows') THEN line ELSE IF rows' = <<>> THEN 1 ELSE Len(rows')
  BY DEF Rebuild
<1>2. rows' \in Seq(Line)
  <2>1. Good(keys')
    BY KeysAreGood
  <2>2. QED
    BY <1>1, <2>1, WalkIsRows
<1>3. Len(rows') \in Nat /\ DOMAIN rows' = 1 .. Len(rows') /\ (rows' # <<>> => Len(rows') # 0)
  BY <1>2
<1>4. same \subseteq 1 .. Len(rows')
  BY <1>3
<1>5. same # {} => line \in same
  <2> HIDE DEF same
  <2>1. QED
    BY <1>3, <1>4, LeastIs
<1>6. line \in Nat \ {0}
  <2> HIDE DEF same
  <2>1. CASE same = {}
    BY <2>1
  <2>2. CASE same # {}
    <3> HIDE DEF line
    <3>1. line \in 1 .. Len(rows')
      BY <1>4, <1>5, <2>2
    <3>2. QED
      BY <3>1
  <2>3. QED
    BY <2>1, <2>2
<1>7. ASSUME from \in DOMAIN rows, NEW i \in DOMAIN rows', rows'[i].path = rows[from].path
      PROVE  rows'[selected'].path = rows[from].path
  <2>1. line \in same
    <3>1. same # {}
      BY <1>7
    <3> HIDE DEF same, line
    <3>2. QED
      BY <1>5, <3>1
  <2>2. selected' = line
    <3> HIDE DEF same, line
    <3>1. line \in 1 .. Len(rows')
      BY <1>4, <2>1
    <3>2. line <= Len(rows')
      BY <1>3, <3>1
    <3>3. QED
      BY <1>1, <3>2
  <2> HIDE DEF line
  <2>3. QED
    BY <2>1, <2>2
<1> HIDE DEF line
<1>8. selected' \in Nat \ {0} /\ (rows' # <<>> => selected' \in DOMAIN rows')
  BY <1>1, <1>3, <1>6
<1>9. QED
  BY <1>1, <1>7, <1>8 DEF TreeInv

\* A row's path is a path, so toggling it keeps expanded well-typed.
LEMMA RowsType ==
  ASSUME TreeInv
  PROVE  /\ rows \in Seq(Line) /\ Len(rows) \in Nat /\ DOMAIN rows = 1 .. Len(rows)
         /\ (rows # <<>> => Len(rows) # 0)
         /\ OnRow => CursorRow \in Line /\ CursorRow.path \in Path
<1>1. rows \in Seq(Line)
  BY KeysAreGood, WalkIsRows DEF TreeInv
<1>2. ASSUME NEW i \in DOMAIN rows PROVE rows[i] \in Line
  BY <1>1
<1>3. QED
  BY <1>1, <1>2 DEF OnRow, CursorRow, Line

LEMMA ToggledType ==
  ASSUME NEW p \in Path, expanded \subseteq Path
  PROVE  Toggled(p) \subseteq Path
  BY DEF Toggled

\* An empty tree has no rows.
LEMMA InvInit == TreeInit => TreeInv
<1>1. SUFFICES ASSUME TreeInit PROVE TreeInv
  OBVIOUS
<1>2. keys = {} /\ expanded = {} /\ rows = <<>> /\ selected = 1
  BY <1>1 DEF TreeInit
<1>3. IsFiniteSet({})
  BY FS_EmptySet
<1>4. Good({}) /\ Plain({})
  BY <1>3 DEF Good, Plain
<1> DEFINE s == Walk({}, {}, <<>>, <<>>)
<1>5. Shows(s, {}, {}, Shown({}, {})) /\ s \in Seq(Line)
  BY <1>4, WalkIsRows
<1>6. Shown({}, {}) = {}
  <2>1. RowNodes({}) = {}
    BY DEF RowNodes, Nodes
  <2>2. QED
    BY <2>1 DEF Shown
<1> HIDE DEF s
<1>7. s = <<>>
  <2>1. DOMAIN s = {}
    BY <1>5, <1>6 DEF Shows
  <2>2. QED
    BY <1>5, <2>1
<1>8. QED
  BY <1>2, <1>3, <1>7 DEF TreeInv, s

\* Each action rebuilds the rows or leaves all they depend on alone.
LEMMA InvStep == TreeInv /\ [TreeNext]_treeVars => TreeInv'
<1>1. SUFFICES ASSUME TreeInv, [TreeNext]_treeVars PROVE TreeInv'
  OBVIOUS
<1>2. /\ keys \subseteq Universe /\ IsFiniteSet(keys) /\ expanded \subseteq Path
      /\ selected \in Nat \ {0} /\ 1 \in Nat \ {0}
      /\ Good(keys)
  BY <1>1, KeysAreGood DEF TreeInv
<1>3. ASSUME NEW b \in Batches, AddBatch(b) PROVE TreeInv'
  <2>1. b \subseteq Universe /\ IsFiniteSet(b)
    BY DEF Batches
  <2>2. keys' = keys \cup b /\ expanded' = expanded /\ Rebuild(selected)
    BY <1>3 DEF AddBatch
  <2>3. IsFiniteSet(keys \cup b)
    BY <1>2, <2>1, FS_Union
  <2>4. QED
    BY <1>2, <2>1, <2>2, <2>3, RebuildIs
<1>4. ASSUME NEW b \in Batches, ResetTo(b) PROVE TreeInv'
  <2>1. b \subseteq Universe /\ IsFiniteSet(b)
    BY DEF Batches
  <2>2. keys' = b /\ expanded' = expanded /\ Rebuild(1)
    BY <1>4 DEF ResetTo
  <2>3. QED
    BY <1>2, <2>1, <2>2, RebuildIs
<1>5. CASE Enter
  <2>1. OnRow /\ expanded' = Toggled(CursorRow.path) /\ keys' = keys /\ Rebuild(selected)
    BY <1>5 DEF Enter
  <2>2. expanded' \subseteq Path
    BY <1>1, <1>2, <2>1, RowsType, ToggledType
  <2>3. QED
    BY <1>2, <2>1, <2>2, RebuildIs
<1>6. CASE Left
  <2>1. OnRow
    BY <1>6 DEF Left
  <2>2. CASE CursorRow.open
    <3>1. expanded' = Toggled(CursorRow.path) /\ keys' = keys /\ Rebuild(selected)
      BY <1>6, <2>2 DEF Left
    <3>2. expanded' \subseteq Path
      BY <1>1, <1>2, <2>1, <3>1, RowsType, ToggledType
    <3>3. QED
      BY <1>2, <3>1, <3>2, RebuildIs
  <2>3. CASE ~CursorRow.open
    <3> DEFINE parents == {i \in DOMAIN rows : rows[i].path = Front(CursorRow.path)}
    <3>1. /\ parents # {} /\ UNCHANGED <<keys, expanded, rows>>
          /\ selected' = CHOOSE i \in parents : \A j \in parents : i <= j
      BY <1>6, <2>3 DEF Left
    <3>2. parents \subseteq 1 .. Len(rows) /\ Len(rows) \in Nat /\ DOMAIN rows = 1 .. Len(rows)
      BY <1>1, RowsType
    <3> HIDE DEF parents
    <3>3. selected' \in 1 .. Len(rows)
      BY <3>1, <3>2, LeastIs
    <3>4. selected' \in Nat \ {0} /\ selected' \in DOMAIN rows'
      <4>1. rows' = rows
        BY <3>1
      <4>2. QED
        BY <3>2, <3>3, <4>1
    <3>5. QED
      BY <1>1, <3>1, <3>4 DEF TreeInv
  <2>4. QED
    BY <2>2, <2>3
<1>7. CASE ExpandAll
  <2>1. /\ expanded' = expanded \cup CollectBranches(keys, <<>>, <<>>)
        /\ keys' = keys /\ Rebuild(selected)
    BY <1>7 DEF ExpandAll
  <2>2. expanded' \subseteq Path
    BY <1>2, <2>1, CollectIs
  <2>3. QED
    BY <1>2, <2>1, <2>2, RebuildIs
<1>8. CASE CollapseAll
  <2>1. expanded' = {} /\ keys' = keys /\ Rebuild(selected)
    BY <1>8 DEF CollapseAll
  <2>2. QED
    BY <1>2, <2>1, RebuildIs
<1>9. CASE MoveSelected
  <2>1. rows # <<>> /\ UNCHANGED <<keys, expanded, rows>>
    BY <1>9 DEF MoveSelected
  <2>2. Len(rows) \in Nat /\ Len(rows) # 0 /\ DOMAIN rows = 1 .. Len(rows)
    BY <1>1, <2>1, RowsType
  <2>3. selected' \in 1 .. Len(rows)
    <3>1. selected \in 1 .. Len(rows)
      BY <1>1, <2>1, <2>2 DEF TreeInv
    <3>2. \/ \E d \in {1, 10} : selected' = IF selected + d > Len(rows) THEN Len(rows)
                                            ELSE IF selected + d < 1 THEN 1 ELSE selected + d
          \/ \E d \in {1, 10} : selected' = IF selected > d THEN selected - d ELSE 1
          \/ selected' \in {1, Len(rows)}
      BY <1>9 DEF MoveSelected
    <3>3. QED
      BY <2>2, <3>1, <3>2
  <2>4. selected' \in Nat \ {0} /\ selected' \in DOMAIN rows'
    BY <2>1, <2>2, <2>3
  <2>5. QED
    BY <1>1, <2>1, <2>4 DEF TreeInv
<1>10. CASE UNCHANGED treeVars
  BY <1>1, <1>10 DEF treeVars, TreeInv
<1>11. QED
  BY <1>1, <1>3, <1>4, <1>5, <1>6, <1>7, <1>8, <1>9, <1>10 DEF TreeNext

\* The invariant holds of every behaviour, whatever the keys are.
THEOREM TreeInvariant == TreeSpec => []TreeInv
  BY InvInit, InvStep, PTL DEF TreeSpec

\* The cursor is on a row whenever there is one (App.selected indexes App.rows).
THEOREM TreeTypes == TreeSpec => []TreeTypeOK
<1>1. TreeInv => TreeTypeOK
  BY DEF TreeInv, TreeTypeOK, Path
<1>2. QED
  BY <1>1, TreeInvariant, PTL

\* If no key begins with the separator, the rows on the screen are those of the tree as it
\* is, after every sequence of batches, resets and keys (KeyTree::walk, App::rebuild).  A
\* key that does begin with it is a row walk joins under the wrong path, so the
\* hypothesis is needed.
THEOREM RowsAreRight == NoLeadingSeparator => (TreeSpec => []RowsAreOfTheTree)
<1>1. SUFFICES ASSUME NoLeadingSeparator PROVE TreeSpec => []RowsAreOfTheTree
  OBVIOUS
<1>2. TreeInv => RowsAreOfTheTree
  <2>1. SUFFICES ASSUME TreeInv PROVE RowsAreOfTheTree
    OBVIOUS
  <2>2. Good(keys) /\ Plain(keys)
    BY <1>1, <2>1, KeysAreGood DEF TreeInv
  <2>3. QED
    BY <2>1, <2>2, WalkIsRows DEF TreeInv, RowsAreOfTheTree
<1>3. QED
  BY <1>2, TreeInvariant, PTL

\* If no key begins with the separator, E leaves exactly one row for each key
\* (KeyTree::expand_all).
THEOREM EveryKeyShown == NoLeadingSeparator => (TreeSpec => []EveryKeyHasItsRow)
<1>1. SUFFICES ASSUME NoLeadingSeparator PROVE TreeSpec => []EveryKeyHasItsRow
  OBVIOUS
<1>2. TreeInv => EveryKeyHasItsRow
  <2>1. SUFFICES ASSUME TreeInv, CollectBranches(keys, <<>>, <<>>) \subseteq expanded, NEW k \in keys
                 PROVE  \E i \in DOMAIN rows :
                          /\ rows[i].key /\ rows[i].path = k
                          /\ \A j \in DOMAIN rows : rows[j].path = k => j = i
    BY DEF EveryKeyHasItsRow
  <2>2. Good(keys) /\ Plain(keys)
    BY <1>1, <2>1, KeysAreGood DEF TreeInv
  <2>3. Shows(rows, keys, expanded, Shown(keys, expanded))
    BY <2>1, <2>2, WalkIsRows DEF TreeInv
  <2>4. k \in RowNodes(keys) /\ k \in Path /\ k \in Nodes(keys)
    BY <2>2, NodesAre, RowNodesAre
  <2>5. ASSUME NEW r \in Above(keys, k) PROVE r \in expanded
    <3>1. r \in RowNodes(keys) /\ IsStrictPrefix(r, k)
      BY DEF Above
    <3>2. r \in Nodes(keys) /\ r \in Path
      BY <2>2, <3>1, RowNodesAre
    <3>3. IsBranch(keys, r)
      BY <2>2, <2>4, <3>1, <3>2, ChildToward DEF IsBranch
    <3>4. QED
      BY <2>1, <2>2, <3>2, <3>3, CollectIs
  <2>6. k \in Shown(keys, expanded)
    BY <2>4, <2>5 DEF Shown
  <2>7. PICK i \in DOMAIN rows : rows[i] = RowOf(keys, expanded, k)
    BY <2>3, <2>6 DEF Shows
  <2>8. rows[i].key /\ rows[i].path = k
    <3>1. RowOf(keys, expanded, k).path = k /\ RowOf(keys, expanded, k).key = (k \in keys)
      BY DEF RowOf
    <3>2. QED
      BY <2>1, <2>7, <3>1
  <2>9. ASSUME NEW j \in DOMAIN rows, rows[j].path = k PROVE j = i
    <3>1. i \in Nat /\ j \in Nat
      BY <2>1, RowsType
    <3>2. ~RowBefore(keys, k, k)
      BY <2>4, NotBeforeItself
    <3>3. ~(i < j) /\ ~(j < i)
      BY <2>3, <2>8, <2>9, <3>2 DEF Shows
    <3>4. QED
      BY <3>1, <3>3
  <2>10. QED
    BY <2>8, <2>9
<1>3. QED
  BY <1>2, TreeInvariant, PTL

\* A batch leaves the cursor on its row as long as the row is there (App::rebuild);
\* this one holds of every key, with a leading separator too.
THEOREM CursorKept == TreeSpec => BatchKeepsCursor
<1> DEFINE Kept == \A b \in Batches :
        AddBatch(b) /\ OnRow /\ (\E i \in DOMAIN rows' : rows'[i].path = CursorRow.path)
          => rows'[selected'].path = CursorRow.path
<1>1. TreeInv /\ [TreeNext]_treeVars => [Kept]_treeVars
  <2>1. SUFFICES ASSUME TreeInv, NEW b \in Batches, AddBatch(b), OnRow,
                        \E i \in DOMAIN rows' : rows'[i].path = CursorRow.path
                 PROVE  rows'[selected'].path = CursorRow.path
    OBVIOUS
  <2>2. b \subseteq Universe /\ IsFiniteSet(b) /\ keys \subseteq Universe /\ IsFiniteSet(keys)
    BY <2>1 DEF Batches, TreeInv
  <2>3. keys' = keys \cup b /\ expanded' = expanded /\ Rebuild(selected)
    BY <2>1 DEF AddBatch
  <2>4. /\ keys' \subseteq Universe /\ IsFiniteSet(keys') /\ expanded' \subseteq Path
        /\ selected \in Nat \ {0}
    BY <2>1, <2>2, <2>3, FS_Union DEF TreeInv
  <2>5. QED
    BY <2>1, <2>3, <2>4, RebuildIs DEF OnRow, CursorRow
<1>2. QED
  BY <1>1, TreeInvariant, PTL DEF TreeSpec, BatchKeepsCursor

=============================================================================
