------------------------------ MODULE PaneReads ------------------------------
(***************************************************************************)
(* The reads that take several commands: the probes of what the server     *)
(* permits, the types of the keys a scan returned, the cells of the queue  *)
(* table, a page of jobs, a job and its log, the cluster and its nodes,    *)
(* the channels and their subscribers.  Other clients write between any    *)
(* two commands, commands fail, and on a cluster the commands of a         *)
(* pipeline are routed one by one, a chunk at a time.                      *)
(*                                                                         *)
(* What is read is a cell: a key of the server, or a fact about it.  A     *)
(* reply is abstracted to the content it was computed from, which says     *)
(* whose cell it is and which write put it there.                          *)
(***************************************************************************)
EXTENDS CheckedArithmetic, Sequences, SequencesExt, FiniteSets, FiniteSetsExt

CONSTANTS
  Queues,       \* the names the scan of meta keys returned, in order
  States,       \* State::ALL
  ListBacked,   \* the states kept in lists; the others are sorted sets
  Keys,         \* the keys a batch of the scan returned, in order, repeated or not
  Kinds,        \* the types a key may have
  MaxTyped,     \* MAX_TYPED, the keys that are typed in one pipeline
  Probes,       \* the features that are probed, in order
  Channels,     \* channel names, in the order the server lists them
  ChannelLimit, \* PUBSUB_CHANNELS
  LogLimit,     \* JOB_LOG_LINES
  ChunkSize,    \* commands of a pipeline in flight at once on a cluster
  JobIds,       \* write w leaves the ids JobIds[w + 1] in a state's key, lowest first,
  JobHashes,    \* and the stamps JobHashes[w + 1] in a job's
  MaxChanges,   \* writes of other clients (bound of the model)
  MaxLost       \* commands that fail in transit (bound)

ASSUME CellsAssumption ==
  /\ \A s \in {Queues, States, Keys, Probes, Channels} : s \in Seq(ToSet(s))
  /\ IsInjective(Queues) /\ IsInjective(States) /\ IsInjective(Channels)
  /\ IsInjective(Probes)
  /\ ListBacked \subseteq ToSet(States)
  /\ {"meta", "hash", "logs", "page", "kind", "permit", "info", "nodes", "subscribers"}
       \cap ToSet(States) = {}
  /\ Kinds \cap {"none", "failed"} = {} /\ "hash" \in Kinds

ASSUME LimitsAssumption ==
  /\ {MaxChanges, MaxLost, ChannelLimit} \subseteq Nat
  /\ {ChunkSize, MaxTyped} \subseteq Nat \ {0} /\ LogLimit \in 1..MaxInt

\* A stamp is an Option of an i64.
ASSUME WritesAssumption ==
  \A w \in 0..MaxChanges :
    /\ JobIds[w + 1] \in Seq(ToSet(JobIds[w + 1]))
    /\ LET job == JobHashes[w + 1]
       IN {job.timestamp, job.processedOn, job.finishedOn}
            \subseteq {{}} \cup {{stamp} : stamp \in I64}

VARIABLES
  ask,       \* what is read
  clustered, \* whether the connection is to a cluster
  world,     \* the content of each cell
  changes,   \* writes of other clients so far
  phase,     \* "begin", the stage of the read, or "done"
  batch,     \* the commands of the stage
  answered,  \* the positions of the batch that have been answered
  replies,   \* the replies, by position
  first,     \* what the first stage found
  result,
  held,      \* history: what each cell has held since the read began
  hurt       \* history: the cells a command for which failed in transit

askVars == <<ask, clustered>>
worldVars == <<world, changes, held>>
stageVars == <<phase, batch, answered, replies, first, result>>
vars == <<askVars, worldVars, stageVars, hurt>>

-----------------------------------------------------------------------------
(* Cells and their content *)

Cell(owner, part) == [owner |-> owner, part |-> part]
KindOf(key) == Cell(key, "kind")
QueueParts == {"meta"} \cup ToSet(States)
JobHash == Cell("job", "hash")
JobLog == Cell("job", "logs")
PageCell(state) == Cell(state, "page")
ClusterInfo == Cell("cluster", "info")
ClusterNodes == Cell("cluster", "nodes")
Pipeline == Cell("pipeline", "replies")
Permit(feature) == Cell(feature, "permit")
Subscribers(channel) == Cell(channel, "subscribers")

Asks == [read : {"probes", "queues", "job", "channels"}]
          \cup [read : {"cluster"}, enabled : BOOLEAN]
          \cup [read : {"types"}, wanted : Kinds \cup {"any"}]
          \cup [read : {"page"}, state : ToSet(States), offset : Size, limit : Size]

CellsOf(a) ==
  CASE a.read = "probes" -> {Permit(f) : f \in ToSet(Probes)}
    [] a.read = "queues" -> {Cell(q, p) : q \in ToSet(Queues), p \in QueueParts}
    [] a.read = "page" -> {PageCell(a.state)}
    [] a.read = "job" -> {JobHash, JobLog}
    [] a.read = "cluster" -> {ClusterInfo, ClusterNodes}
    [] a.read = "types" -> {KindOf(k) : k \in ToSet(Keys)}
    [] a.read = "channels" -> {Subscribers(c) : c \in ToSet(Channels)}

StateType(state) == IF state \in ListBacked THEN "list" ELSE "zset"

\* The Redis type of a key by BullMQ's layout, and at first of one of the browser;
\* the rest are facts of the server.
Type(cell) ==
  CASE cell.part \in {"meta", "hash", "kind"} -> "hash"
    [] cell.part = "logs" -> "list"
    [] cell.part = "permit" -> "yes"
    [] cell.part = "page" -> StateType(cell.owner)
    [] cell.part \in ToSet(States) -> StateType(cell.part)
    [] OTHER -> "fact"

Content(cell, type, write) == [type |-> type, of |-> cell, write |-> write]
Gone == [type |-> "none"]
Failed == [type |-> "failed"]
Original(cell) == Content(cell, Type(cell), 0)

\* What a server says to a probe: yes, that it does not like the key or the
\* arguments, that it is not allowed, or that it does not know the command.
Permits == {"yes", "quibble", "syntax", "denied", "unknown"}

\* What another client may leave in a cell: nothing, or a key of another type.
Facts == {ClusterInfo, ClusterNodes}
Left(cell, write) ==
  IF cell \in Facts THEN {Content(cell, "fact", write)}
  ELSE IF cell.part = "permit" THEN {Content(cell, p, write) : p \in Permits}
  ELSE IF cell.part = "kind" THEN {Gone} \cup {Content(cell, k, write) : k \in Kinds}
  ELSE {Gone, Content(cell, Type(cell), write)}
         \cup (IF Type(cell) = "fact" THEN {} ELSE {Content(cell, "other", write)})

\* The ids of a state in the order its range command counts them: a list from its
\* head, a sorted set from its newest.
Ids(content) == IF content = Gone THEN <<>>
                ELSE IF content.of.owner \in ListBacked THEN JobIds[content.write + 1]
                ELSE Reverse(JobIds[content.write + 1])
Between(content, bounds) ==
  LET found == Positions(bounds, Len(Ids(content)))
  IN IF found = {} THEN <<>> ELSE SubSeq(Ids(content), Min(found) + 1, Max(found) + 1)

Change ==
  /\ changes < MaxChanges /\ phase # "done"
  /\ \E cell \in CellsOf(ask) : \E c \in Left(cell, changes + 1) :
       /\ world[cell] # c
       /\ world' = [world EXCEPT ![cell] = c]
       /\ held' = IF phase = "begin" THEN held ELSE [held EXCEPT ![cell] = @ \cup {c}]
  /\ changes' = changes + 1
  /\ UNCHANGED <<askVars, stageVars, hurt>>

-----------------------------------------------------------------------------
(* Commands *)

Command(op, cell) == [op |-> op, cell |-> cell]
Ranged(op, cell, bounds) == [op |-> op, cell |-> cell, bounds |-> bounds]

CountOp(state) == IF state \in ListBacked THEN "LLEN" ELSE "ZCARD"
RangeOp(state) == IF state \in ListBacked THEN "LRANGE" ELSE "ZREVRANGE"

\* The type a command is for; one on another type is refused with WRONGTYPE.
For(op) == CASE op \in {"LLEN", "LRANGE"} -> "list"
             [] op \in {"ZCARD", "ZREVRANGE"} -> "zset"
             [] op = "HMGET" -> "hash"
             [] OTHER -> "fact"

\* The commands of these reads that the connection lets through.
ReadOnlyCommands ==
  {"HMGET", "LLEN", "LRANGE", "ZCARD", "ZREVRANGE",
   "TYPE", "CLUSTER_INFO", "CLUSTER_NODES", "PUBSUB_CHANNELS", "PUBSUB_NUMSUB"}

\* The elements at some positions of a sequence, in its order.
Kept(s, positions) ==
  FlattenSeq([i \in DOMAIN s |-> IF i \in positions THEN <<s[i]>> ELSE <<>>])

Listed == Kept(Channels, {i \in DOMAIN Channels : world[Subscribers(Channels[i])] # Gone})
Answer(c) ==
  CASE c.op = "PUBSUB_CHANNELS" -> [type |-> "names", names |-> Listed]
    [] c.op = "PUBSUB_NUMSUB" ->
         [type |-> "counts", counts |-> [n \in ToSet(first.names) |-> world[Subscribers(n)]]]
    [] c.op \in {"TYPE", "probe"} -> world[c.cell]
    [] OTHER -> IF world[c.cell] # Gone /\ world[c.cell].type # For(c.op) THEN Failed
                ELSE world[c.cell]

Unanswered == DOMAIN batch \ answered

\* One pipeline goes over one connection and is executed in its order; a cluster
\* routes each command by itself, and a chunk is awaited before the next is sent.
Chunk(i) == (i - 1) \div ChunkSize
Ready(i) ==
  /\ phase # "done"
  /\ \A j \in Unanswered :
       IF clustered /\ phase # "serial" THEN Chunk(i) <= Chunk(j) ELSE i <= j

(* Mutant: replies are collected in the order in which they arrive.        *)
SlotByArrival(i) == Cardinality(answered) + 1

\* join_all returns the replies of a chunk in the order of its commands.
Slot(i) == i

Take(i, reply) ==
  /\ answered' = answered \cup {i}
  /\ replies' = [j \in DOMAIN replies \cup {Slot(i)} |->
                   IF j = Slot(i) THEN reply ELSE replies[j]]
  /\ UNCHANGED <<askVars, worldVars, phase, batch, first, result>>

Execute == \E i \in Unanswered :
  Ready(i) /\ Take(i, Answer(batch[i])) /\ UNCHANGED hurt

\* The command is refused, times out, or its connection breaks.
Lose == Cardinality(hurt) < MaxLost
Fail == \E i \in Unanswered :
  Ready(i) /\ Lose /\ Take(i, Failed) /\ hurt' = hurt \cup {batch[i].cell}

Complete == Unanswered = {}
Reply(i) == IF i \in DOMAIN replies THEN replies[i] ELSE Failed

-----------------------------------------------------------------------------
(* Stages *)

NoResult == [ok |-> FALSE, rows |-> <<>>, page |-> <<>>, job |-> <<>>]
Err == NoResult
Rows(rows) == [NoResult EXCEPT !.ok = TRUE, !.rows = rows]
Row(owner, cells) == [owner |-> owner, cells |-> cells]

Return(r) ==
  /\ phase' = "done" /\ result' = r
  /\ UNCHANGED <<batch, answered, replies, first>>

Start(stage, cmds, found) ==
  /\ phase' = stage /\ batch' = cmds /\ first' = found
  /\ answered' = {} /\ replies' = <<>>
  /\ UNCHANGED result

\* A command that is not on the allowlist fails the whole batch unsent.
Send(stage, cmds, found) ==
  IF \E i \in DOMAIN cmds : cmds[i].op \notin ReadOnlyCommands THEN Return(Err)
  ELSE Start(stage, cmds, found)

Stays == UNCHANGED <<askVars, worldVars, hurt>>

PerQueue == 1 + Len(States)
Base(i) == (i - 1) * PerQueue
SummaryBatch ==
  FlattenSeq([i \in DOMAIN Queues |->
    <<Command("HMGET", Cell(Queues[i], "meta"))>>
      \o [j \in DOMAIN States |-> Command(CountOp(States[j]), Cell(Queues[i], States[j]))]])

\* The probes are the connection's own and pass no allowlist.
ProbeBatch == [i \in DOMAIN Probes |-> Command("probe", Permit(Probes[i]))]

TypeBatch(done) ==
  [i \in 1..Min({MaxTyped, Len(Keys) - done}) |-> Command("TYPE", KindOf(Keys[done + i]))]

Begin ==
  /\ phase = "begin"
  /\ held' = [cell \in CellsOf(ask) |-> {world[cell]}]
  /\ CASE ask.read = "probes" -> Start(IF clustered THEN "serial" ELSE "probes", ProbeBatch, Gone)
       [] ask.read = "queues" ->
            IF Queues = <<>> THEN Return(Rows(<<>>)) ELSE Send("cells", SummaryBatch, Gone)
       [] ask.read = "types" ->
            IF Keys = <<>> THEN Return(Rows(<<>>)) ELSE Send("types", TypeBatch(0), <<>>)
       [] ask.read = "page" ->
            LET bounds == PageRange(ask.offset, ask.limit)
            IN IF bounds = NoBounds THEN Return(Rows(<<>>))
               ELSE Send("page", <<Ranged(RangeOp(ask.state), PageCell(ask.state), bounds)>>, Gone)
       [] ask.read = "job" -> Send("job", <<Command("HMGET", JobHash)>>, Gone)
       [] ask.read = "cluster" -> Send("info", <<Command("CLUSTER_INFO", ClusterInfo)>>, Gone)
       [] ask.read = "channels" ->
            Send("names", <<Command("PUBSUB_CHANNELS", Cell("channels", "names"))>>, Gone)
  /\ UNCHANGED <<askVars, world, changes, hurt>>

\* An error is not unavailability: only a refusal counts, or an unknown command, or
\* a SCAN that does not know the option TYPE.
Availability(feature, permit) ==
  CASE permit = "denied" -> "Denied"
    [] permit = "unknown" \/ (permit = "syntax" /\ feature = "scan_type") -> "Unsupported"
    [] OTHER -> "Available"

FinishProbes ==
  /\ phase \in {"probes", "serial"} /\ Complete
  /\ Return(Rows([i \in DOMAIN Probes |->
         Row(Probes[i], [permit |-> Availability(Probes[i], Reply(i).type)])]))
  /\ Stays

\* With a type wanted, a key without one, or whose type was not read, is left out.
Typed(kinds) ==
  Kept([i \in DOMAIN kinds |-> Row(Keys[i], [kind |-> kinds[i]])],
       {i \in DOMAIN kinds : ask.wanted \in {"any", kinds[i].type}})

\* One slot to a key: chunk by chunk the types follow those read before.
TypesRead(kinds) ==
  IF Len(kinds) = Len(Keys) THEN Return(Rows(Typed(kinds)))
  ELSE Send("types", TypeBatch(Len(kinds)), kinds)

FinishTypes ==
  /\ phase = "types" /\ Complete
  /\ TypesRead(first \o [i \in DOMAIN batch |-> Reply(i)])
  /\ Stays

\* The pipeline comes back with another number of replies: no slot of it is used.
\* The probes are sent again, one by one.
Misaligned ==
  /\ ~clustered /\ Lose
  /\ \/ phase = "cells" /\ Return(Err)
     \/ phase = "probes" /\ Start("serial", batch, Gone)
     \/ phase = "types" /\ TypesRead(first \o [i \in DOMAIN batch |-> Failed])
  /\ hurt' = hurt \cup {Pipeline}
  /\ UNCHANGED <<askVars, worldVars>>

\* A reply that is an error, or of a key that is not there, leaves the default.
Shown(reply) == IF reply = Failed THEN Gone ELSE reply
QueueRow(i) ==
  Row(Queues[i], [p \in QueueParts |->
    IF p = "meta" THEN Shown(Reply(Base(i) + 1))
    ELSE Shown(Reply(Base(i) + 1 + CHOOSE j \in DOMAIN States : States[j] = p))])

FinishCells ==
  /\ phase = "cells" /\ Complete
  /\ Return(Rows([i \in DOMAIN Queues |-> QueueRow(i)]))
  /\ Stays

FinishPage ==
  /\ phase = "page" /\ Complete
  /\ Return(IF Reply(1) = Failed THEN Err
            ELSE [Rows(<<>>) EXCEPT !.page = Between(Reply(1), batch[1].bounds)])
  /\ Stays

\* from_fields: the attempts are written under the short name by v6, under the
\* long one before it.
Decoded(hash) ==
  [attempts |-> IF "atm" \in DOMAIN hash THEN hash.atm ELSE hash.attemptsMade,
   waited |-> Elapsed(hash.timestamp, hash.processedOn),
   ran |-> Elapsed(hash.processedOn, hash.finishedOn)]

FinishJob ==
  /\ phase = "job" /\ Complete
  /\ IF Reply(1) = Failed THEN Return(Err)
     ELSE IF Reply(1) = Gone THEN Return(Rows(<<>>))
     ELSE Send("logs", <<Ranged("LRANGE", JobLog, PageRange(0, LogLimit))>>, Reply(1))
  /\ Stays

\* Its logs are usually absent, and never a reason to fail the job.
FinishLogs ==
  /\ phase = "logs" /\ Complete
  /\ Return([Rows(<<Row("job", [hash |-> first, logs |-> Shown(Reply(1))])>>)
               EXCEPT !.job = <<Decoded(JobHashes[first.write + 1])>>])
  /\ Stays

\* The nodes only where clustering is on; without them the rest is shown.
FinishInfo ==
  /\ phase = "info" /\ Complete
  /\ IF Reply(1) = Failed THEN Return(Err)
     ELSE IF ask.enabled THEN Send("nodes", <<Command("CLUSTER_NODES", ClusterNodes)>>, Reply(1))
     ELSE Return(Rows(<<Row("cluster", [info |-> Reply(1)])>>))
  /\ Stays

FinishNodes ==
  /\ phase = "nodes" /\ Complete
  /\ Return(Rows(<<Row("cluster", [info |-> first, nodes |-> Shown(Reply(1))])>>))
  /\ Stays

FinishNames ==
  /\ phase = "names" /\ Complete
  /\ IF Reply(1) = Failed THEN Return(Err)
     ELSE LET names == SubSeq(Reply(1).names, 1, Min({Len(Reply(1).names), ChannelLimit}))
          IN IF names = <<>> THEN Return(Rows(<<>>))
             ELSE Send("counts", <<Command("PUBSUB_NUMSUB", Cell("channels", "counts"))>>,
                       [type |-> "names", names |-> names])
  /\ Stays

FinishCounts ==
  /\ phase = "counts" /\ Complete
  /\ Return(IF Reply(1) = Failed THEN Err
            ELSE Rows([i \in DOMAIN first.names |->
                   Row(first.names[i], [subscribers |-> Reply(1).counts[first.names[i]]])]))
  /\ Stays

-----------------------------------------------------------------------------

Init ==
  /\ ask \in Asks /\ clustered \in BOOLEAN
  /\ LET usual == [cell \in CellsOf(ask) |-> Original(cell)]
     IN world \in {usual} \cup {[usual EXCEPT ![cell] = c] : cell \in CellsOf(ask),
                                c \in UNION {Left(d, 0) : d \in CellsOf(ask)}}
  /\ \A cell \in CellsOf(ask) : world[cell] \in Left(cell, 0)
  /\ changes = 0 /\ held = [cell \in CellsOf(ask) |-> {}] /\ hurt = {}
  /\ phase = "begin" /\ batch = <<>> /\ answered = {} /\ replies = <<>>
  /\ first = Gone /\ result = NoResult

Next ==
  \/ Change
  \/ Begin \/ Execute \/ Fail \/ Misaligned
  \/ FinishProbes \/ FinishTypes \/ FinishCells \/ FinishPage \/ FinishJob \/ FinishLogs
  \/ FinishInfo \/ FinishNodes \/ FinishNames \/ FinishCounts

Spec == Init /\ [][Next]_vars

-----------------------------------------------------------------------------
(* Properties *)

Contents(cell) == UNION {Left(cell, w) : w \in 0..MaxChanges}
Durations == {{}} \cup {{d} : d \in 0..MaxInt}

\* The cells of the read, the replies of its batch, and durations that do not overflow.
TypeOK ==
  /\ ask \in Asks /\ clustered \in BOOLEAN
  /\ DOMAIN world = CellsOf(ask) /\ DOMAIN held = CellsOf(ask) /\ changes \in 0..MaxChanges
  /\ \A cell \in CellsOf(ask) : {world[cell]} \cup held[cell] \subseteq Contents(cell)
  /\ answered \subseteq DOMAIN batch /\ DOMAIN replies \subseteq DOMAIN batch
  /\ Cardinality(hurt) <= MaxLost
  /\ \A i \in DOMAIN result.job : {result.job[i].waited, result.job[i].ran} \subseteq Durations

Done == phase = "done"
Refused(cell) == {cell, Pipeline} \cap hurt # {} \/ \E c \in held[cell] : c.type = "other"

\* Whatever a pane shows in a cell was in that cell of the server, and of its type,
\* after the read began: no reply is taken for that of another command, in one
\* pipeline or routed over a cluster.  Where the default is shown instead there was
\* nothing, or the command for this cell was refused or lost; and the read as a
\* whole fails only with a command that it cannot do without.  A key is left out of a
\* batch only if its type was not the one wanted or could not be read; and a feature
\* is what the answer to its own probe says, or available where that was lost.
Essential(cell) == cell.part \in {"page", "hash", "info", "names", "counts", "replies"}
WantedAreKept ==
  LET shown == [i \in DOMAIN result.rows |-> result.rows[i].owner]
  IN IF ask.wanted = "any" THEN shown = Keys
     ELSE /\ \A i \in DOMAIN result.rows : result.rows[i].cells.kind.type = ask.wanted
          /\ \A k \in ToSet(Keys) :
               \/ k \in ToSet(shown) \/ Refused(KindOf(k))
               \/ \E c \in held[KindOf(k)] : c.type # ask.wanted
CellsAreTheirOwn ==
  Done =>
    IF ~result.ok
    THEN \E cell \in DOMAIN held \cup hurt :
           Essential(cell) /\ (cell \in hurt \/ \E c \in held[cell] : c.type = "other")
    ELSE /\ ask.read = "queues" =>
              Queues = [i \in DOMAIN result.rows |-> result.rows[i].owner]
         /\ (ask.read = "job" /\ result.rows = <<>>) => Gone \in held[JobHash]
         /\ \A i \in DOMAIN result.rows : \A p \in DOMAIN result.rows[i].cells :
              LET cell == Cell(result.rows[i].owner, p)
                  shown == result.rows[i].cells[p]
              IN IF p = "permit"
                 THEN \/ shown = "Available" /\ cell \in hurt
                      \/ \E c \in held[cell] : shown = Availability(cell.owner, c.type)
                 ELSE CASE shown = Gone -> Gone \in held[cell] \/ Refused(cell)
                        [] shown = Failed -> Refused(cell)
                        [] OTHER -> shown \in held[cell] /\ (p # "kind" => shown.type = Type(cell))
         /\ ask.read = "types" => WantedAreKept

\* A page of jobs is the one asked for of what the state's key held, in the order
\* the pane lists: never counted from the wrong end, never the whole key.
IsPage(ids, content) ==
  ids = SubSeq(Ids(content), ask.offset + 1, Min({Len(Ids(content)), ask.offset + ask.limit}))
NoPage(a) == a.limit = 0 \/ a.limit > MaxInt \/ a.offset + a.limit - 1 > MaxInt
PageIsThePage ==
  (Done /\ ask.read = "page" /\ result.ok) =>
    IF NoPage(ask) THEN result.page = <<>>
    ELSE \E c \in held[PageCell(ask.state)] : c.type # "other" /\ IsPage(result.page, c)

=============================================================================
