---------------------------- MODULE EventsReader ----------------------------
(***************************************************************************)
(* The live reader of the BullMQ event streams: the task                   *)
(* StreamerHandle::attach starts (keylens/src/browse.rs), events::run with *)
(* its XREAD loop (keylens/src/events.rs), and what App::apply does with   *)
(* the updates it sends (keylens/src/app.rs).                              *)
(*                                                                         *)
(* The server numbers the entries of a stream 1, 2, ...  A stream is never *)
(* trimmed.  XREAD answers with some of the streams that have entries past *)
(* their cursor, at most Count of each, and runs into its timeout only     *)
(* when none has; the cursor "$" stands for the last entry at the moment   *)
(* the command arrives.  The App files an event under its queue, so that   *)
(* an update gives the events of each stream in their order: how those of  *)
(* different streams are mixed makes no difference.                        *)
(***************************************************************************)
EXTENDS Naturals, Sequences, FiniteSets, SequencesExt

CONSTANTS
  Streams,     \* the events streams of the queues detected
  MaxEntries,  \* bound: entries ever added to a stream
  Unreadable,  \* entries without an event field
  Count,       \* COUNT
  MaxFailures, \* MAX_CONSECUTIVE_FAILURES
  UpdCap,      \* CHANNEL_SIZE
  Latest,      \* the cursor "$"
  None

ASSUME ReaderAssumption ==
  /\ Streams # {} /\ IsFiniteSet(Streams)
  /\ MaxEntries \in Nat /\ Unreadable \subseteq 1 .. MaxEntries
  /\ Count \in Nat \ {0} /\ MaxFailures \in Nat \ {0} /\ UpdCap \in Nat \ {0}
  /\ Latest \notin Nat /\ None \notin Nat

VARIABLES
  log,      \* entries the server has in each stream
  phase,    \* where the reader task is
  ids,      \* its cursors
  after,    \* the entries its XREAD waits past, once it has arrived
  failures, \* consecutive failures
  out,      \* the update it is sending, or Nothing
  upd,      \* the update channel
  status,   \* Throughput.status
  seen,     \* the entries recorded of each stream, in order
  first     \* history: the cursor of the first read that returned entries

server == log
reader == <<phase, ids, after, failures, out, first>>
ui     == <<status, seen>>
vars   == <<server, reader, upd, ui>>

Phases ==
  {"unattached", "connecting", "sending", "loop", "blocked", "sleeping", "gone"}
Nothing     == [op |-> "Nothing"]
Live        == [op |-> "Live"]
Unavailable == [op |-> "Unavailable"]
Events(es)  == [op |-> "Events", events |-> es]

-----------------------------------------------------------------------------
Add(q) ==
  /\ log[q] < MaxEntries
  /\ log' = [log EXCEPT ![q] = @ + 1]
  /\ UNCHANGED <<reader, upd, ui>>

(* Update::Detected with queues; a second one changes nothing.             *)
Attach ==
  /\ phase = "unattached"
  /\ phase' = "connecting"
  /\ UNCHANGED <<server, ids, after, failures, out, first, upd, ui>>

(* Mutant: a connection that fails is only logged.                         *)
ConnectedSilently ==
  /\ phase = "connecting"
  /\ \/ phase' = "sending" /\ out' = Live
     \/ phase' = "gone" /\ out' = out
  /\ UNCHANGED <<server, ids, after, failures, first, upd, ui>>

(* Connecting fails, or the server has no streams, or they are not in one  *)
(* slot of its cluster; or there is something to follow.                   *)
Connected ==
  /\ phase = "connecting"
  /\ phase' = "sending" /\ out' \in {Live, Unavailable}
  /\ UNCHANGED <<server, ids, after, failures, first, upd, ui>>

Send ==
  /\ phase = "sending" /\ Len(upd) < UpdCap
  /\ upd' = Append(upd, out) /\ out' = Nothing
  /\ phase' = IF out = Unavailable THEN "gone" ELSE "loop"
  /\ UNCHANGED <<server, ids, after, failures, first, ui>>

-----------------------------------------------------------------------------
(* XREAD.                                                                  *)

Read ==
  /\ phase = "loop"
  /\ phase' = "blocked"
  /\ after' = [q \in Streams |-> IF ids[q] = Latest THEN log[q] ELSE ids[q]]
  /\ UNCHANGED <<server, ids, failures, out, first, upd, ui>>

Silence == [q \in Streams |-> <<>>]
HasMore == {q \in Streams : log[q] > after[q]}
UpTo(q) == IF log[q] > after[q] + Count THEN after[q] + Count ELSE log[q]
InOrder(S) ==
  [i \in 1 .. Cardinality(S) |->
     CHOOSE n \in S : Cardinality({m \in S : m < n}) = i - 1]
Entries(q) == InOrder((after[q] + 1 .. UpTo(q)) \ Unreadable)

(* Mutant: the cursor moves to the last entry that could be classified.    *)
ReplyAfterGood ==
  /\ phase = "blocked"
  /\ \E qs \in (SUBSET HasMore) \ {{}} :
       LET es == [q \in Streams |-> IF q \in qs THEN Entries(q) ELSE <<>>]
       IN  /\ ids' = [q \in Streams |->
                        IF q \in qs /\ Entries(q) # <<>>
                        THEN Last(Entries(q)) ELSE ids[q]]
           /\ first' = [q \in Streams |->
                          IF q \in qs /\ first[q] = None THEN after[q] ELSE first[q]]
           /\ IF es = Silence THEN phase' = "loop" /\ out' = Nothing
                              ELSE phase' = "sending" /\ out' = Events(es)
  /\ failures' = 0 /\ after' = after
  /\ UNCHANGED <<server, upd, ui>>

(* Mutant: the cursors move to the ends of the streams.                    *)
ReplyToEnd ==
  /\ phase = "blocked"
  /\ \E qs \in (SUBSET HasMore) \ {{}} :
       LET es == [q \in Streams |-> IF q \in qs THEN Entries(q) ELSE <<>>]
       IN  /\ ids' = [q \in Streams |-> IF q \in qs THEN log[q] ELSE ids[q]]
           /\ first' = [q \in Streams |->
                          IF q \in qs /\ first[q] = None THEN after[q] ELSE first[q]]
           /\ IF es = Silence THEN phase' = "loop" /\ out' = Nothing
                              ELSE phase' = "sending" /\ out' = Events(es)
  /\ failures' = 0 /\ after' = after
  /\ UNCHANGED <<server, upd, ui>>

(* The cursors move past every entry of the reply, parse_xread keeps those *)
(* that name an event.                                                     *)
Reply ==
  /\ phase = "blocked"
  /\ \E qs \in (SUBSET HasMore) \ {{}} :
       LET es == [q \in Streams |-> IF q \in qs THEN Entries(q) ELSE <<>>]
       IN  /\ ids' = [q \in Streams |-> IF q \in qs THEN UpTo(q) ELSE ids[q]]
           /\ first' = [q \in Streams |->
                          IF q \in qs /\ first[q] = None THEN after[q] ELSE first[q]]
           /\ IF es = Silence THEN phase' = "loop" /\ out' = Nothing
                              ELSE phase' = "sending" /\ out' = Events(es)
  /\ failures' = 0 /\ after' = after
  /\ UNCHANGED <<server, upd, ui>>

TimesOut ==
  /\ phase = "blocked" /\ HasMore = {}
  /\ phase' = "loop" /\ failures' = 0
  /\ UNCHANGED <<server, ids, after, out, first, upd, ui>>

(* Mutant: one failure more than MAX_CONSECUTIVE_FAILURES.                 *)
FailOnceMore ==
  /\ phase = "blocked"
  /\ failures' = failures + 1
  /\ IF failures' > MaxFailures
     THEN phase' = "sending" /\ out' = Unavailable
     ELSE phase' = "sleeping" /\ out' = out
  /\ UNCHANGED <<server, ids, after, first, upd, ui>>

Fail ==
  /\ phase = "blocked"
  /\ failures' = failures + 1
  /\ IF failures' >= MaxFailures
     THEN phase' = "sending" /\ out' = Unavailable
     ELSE phase' = "sleeping" /\ out' = out
  /\ UNCHANGED <<server, ids, after, first, upd, ui>>

(* retry_delay has passed.                                                 *)
Retry ==
  /\ phase = "sleeping"
  /\ phase' = "loop"
  /\ UNCHANGED <<server, ids, after, failures, out, first, upd, ui>>

-----------------------------------------------------------------------------
(* App::apply.                                                             *)

ApplyStatus ==
  /\ upd # <<>> /\ Head(upd).op # "Events"
  /\ status' = Head(upd).op /\ upd' = Tail(upd)
  /\ UNCHANGED <<server, reader, seen>>

ApplyEvents ==
  /\ upd # <<>> /\ Head(upd).op = "Events"
  /\ seen' = [q \in Streams |-> seen[q] \o Head(upd).events[q]]
  /\ upd' = Tail(upd)
  /\ UNCHANGED <<server, reader, status>>

-----------------------------------------------------------------------------
Init ==
  /\ log \in [Streams -> 0 .. MaxEntries]
  /\ phase = "unattached" /\ ids = [q \in Streams |-> Latest]
  /\ after = [q \in Streams |-> 0] /\ failures = 0 /\ out = Nothing
  /\ first = [q \in Streams |-> None]
  /\ upd = <<>> /\ status = "Attaching" /\ seen = [q \in Streams |-> <<>>]

Reader == Connected \/ Send \/ Read \/ Reply \/ TimesOut \/ Fail \/ Retry
Ui     == ApplyStatus \/ ApplyEvents
Next   == (\E q \in Streams : Add(q)) \/ Attach \/ Reader \/ Ui

(* The reader's task and the event loop keep running: connecting and XREAD *)
(* have timeouts.                                                          *)
Fairness == WF_vars(Reader) /\ WF_vars(Ui)

Spec == Init /\ [][Next]_vars
FairSpec == Spec /\ Fairness

-----------------------------------------------------------------------------
(* Properties.                                                             *)

IsUpdate(u) ==
  \/ u \in {Live, Unavailable}
  \/ u.op = "Events" /\ u.events \in [Streams -> Seq(1 .. MaxEntries)]

TypeOK ==
  /\ log \in [Streams -> 0 .. MaxEntries]
  /\ phase \in Phases
  /\ ids \in [Streams -> 0 .. MaxEntries \cup {Latest}]
  /\ after \in [Streams -> 0 .. MaxEntries]
  /\ failures \in 0 .. MaxFailures
  /\ Len(upd) <= UpdCap /\ \A i \in 1 .. Len(upd) : IsUpdate(upd[i])
  /\ (out = Nothing \/ IsUpdate(out)) /\ (out = Nothing <=> phase # "sending")
  /\ status \in {"Attaching", "Live", "Unavailable"}
  /\ seen \in [Streams -> Seq(1 .. MaxEntries)]
  /\ first \in [Streams -> 0 .. MaxEntries \cup {None}]

(* What was recorded of a stream, and what is on its way.                  *)
EventsIn(u, q) == IF u.op = "Events" THEN u.events[q] ELSE <<>>
OnTheWay(q) == FlattenSeq([i \in 1 .. Len(upd) |-> EventsIn(upd[i], q)])
Delivered(q) == seen[q] \o OnTheWay(q) \o EventsIn(out, q)

(* From the first read that returned something of a stream, every event up *)
(* to the cursor is recorded exactly once and in the order of the stream,  *)
(* over failed reads, timeouts, bursts larger than a read and a full       *)
(* channel (parse_xread advances the cursors, run sends before it reads    *)
(* on).                                                                    *)
ExactlyOnceInOrder ==
  \A q \in Streams :
    IF first[q] = None THEN Delivered(q) = <<>>
    ELSE Delivered(q) = InOrder((first[q] + 1 .. ids[q]) \ Unreadable)

(* Whoever attached is told how it went, and of a reader that is gone that *)
(* it is (EventsStatus: the table does not sit on "attaching..." forever). *)
StatusIsTold ==
  /\ phase = "connecting" ~> status # "Attaching"
  /\ phase = "gone" ~> status = "Unavailable"

(* A stream that was read once is read to its end, unless the reader gives *)
(* up (COUNT: "A burst larger than this is simply picked up next loop").   *)
BurstIsPickedUp ==
  \A q \in Streams : \A n \in 1 .. MaxEntries \ Unreadable :
    first[q] # None /\ first[q] < n /\ n <= log[q]
      ~> (phase = "gone" \/ \E i \in DOMAIN seen[q] : seen[q][i] = n)

(* Once the table says "live", every event added is recorded unless the    *)
(* reader gives up: the cursor "$" is said to mean "only entries added     *)
(* from now on" (run), and an empty graph of a live reader "means the      *)
(* queues are genuinely idle" (EventsStatus::Live).                        *)
LiveMissesNothing ==
  \A q \in Streams : \A n \in 1 .. MaxEntries \ Unreadable :
    [](status = "Live" /\ log[q] < n =>
         [](log[q] >= n => <>(phase = "gone" \/ \E i \in DOMAIN seen[q] : seen[q][i] = n)))

=============================================================================
