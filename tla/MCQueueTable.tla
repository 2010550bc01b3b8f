---------------------------- MODULE MCQueueTable ----------------------------
EXTENDS QueueTable, TLC

\* Two queues with a list and a sorted set: six commands, in chunks of four.
MCQueues == <<"q", "r">>
MCStates == <<"wait", "done">>
MCListBacked == {"wait"}
\* SCAN may return a key twice.
MCKeys == <<"j", "k", "j">>
MCProbes == <<"memory", "slowlog", "scan_type">>
MCChannels == <<"c", "d">>

MCJobIds == << <<1, 2, 3>>, <<4, 5>> >>

\* With three-bit integers: a job that waited longer than they can say, and one of
\* an older version that still runs.
Stamps(added, started, ended) ==
  [timestamp |-> added, processedOn |-> started, finishedOn |-> ended]
MCJobHashes ==
  << Stamps({-3}, {2}, {1}) @@ [atm |-> 1, attemptsMade |-> 2],
     Stamps({0}, {1}, {}) @@ [attemptsMade |-> 2] >>

MCSeconds == 0..6
MCWidths == 0..26

\* The read, the history and the width share no variable: a step of one neither
\* enables nor alters one of another, so each is explored while the others rest.
ReadRests ==
  /\ ask = [read |-> "job"] /\ ~clustered /\ phase = "begin" /\ changes = 0
  /\ \A cell \in CellsOf(ask) : world[cell] = Original(cell)
Apart == /\ buckets # <<>> => ReadRests /\ width = 0
         /\ width # 0 => ReadRests
=============================================================================
