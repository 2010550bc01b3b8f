--------------------------- MODULE MCQueueBrowser ---------------------------
(* QueueBrowser with two queues, two states and pages of up to two jobs:   *)
(* a list may lose its first queue, a page may be empty, shrink or move.   *)
EXTENDS QueueBrowser

MCQueueLists == {<<"a", "b">>, <<"b">>}
MCIdLists    == {<<>>, <<2, 1>>, <<1>>}

=============================================================================
