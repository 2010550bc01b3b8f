------------------------------ MODULE MCSession ------------------------------
EXTENDS Session

MetaKey(name, form) == [name |-> name, form |-> form]

\* Redis on its own: its pages hold a queue twice, a key that is not a hash, and
\* another library's queue out of reach.
Standalone ==
  [server |-> [cluster |-> "disabled", info |-> "yes", typeFilter |-> "yes"],
   keyspace |-> << {MetaKey(2, "bullmq"), MetaKey(3, "foreign")},
                   {MetaKey(1, "plain"), MetaKey(2, "bullmq")},
                   {MetaKey(4, "otherlib")} >>]

\* A managed host that blocks CLUSTER, with an old queue on its second page.
Managed ==
  [server |-> [cluster |-> "denied", info |-> "empty", typeFilter |-> "yes"],
   keyspace |-> << {}, {MetaKey(1, "plain")} >>]

\* An old clone that knows neither INFO nor SCAN's TYPE option.
OldClone ==
  [server |-> [cluster |-> "yes", info |-> "unknown", typeFilter |-> "unknown"],
   keyspace |-> << {MetaKey(1, "plain"), MetaKey(2, "foreign")} >>]

MCInstances == {Standalone, Managed, OldClone}
=============================================================================
