----------------------------- MODULE DetailRead -----------------------------
(***************************************************************************)
(* What the value pane is filled from (detail, worker.rs): the key as      *)
(* KeyRead reads it and then, for a stream, its consumer groups, each with *)
(* its consumers and the range of its pending entries (Conn::stream_info), *)
(* while other clients write the key and create, work through and destroy  *)
(* its groups.  What it does to the key and the read of it are steps of    *)
(* KeyRead: DetailSpec implements its Spec.                                *)
(***************************************************************************)
EXTENDS KeyRead, Functions

CONSTANTS GroupNames,      \* names of groups
          MaxGroups,       \* MAX_GROUPS
          MaxGroupChanges, \* changes of groups in one read (bound of the model)
          MaxMissed        \* commands about groups that fail in one read (bound)

ASSUME GroupsAssumption ==
  IsFiniteSet(GroupNames) /\ {MaxGroups, MaxGroupChanges, MaxMissed} \subseteq Nat

\* What a group is: which change made it so, and whether entries are pending.
State(change, pending) == [change |-> change, pending |-> pending]
States == [change : 0..MaxGroupChanges, pending : BOOLEAN]
NoGroup == [change |-> 0, pending |-> FALSE, absent |-> TRUE]
NoGroups == [g \in GroupNames |-> NoGroup]

VARIABLES
  streams, \* whether the streams probe was answered
  stage,   \* "rest", "key", or the command about groups that is next
  groups,  \* the groups of the stored key
  changed, \* changes of groups in this read
  listed,  \* the groups XINFO GROUPS returned that are inspected, with their states
  info,    \* the answer about the stream
  missed,  \* commands about groups that failed in this read
  seen,    \* history: the states of the groups since the key was read
  kinds,   \* history: the types of the key since the key was read
  cost     \* history: the commands of this read that failed

groupVars == <<groups, changed, seen, kinds>>
detailVars == <<vars, streams, stage, groupVars, listed, info, missed, cost>>

Nothing == [known |-> FALSE, groups |-> <<>>, truncated |-> FALSE]
Default == [known |-> TRUE, groups |-> <<>>, truncated |-> FALSE]
Truncated == [known |-> TRUE, groups |-> <<>>, truncated |-> TRUE]

-----------------------------------------------------------------------------
(* Other clients *)

See(gs, kind) ==
  /\ seen' = [g \in GroupNames |-> seen[g] \cup {gs[g]}]
  /\ kinds' = kinds \cup {kind}

\* The groups matter from the first command about them on: before, they are any
\* groups that the stream may have had all along or been given meanwhile.
Inspecting == stage \notin {"rest", "key"}

\* A key that is removed or made anew has no groups; XADD to a stream leaves them.
Overwrite ==
  /\ Write \/ Remove
  /\ IF Inspecting
     THEN /\ \/ groups' = NoGroups
             \/ stored.kind = "stream" /\ stored'.kind = "stream" /\ UNCHANGED groups
          /\ See(groups', stored'.kind)
     ELSE UNCHANGED <<groups, seen, kinds>>
  /\ UNCHANGED <<streams, stage, changed, listed, info, missed, cost>>

\* XGROUP CREATE and DESTROY, XREADGROUP and XACK.
ChangeGroup ==
  /\ Inspecting /\ stored.kind = "stream" /\ changed < MaxGroupChanges
  /\ \E g \in GroupNames : \E s \in {NoGroup} \cup {State(changed + 1, p) : p \in BOOLEAN} :
       /\ groups[g] # s
       /\ groups' = [groups EXCEPT ![g] = s] /\ See(groups', stored.kind)
  /\ changed' = changed + 1
  /\ UNCHANGED <<vars, streams, stage, listed, info, missed, cost>>

-----------------------------------------------------------------------------
(* The read *)

BeginDetail ==
  /\ stage = "rest" /\ Begin
  /\ stage' = "key" /\ listed' = <<>> /\ info' = Nothing /\ cost' = {}
  /\ groups' = NoGroups /\ changed' = 0 /\ missed' = 0
  /\ seen' = [g \in GroupNames |-> {}] /\ kinds' = {}
  /\ UNCHANGED streams

ReadKey ==
  /\ stage = "key"
  /\ \/ Execute \/ Fail \/ AnswerStrangely \/ Misaligned
     \/ FinishSpeculative \/ FinishHead \/ FinishBody
  /\ UNCHANGED <<streams, stage, groupVars, listed, info, missed, cost>>

Goes(next) == stage' = next /\ UNCHANGED <<vars, streams>>

\* Only for a stream; and where the server has no streams the answer is an empty one.
KeyIsRead ==
  /\ stage = "key" /\ phase = "idle"
  /\ LET stream == result.ok /\ result.kind = "stream"
     IN /\ Goes(IF stream /\ streams THEN "stream" ELSE "rest")
        /\ info' = IF stream /\ ~streams THEN Default ELSE Nothing
        /\ groups' \in IF stream /\ streams /\ stored.kind = "stream"
                       THEN [GroupNames -> {NoGroup} \cup {State(0, p) : p \in BOOLEAN}]
                       ELSE {NoGroups}
  /\ seen' = [g \in GroupNames |-> {groups'[g]}] /\ kinds' = {stored.kind}
  /\ UNCHANGED <<changed, listed, missed, cost>>

\* A command about the stream or one of its groups fails if they are not there, and
\* may be refused or lost.
Miss(command) ==
  /\ missed < MaxMissed /\ missed' = missed + 1
  /\ cost' = cost \cup {command}
Got == UNCHANGED <<missed, cost>>

GiveUpStream == Goes("rest") /\ info' = Nothing /\ UNCHANGED <<groupVars, listed>>

ReadStream ==
  /\ stage = "stream"
  /\ \/ Miss(<<"stream", "">>) /\ GiveUpStream
     \/ stored.kind # "stream" /\ Got /\ GiveUpStream
     \/ /\ stored.kind = "stream" /\ Got
        /\ Goes("groups") /\ info' = Default /\ UNCHANGED <<groupVars, listed>>

Present == {g \in GroupNames : groups[g] # NoGroup}
Least(m, n) == IF m < n THEN m ELSE n
ReadGroups ==
  /\ stage = "groups"
  /\ \/ Miss(<<"groups", "">>) /\ GiveUpStream
     \/ stored.kind # "stream" /\ Got /\ GiveUpStream
     \/ /\ stored.kind = "stream" /\ Got
        /\ \E order \in Bijection(1..Cardinality(Present), Present) :
             listed' = [i \in 1..Least(Cardinality(Present), MaxGroups) |->
                          [name |-> order[i], state |-> groups[order[i]]]]
        /\ info' = IF Cardinality(Present) > MaxGroups THEN Truncated ELSE Default
        /\ Goes(IF listed' = <<>> THEN "rest" ELSE "consumers")
        /\ UNCHANGED groupVars

\* The group that is inspected, and the one after it.
Inspected == info.groups[Len(info.groups)]
Following == listed[Len(info.groups) + 1]
Onward(done) == Goes(IF done = Len(listed) THEN "rest" ELSE "consumers")

\* The reply about a group, or nothing.
Ask(command, name, reply) ==
  \/ reply = groups[name] /\ Got
  \/ reply = NoGroup /\ Miss(<<command, name>>)

(* Mutant: a group whose consumers cannot be read fails the stream.        *)
ReadConsumersStrictly ==
  /\ stage = "consumers"
  /\ \E reply \in {groups[Following.name], NoGroup} :
       /\ Ask("consumers", Following.name, reply)
       /\ IF reply = NoGroup THEN GiveUpStream
          ELSE /\ info' = [info EXCEPT !.groups = Append(@,
                     [name |-> Following.name, summary |-> Following.state,
                      consumers |-> reply, range |-> NoGroup])]
               /\ IF Following.state.pending THEN Goes("pending") ELSE Onward(Len(info.groups) + 1)
               /\ UNCHANGED <<groupVars, listed>>

ReadConsumers ==
  /\ stage = "consumers"
  /\ \E reply \in {groups[Following.name], NoGroup} :
       /\ Ask("consumers", Following.name, reply)
       /\ info' = [info EXCEPT !.groups = Append(@,
            [name |-> Following.name, summary |-> Following.state,
             consumers |-> reply, range |-> NoGroup])]
  /\ IF Following.state.pending THEN Goes("pending") ELSE Onward(Len(info.groups) + 1)
  /\ UNCHANGED <<groupVars, listed>>

\* XPENDING, for a group that had entries pending.
ReadPending ==
  /\ stage = "pending"
  /\ \E reply \in {groups[Inspected.name], NoGroup} :
       /\ Ask("pending", Inspected.name, reply)
       /\ info' = [info EXCEPT !.groups[Len(info.groups)].range = reply]
  /\ Onward(Len(info.groups))
  /\ UNCHANGED <<groupVars, listed>>

-----------------------------------------------------------------------------

DetailInit ==
  /\ Init
  /\ streams \in BOOLEAN /\ (SizeCmd("stream") \notin refused => streams)
  /\ groups = NoGroups /\ stage = "rest" /\ changed = 0 /\ missed = 0
  /\ listed = <<>> /\ info = Nothing
  /\ seen = [g \in GroupNames |-> {}] /\ kinds = {} /\ cost = {}

DetailNext ==
  \/ Overwrite \/ ChangeGroup
  \/ BeginDetail \/ ReadKey \/ KeyIsRead
  \/ ReadStream \/ ReadGroups \/ ReadConsumers \/ ReadPending

DetailSpec == DetailInit /\ [][DetailNext]_detailVars

-----------------------------------------------------------------------------
(* Properties *)

GroupStates == States \cup {NoGroup}

\* The state of the key read is well formed, and so is what follows it: no more
\* groups are inspected than the code allows.
DetailTypeOK ==
  /\ TypeOK
  /\ streams \in BOOLEAN
  /\ stage \in {"rest", "key", "stream", "groups", "consumers", "pending"}
  /\ phase # "idle" => stage = "key"
  /\ groups \in [GroupNames -> GroupStates]
  /\ (Inspecting /\ stored.kind # "stream") => groups = NoGroups
  /\ changed \in 0..MaxGroupChanges /\ missed \in 0..MaxMissed
  /\ listed \in Seq([name : GroupNames, state : States]) /\ Len(listed) <= MaxGroups
  /\ Len(info.groups) <= Len(listed)
  /\ seen \in [GroupNames -> SUBSET GroupStates]

\* What the pane says of a stream was so: every detail of a group is one the group of
\* this name had since the key was read, and is left out only if the group was gone at
\* some point, had nothing pending, or the command for it failed, which costs this
\* detail alone; a group that was there all the time is listed, unless the pane says
\* that there are more; and the groups as a whole are left out only if the key ceased
\* to be a stream or one of the two commands for all of them failed. Excepted is a
\* server whose streams were refused to the probe: stream_info then asks nothing, and
\* the pane shows a stream of length 0 without groups.
Held(name, reply, command) ==
  IF reply = NoGroup THEN NoGroup \in seen[name] \/ <<command, name>> \in cost
  ELSE reply \in seen[name]
GroupsAreTheStreams ==
  stage = "rest" =>
    /\ info.known => result.kind = "stream" /\ (streams => "stream" \in kinds)
    /\ (result.ok /\ result.kind = "stream" /\ ~info.known) =>
         cost \cap {<<"stream", "">>, <<"groups", "">>} # {} \/ kinds # {"stream"}
    /\ \A i \in DOMAIN info.groups :
         LET e == info.groups[i]
         IN /\ e.summary # NoGroup /\ e.summary \in seen[e.name]
            /\ Held(e.name, e.consumers, "consumers")
            /\ e.summary.pending => Held(e.name, e.range, "pending")
            /\ \A j \in DOMAIN info.groups : info.groups[j].name = e.name => i = j
    /\ (info.known /\ streams /\ ~info.truncated) =>
         \A g \in GroupNames : NoGroup \in seen[g] \/ \E i \in DOMAIN info.groups : info.groups[i].name = g
    /\ info.truncated => Len(info.groups) = MaxGroups

=============================================================================
