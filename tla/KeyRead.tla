------------------------------- MODULE KeyRead -------------------------------
(***************************************************************************)
(* Reading one key (Conn::read_key): its type, time to live, size, memory  *)
(* and the first page of its value, while other clients write and remove   *)
(* it.  Where the server has the bounded reads, everything is asked for at *)
(* once, for every type, and the slots are told apart by their position;   *)
(* elsewhere the type is asked for first and the rest after it.            *)
(*                                                                         *)
(* A reply is abstracted to the content of the key it was computed from,   *)
(* so that two fields of one answer can be compared.  All commands of a    *)
(* read name the same key: they travel to one server over one connection   *)
(* and are executed in the order they were sent, with other clients'       *)
(* commands between any two of them.                                       *)
(***************************************************************************)
EXTENDS Naturals, Sequences, FiniteSets

CONSTANTS SpeculativeKinds,  \* the types asked for, in the order of the slots
          MaxWrites,         \* writes of other clients (bound of the model)
          MaxLost,           \* commands that fail in transit (bound)
          MaxRefused         \* commands the server refuses (bound)

ASSUME KindsAssumption ==
  /\ SpeculativeKinds \in Seq({"string", "hash", "set", "list", "zset", "stream"})
  /\ \A i, j \in DOMAIN SpeculativeKinds :
       SpeculativeKinds[i] = SpeculativeKinds[j] => i = j

ASSUME BoundsAssumption == {MaxWrites, MaxLost, MaxRefused} \subseteq Nat

Width == Len(SpeculativeKinds)
KnownKinds == {SpeculativeKinds[i] : i \in 1..Width}
KeyKinds == KnownKinds \cup {"module"}

\* What a key holds: its type, and which write put it there.
Content == [kind : KeyKinds, write : 0..MaxWrites]
Gone == [kind |-> "none", write |-> 0]

\* Replies are contents, Gone, an error, or (HSCAN and SSCAN) a strange shape.
Failed == [kind |-> "failed", write |-> 0]
Strange == [kind |-> "strange", write |-> 0]

\* What the value pane gets instead of a value.
Missing == [kind |-> "missing", write |-> 0]
Unsupported == [kind |-> "unsupported", write |-> 0]

Command(op, kind) == [op |-> op, kind |-> kind]
TypeCmd == Command("TYPE", "any")
PttlCmd == Command("PTTL", "any")
MemoryCmd == Command("MEMORY", "any")
Pipeline == Command("pipeline", "any")   \* stands for the pipeline as a whole
SizeCmd(kind) == Command("size", kind)
ValueCmd(kind) == Command("value", kind)
Commands == {TypeCmd, PttlCmd, MemoryCmd}
              \cup {SizeCmd(k) : k \in KnownKinds} \cup {ValueCmd(k) : k \in KnownKinds}

Feature == {"GetRange", "CursorCollectionScan", "MemoryStats"}
CursorKinds == {"hash", "set"}
Needs(kind) == IF kind = "string" THEN {"GetRange"}
               ELSE IF kind \in CursorKinds THEN {"CursorCollectionScan"} ELSE {}

\* The command each feature was probed with.
ProbeOf == [f \in Feature |-> CASE f = "GetRange" -> ValueCmd("string")
                                [] f = "CursorCollectionScan" -> ValueCmd("hash")
                                [] f = "MemoryStats" -> MemoryCmd]

VARIABLES
  refused,  \* the commands the server does not permit
  caps,     \* the features the probe found
  stored,   \* what the key holds now
  writes,   \* writes of other clients so far
  lost,     \* commands that failed in transit so far
  phase,    \* "idle", "speculative", "head" or "body"
  batch,    \* the commands on their way
  replies,  \* the replies so far, by position
  head,     \* what the first trip of the two-step read returned
  result,   \* the answer of the last read
  held,     \* what the key has held since the read began
  hurt      \* the commands of this read that failed for another reason than the type

serverVars == <<refused, caps>>
keyVars == <<stored, writes, held>>
readVars == <<phase, batch, replies, head, result>>
vars == <<refused, caps, stored, writes, lost, phase, batch, replies, head, result, held, hurt>>

NoHead == [kind |-> "none", ttl |-> Gone, memory |-> Gone]
Meta(kind, ttl, size, memory, value) ==
  [ok |-> TRUE, kind |-> kind, ttl |-> ttl, size |-> size, memory |-> memory, value |-> value]
NoResult == [Meta("none", Gone, Gone, Gone, Missing) EXCEPT !.ok = FALSE]
Err == [NoResult EXCEPT !.kind = "error"]

-----------------------------------------------------------------------------
(* The batches *)

\* MEMORY USAGE is conditional and goes last, so that nothing shifts.
MemoryPart == IF "MemoryStats" \in caps THEN <<MemoryCmd>> ELSE <<>>

(* Mutant: the conditional command goes in front of the values.            *)
MemoryBeforeValues ==
  <<TypeCmd, PttlCmd>>
    \o [i \in 1..Width |-> SizeCmd(SpeculativeKinds[i])]
    \o MemoryPart
    \o [i \in 1..Width |-> ValueCmd(SpeculativeKinds[i])]

SpeculativeBatch ==
  <<TypeCmd, PttlCmd>>
    \o [i \in 1..Width |-> SizeCmd(SpeculativeKinds[i])]
    \o [i \in 1..Width |-> ValueCmd(SpeculativeKinds[i])]
    \o MemoryPart
HeadBatch == <<TypeCmd, PttlCmd>> \o MemoryPart

\* Size and value of the second trip; no value command where there is no bounded one.
BodyBatch(kind) ==
  IF kind \notin KnownKinds THEN <<>>
  ELSE <<SizeCmd(kind)>> \o (IF Needs(kind) \subseteq caps THEN <<ValueCmd(kind)>> ELSE <<>>)

SlotType == 1
SlotPttl == 2
SizeBase == 2

(* Mutant: the base of the values is one too low.                          *)
ValueBaseLow == SizeBase + Width - 1

ValueBase == SizeBase + Width

(* Mutant: the memory slot is that of the last value.                      *)
SlotMemoryLow == ValueBase + Width

SlotMemory == ValueBase + Width + 1
Slot(kind) == CHOOSE i \in 1..Width : SpeculativeKinds[i] = kind

At(i) == IF i <= Len(replies) THEN replies[i] ELSE Failed

(* Mutant: an error is taken for a reply.                                  *)
FieldRaw(i) == At(i)

Field(i) == IF At(i) = Failed THEN Gone ELSE At(i)
ParseKind(reply) == IF reply = Failed THEN "none" ELSE reply.kind
Absent(kind) == IF kind = "module" THEN Unsupported ELSE Missing

-----------------------------------------------------------------------------
(* Other clients *)

Replace(content) ==
  /\ writes < MaxWrites
  /\ writes' = writes + 1
  /\ stored' = content
  /\ held' = IF phase = "idle" THEN held ELSE held \cup {content}
  /\ UNCHANGED <<serverVars, lost, readVars, hurt>>

Write == \E k \in KeyKinds : Replace([kind |-> k, write |-> writes + 1])
Remove == stored # Gone /\ Replace(Gone)

-----------------------------------------------------------------------------
(* The server *)

\* A size or value command on a key that is gone answers with nothing, on a
\* key of another type with WRONGTYPE.
Answer(c) == IF c.op \in {"size", "value"} /\ stored # Gone /\ stored.kind # c.kind
             THEN Failed ELSE stored

Current == batch[Len(replies) + 1]
Pending == phase # "idle" /\ Len(replies) < Len(batch)

Execute ==
  /\ Pending
  /\ Current \notin refused
  /\ replies' = Append(replies, Answer(Current))
  /\ UNCHANGED <<serverVars, keyVars, lost, phase, batch, head, result, hurt>>

\* The command is refused, times out, or its connection breaks.
Fail ==
  /\ Pending
  /\ IF Current \in refused THEN UNCHANGED lost ELSE lost < MaxLost /\ lost' = lost + 1
  /\ replies' = Append(replies, Failed)
  /\ hurt' = hurt \cup {Current}
  /\ UNCHANGED <<serverVars, keyVars, phase, batch, head, result>>

\* HSCAN or SSCAN answered in a shape that cannot be decoded.
AnswerStrangely ==
  /\ Pending
  /\ Current.op = "value" /\ Current.kind \in CursorKinds /\ Current \notin refused
  /\ lost < MaxLost
  /\ lost' = lost + 1
  /\ replies' = Append(replies, Strange)
  /\ hurt' = hurt \cup {Current}
  /\ UNCHANGED <<serverVars, keyVars, phase, batch, head, result>>

-----------------------------------------------------------------------------
(* The read *)

(* Mutant: one bounded read is enough to speculate over all types.         *)
SpeculatesOnAny == {"GetRange", "CursorCollectionScan"} \cap caps # {}

Speculates == {"GetRange", "CursorCollectionScan"} \subseteq caps

Send(p, cmds) == phase' = p /\ batch' = cmds /\ replies' = <<>>
Return(r) == Send("idle", <<>>) /\ result' = r /\ head' = NoHead

Begin ==
  /\ phase = "idle"
  /\ IF Speculates THEN Send("speculative", SpeculativeBatch) ELSE Send("head", HeadBatch)
  /\ held' = {stored}
  /\ hurt' = {}
  /\ head' = NoHead /\ result' = NoResult
  /\ UNCHANGED <<serverVars, stored, writes, lost>>

\* The pipeline could not be buffered or came back with another number of replies.
Misaligned ==
  /\ phase \in {"speculative", "head"}
  /\ lost < MaxLost
  /\ lost' = lost + 1
  /\ hurt' = hurt \cup {Pipeline}
  /\ Return(Err)
  /\ UNCHANGED <<serverVars, keyVars>>

Done(p) == phase = p /\ Len(replies) = Len(batch)

(* Mutant: any slot that cannot be decoded fails the read.                 *)
FinishAllOrNothing ==
  /\ Done("speculative")
  /\ LET kind == ParseKind(At(SlotType))
     IN Return(IF \E i \in DOMAIN replies : replies[i] = Strange THEN Err
               ELSE Meta(kind, Field(SlotPttl), Gone, Gone, Absent(kind)))
  /\ UNCHANGED <<serverVars, keyVars, lost, hurt>>

FinishSpeculative ==
  /\ Done("speculative")
  /\ LET kind == ParseKind(At(SlotType))
         known == kind \in KnownKinds
         value == At(ValueBase + Slot(kind))
         meta(v) == Meta(kind, Field(SlotPttl),
                         IF known THEN Field(SizeBase + Slot(kind)) ELSE Gone,
                         IF "MemoryStats" \in caps THEN Field(SlotMemory) ELSE Gone, v)
     IN Return(IF ~known \/ value = Failed THEN meta(Absent(kind))
               ELSE IF value = Strange THEN Err
               ELSE meta(value))
  /\ UNCHANGED <<serverVars, keyVars, lost, hurt>>

FinishHead ==
  /\ Done("head")
  /\ LET kind == ParseKind(At(SlotType))
     IN IF kind = "none"
        THEN Return(Meta("none", Gone, Gone, Gone, Missing))
        ELSE /\ head' = [kind |-> kind, ttl |-> Field(SlotPttl),
                         memory |-> IF "MemoryStats" \in caps THEN Field(3) ELSE Gone]
             /\ Send("body", BodyBatch(kind))
             /\ UNCHANGED result
  /\ UNCHANGED <<serverVars, keyVars, lost, hurt>>

FinishBody ==
  /\ Done("body")
  /\ LET read == Len(batch) = 2
         size == IF batch = <<>> THEN Gone ELSE Field(1)
     IN Return(IF read /\ At(2) \in {Failed, Strange} THEN Err
               ELSE Meta(head.kind, head.ttl, size, head.memory,
                         IF read THEN At(2) ELSE Unsupported))
  /\ UNCHANGED <<serverVars, keyVars, lost, hurt>>

-----------------------------------------------------------------------------

\* apply_probe_results, as far as a read asks: a probe that was lost counts as
\* available, only a refusal does not.
Probed == {c \in SUBSET Feature : \A f \in Feature : ProbeOf[f] \notin refused => f \in c}

Init ==
  /\ refused \in {r \in SUBSET Commands : Cardinality(r) <= MaxRefused}
  /\ caps \in Probed
  /\ stored \in {Gone} \cup {[kind |-> k, write |-> 0] : k \in KeyKinds}
  /\ writes = 0 /\ lost = 0
  /\ phase = "idle" /\ batch = <<>> /\ replies = <<>>
  /\ head = NoHead /\ result = NoResult
  /\ held = {} /\ hurt = {}

Next ==
  \/ Write \/ Remove
  \/ Execute \/ Fail \/ AnswerStrangely
  \/ Begin \/ Misaligned
  \/ FinishSpeculative \/ FinishHead \/ FinishBody

Spec == Init /\ [][Next]_vars

-----------------------------------------------------------------------------
(* Properties *)

\* Replies come one per command, in order, and the state is well formed.
Replies == Content \cup {Gone, Failed, Strange}
TypeOK ==
  /\ refused \subseteq Commands /\ caps \subseteq Feature
  /\ stored \in Content \cup {Gone}
  /\ writes \in 0..MaxWrites /\ lost \in 0..MaxLost
  /\ phase \in {"idle", "speculative", "head", "body"}
  /\ batch \in Seq(Commands) /\ replies \in Seq(Replies) /\ Len(replies) <= Len(batch)
  /\ head.kind \in KeyKinds \cup {"none"}
  /\ {head.ttl, head.memory} \subseteq Content \cup {Gone}
  /\ result.kind \in KeyKinds \cup {"none", "error"}
  /\ {result.ttl, result.size, result.memory} \subseteq Content \cup {Gone}
  /\ result.value \in Content \cup {Gone, Missing, Unsupported}
  /\ held \subseteq Content \cup {Gone} /\ hurt \subseteq Commands \cup {Pipeline}

Answered == phase = "idle" /\ result.ok

\* No slot is taken for another: the value and the size that are shown under a
\* type were read from the key while it was of that type (or was gone), after
\* the read began.
ShownWasHeld ==
  Answered =>
    /\ {result.ttl, result.memory} \subseteq held \cup {Gone}
    /\ result.kind # "none" => \E c \in held : c.kind = result.kind
    /\ \A shown \in {result.value, result.size} \ {Missing, Unsupported, Gone} :
         shown \in held /\ shown.kind = result.kind
    /\ result.value = Gone => Gone \in held

\* The key was of two types, or of one and gone, while it was read.
TypeChanged == \E a, b \in held : a.kind # b.kind

\* A key is called missing only if it was gone at some point of the read, changed
\* its type in it, or the command that would have shown it failed.
MissingIsExplained ==
  (Answered /\ result.value = Missing) =>
    \/ Gone \in held
    \/ TypeChanged
    \/ TypeCmd \in hurt
    \/ ValueCmd(result.kind) \in hurt

\* One command failing costs its own field and no other: with a key that nobody
\* touches during the read, every field whose command got through is exact, on
\* both paths and whatever is missing on the server.  A type that cannot be read
\* in bounded pieces is said to be unsupported, and only such a type.
Readable(kind) == kind \in KnownKinds /\ (Speculates \/ Needs(kind) \subseteq caps)
Shown(content) == IF content = Gone THEN Missing
                  ELSE IF Readable(content.kind) THEN content ELSE Unsupported
OneFailureOneField ==
  \A content \in Content \cup {Gone} :
    (Answered /\ held = {content} /\ TypeCmd \notin hurt) =>
      /\ result.kind = content.kind
      /\ PttlCmd \notin hurt => result.ttl = content
      /\ (content.kind \in KnownKinds /\ SizeCmd(content.kind) \notin hurt)
           => result.size = content
      /\ ("MemoryStats" \in caps /\ MemoryCmd \notin hurt) => result.memory = content
      /\ ValueCmd(content.kind) \notin hurt => result.value = Shown(content)

\* The whole read fails only with the pipeline or with the value of the key's
\* type: never because one of the speculative reads of other types did, and on
\* the two-step path also when the type changed under the value read.
ErrorIsOfTheValue ==
  (phase = "idle" /\ result = Err) =>
    \/ Pipeline \in hurt
    \/ \E c \in held : ValueCmd(c.kind) \in hurt
    \/ ~Speculates /\ TypeChanged

\* Never an unbounded read: a value command is sent only where the server has
\* the bounded form of it.
BoundedReadsOnly ==
  \A i \in DOMAIN batch : batch[i].op = "value" => Needs(batch[i].kind) \subseteq caps
=============================================================================
