---------------------------- MODULE KeyReadProofs ----------------------------
(***************************************************************************)
(* What reading a key promises for any types in the slots and any number   *)
(* of writes and failures; and what filling the value pane promises for    *)
(* any groups, any number of changes to them and of failures: what reading *)
(* the key promises, and that what is said of a stream's groups was so.    *)
(***************************************************************************)
EXTENDS DetailRead, SequenceTheorems, FiniteSetTheorems, TLAPS

-----------------------------------------------------------------------------
(* The names of the types and the marks                                    *)

LEMMA KindNames ==
  /\ Width \in Nat
  /\ \A i \in 1..Width : SpeculativeKinds[i] \in KnownKinds
  /\ KnownKinds \subseteq {"string", "hash", "set", "list", "zset", "stream"}
  /\ "module" \notin KnownKinds
  /\ {"none", "failed", "strange", "missing", "unsupported", "error"} \cap KeyKinds = {}
  BY KindsAssumption, LenProperties, ElementOfSeq DEF Width, KnownKinds, KeyKinds

LEMMA Marks ==
  /\ Gone.kind = "none" /\ Failed.kind = "failed" /\ Strange.kind = "strange"
  /\ Missing.kind = "missing" /\ Unsupported.kind = "unsupported"
  /\ \A c \in Content : c.kind \in KeyKinds
  BY DEF Gone, Failed, Strange, Missing, Unsupported, Content

LEMMA SlotOfKind ==
  ASSUME NEW kind \in KnownKinds
  PROVE  Slot(kind) \in 1..Width /\ SpeculativeKinds[Slot(kind)] = kind
  BY DEF Slot, KnownKinds

-----------------------------------------------------------------------------
(* The layout of the batches: what stands in which slot                    *)

LEMMA CommandFields ==
  /\ TypeCmd.op = "TYPE" /\ PttlCmd.op = "PTTL" /\ MemoryCmd.op = "MEMORY"
  /\ \A k : SizeCmd(k).op = "size" /\ SizeCmd(k).kind = k
  /\ \A k : ValueCmd(k).op = "value" /\ ValueCmd(k).kind = k
  BY DEF TypeCmd, PttlCmd, MemoryCmd, SizeCmd, ValueCmd, Command

LEMMA CommandsByName ==
  /\ {TypeCmd, PttlCmd, MemoryCmd} \subseteq Commands
  /\ \A k \in KnownKinds : SizeCmd(k) \in Commands /\ ValueCmd(k) \in Commands
  /\ \A c \in Commands : c.op = "value" => c.kind \in KnownKinds /\ c = ValueCmd(c.kind)
<1>1. /\ {TypeCmd, PttlCmd, MemoryCmd} \subseteq Commands
      /\ \A k \in KnownKinds : SizeCmd(k) \in Commands /\ ValueCmd(k) \in Commands
  BY DEF Commands
<1>2. ASSUME NEW c \in Commands, c.op = "value"
      PROVE  c.kind \in KnownKinds /\ c = ValueCmd(c.kind)
  <2>1. c \notin {TypeCmd, PttlCmd, MemoryCmd}
    BY <1>2, CommandFields
  <2>2. c \notin {SizeCmd(k) : k \in KnownKinds}
    BY <1>2, CommandFields
  <2>3. PICK k \in KnownKinds : c = ValueCmd(k)
    BY <2>1, <2>2 DEF Commands
  <2>4. QED
    BY <2>3, CommandFields
<1>3. QED
  BY <1>1, <1>2

LEMMA MemoryPartIs ==
  /\ MemoryPart \in Seq(Commands)
  /\ Len(MemoryPart) = IF "MemoryStats" \in caps THEN 1 ELSE 0
  /\ "MemoryStats" \in caps => MemoryPart[1] = MemoryCmd
  BY CommandsByName DEF MemoryPart

\* j is a sequence over S that begins with s and ends with t.
Splits(S, j, s, t) ==
  /\ j \in Seq(S)
  /\ Len(j) = Len(s) + Len(t)
  /\ \A i \in 1..Len(s) : j[i] = s[i]
  /\ \A i \in 1..Len(t) : j[Len(s) + i] = t[i]

LEMMA Joined ==
  ASSUME NEW S, NEW s \in Seq(S), NEW t \in Seq(S)
  PROVE  Splits(S, s \o t, s, t)
<1>1. Len(s) \in Nat /\ Len(t) \in Nat
  BY LenProperties
<1>2. /\ s \o t \in Seq(S)
      /\ Len(s \o t) = Len(s) + Len(t)
      /\ \A i \in 1..Len(s) + Len(t) :
           (s \o t)[i] = IF i <= Len(s) THEN s[i] ELSE t[i - Len(s)]
  BY ConcatProperties
<1>3. QED
  BY <1>1, <1>2 DEF Splits

LEMMA PartsOf ==
  ASSUME NEW part, part = [i \in 1..Width |-> part[i]],
         \A i \in 1..Width : part[i] \in Commands
  PROVE  part \in Seq(Commands) /\ Len(part) = Width
<1>1. part \in [1..Width -> Commands]
  OBVIOUS
<1>2. part \in Seq(Commands)
  BY <1>1, KindNames, SeqDef
<1>3. QED
  BY <1>1, <1>2, KindNames, LenProperties

\* Every slot of the speculative pipeline holds the command its position names.
LEMMA SpeculativeLayout ==
  /\ SpeculativeBatch \in Seq(Commands)
  /\ Len(SpeculativeBatch) = 2 + Width + Width + (IF "MemoryStats" \in caps THEN 1 ELSE 0)
  /\ SpeculativeBatch[SlotType] = TypeCmd /\ SpeculativeBatch[SlotPttl] = PttlCmd
  /\ \A i \in 1..Width :
       /\ SpeculativeBatch[SizeBase + i] = SizeCmd(SpeculativeKinds[i])
       /\ SpeculativeBatch[ValueBase + i] = ValueCmd(SpeculativeKinds[i])
  /\ "MemoryStats" \in caps => SpeculativeBatch[SlotMemory] = MemoryCmd
<1> DEFINE ends == <<TypeCmd, PttlCmd>>
           sizes == [i \in 1..Width |-> SizeCmd(SpeculativeKinds[i])]
           values == [i \in 1..Width |-> ValueCmd(SpeculativeKinds[i])]
<1>1. ends \in Seq(Commands) /\ Len(ends) = 2 /\ ends[1] = TypeCmd /\ ends[2] = PttlCmd
  BY CommandsByName
<1>2. \A i \in 1..Width : /\ sizes[i] = SizeCmd(SpeculativeKinds[i])
                          /\ values[i] = ValueCmd(SpeculativeKinds[i])
  OBVIOUS
<1>3. SpeculativeBatch = ((ends \o sizes) \o values) \o MemoryPart
  BY DEF SpeculativeBatch
<1>4. sizes = [i \in 1..Width |-> sizes[i]] /\ values = [i \in 1..Width |-> values[i]]
  OBVIOUS
<1>. HIDE DEF ends, sizes, values
<1>5. /\ sizes \in Seq(Commands) /\ Len(sizes) = Width
      /\ values \in Seq(Commands) /\ Len(values) = Width
  <2>1. \A i \in 1..Width : sizes[i] \in Commands /\ values[i] \in Commands
    BY <1>2, KindNames, CommandsByName
  <2>2. QED
    BY <1>4, <2>1, PartsOf
<1> DEFINE front == ends \o sizes
           body == front \o values
<1>6. /\ front \in Seq(Commands) /\ Len(front) = 2 + Width
      /\ \A i \in 1..2 : front[i] = ends[i]
      /\ \A i \in 1..Width : front[2 + i] = sizes[i]
  <2>1. front = ends \o sizes
    OBVIOUS
  <2>. HIDE DEF front
  <2>2. Splits(Commands, front, ends, sizes)
    BY <1>1, <1>5, <2>1, Joined, Zenon
  <2>3. QED
    BY <2>2, <1>1, <1>5, KindNames DEF Splits
<1>. HIDE DEF front
<1>7. /\ body \in Seq(Commands) /\ Len(body) = 2 + Width + Width
      /\ \A i \in 1..2 + Width : body[i] = front[i]
      /\ \A i \in 1..Width : body[2 + Width + i] = values[i]
  <2>1. body = front \o values
    OBVIOUS
  <2>. HIDE DEF body
  <2>2. Splits(Commands, body, front, values)
    BY <1>5, <1>6, <2>1, Joined, Zenon
  <2>3. QED
    BY <2>2, <1>5, <1>6, KindNames DEF Splits
<1>. HIDE DEF body
<1>8. /\ SpeculativeBatch \in Seq(Commands)
      /\ Len(SpeculativeBatch) = 2 + Width + Width + Len(MemoryPart)
      /\ \A i \in 1..2 + Width + Width : SpeculativeBatch[i] = body[i]
      /\ \A i \in 1..Len(MemoryPart) :
           SpeculativeBatch[2 + Width + Width + i] = MemoryPart[i]
  <2>1. SpeculativeBatch = body \o MemoryPart
    BY <1>3 DEF body, front
  <2>2. Splits(Commands, SpeculativeBatch, body, MemoryPart)
    BY <1>7, MemoryPartIs, <2>1, Joined, Zenon
  <2>3. QED
    BY <2>2, <1>7, MemoryPartIs, KindNames DEF Splits
<1>9. SpeculativeBatch[1] = TypeCmd /\ SpeculativeBatch[2] = PttlCmd
  BY <1>1, <1>6, <1>7, <1>8, KindNames
<1>10. ASSUME NEW i \in 1..Width
       PROVE  /\ SpeculativeBatch[2 + i] = SizeCmd(SpeculativeKinds[i])
              /\ SpeculativeBatch[2 + Width + i] = ValueCmd(SpeculativeKinds[i])
  <2>1. /\ 2 + i \in 1..2 + Width /\ 2 + i \in 1..2 + Width + Width
        /\ 2 + Width + i \in 1..2 + Width + Width
    BY KindNames
  <2>2. QED
    BY <2>1, <1>2, <1>6, <1>7, <1>8
<1>11. "MemoryStats" \in caps => SpeculativeBatch[2 + Width + Width + 1] = MemoryCmd
  BY <1>8, MemoryPartIs
<1>12. QED
  BY <1>8, <1>9, <1>10, <1>11, MemoryPartIs
     DEF SlotType, SlotPttl, SizeBase, ValueBase, SlotMemory

\* The two trips of the other path.
LEMMA HeadLayout ==
  /\ HeadBatch \in Seq(Commands)
  /\ Len(HeadBatch) = IF "MemoryStats" \in caps THEN 3 ELSE 2
  /\ HeadBatch[SlotType] = TypeCmd /\ HeadBatch[SlotPttl] = PttlCmd
  /\ "MemoryStats" \in caps => HeadBatch[3] = MemoryCmd
<1> DEFINE ends == <<TypeCmd, PttlCmd>>
<1>1. ends \in Seq(Commands) /\ Len(ends) = 2 /\ ends[1] = TypeCmd /\ ends[2] = PttlCmd
  BY CommandsByName
<1>2. HeadBatch = ends \o MemoryPart
  BY DEF HeadBatch
<1>. HIDE DEF ends
<1>3. /\ HeadBatch \in Seq(Commands) /\ Len(HeadBatch) = 2 + Len(MemoryPart)
      /\ \A i \in 1..2 : HeadBatch[i] = ends[i]
      /\ \A i \in 1..Len(MemoryPart) : HeadBatch[2 + i] = MemoryPart[i]
  <2>1. Splits(Commands, HeadBatch, ends, MemoryPart)
    BY <1>1, <1>2, MemoryPartIs, Joined, Zenon
  <2>3. QED
    BY <2>1, <1>1, MemoryPartIs DEF Splits
<1>4. QED
  BY <1>1, <1>3, MemoryPartIs DEF SlotType, SlotPttl

LEMMA BodyLayout ==
  ASSUME NEW kind \in KeyKinds
  PROVE  /\ BodyBatch(kind) \in Seq(Commands)
         /\ Len(BodyBatch(kind)) \in 0..2
         /\ BodyBatch(kind) # <<>> => /\ kind \in KnownKinds
                                     /\ Len(BodyBatch(kind)) >= 1
                                     /\ BodyBatch(kind)[1] = SizeCmd(kind)
         /\ Len(BodyBatch(kind)) = 2 => /\ BodyBatch(kind)[2] = ValueCmd(kind)
                                        /\ Needs(kind) \subseteq caps
<1>1. CASE kind \notin KnownKinds
  BY <1>1, EmptySeq DEF BodyBatch
<1>2. CASE kind \in KnownKinds /\ Needs(kind) \subseteq caps
  <2>1. BodyBatch(kind) = <<SizeCmd(kind)>> \o <<ValueCmd(kind)>>
    BY <1>2 DEF BodyBatch
  <2>2. <<SizeCmd(kind)>> \in Seq(Commands) /\ <<ValueCmd(kind)>> \in Seq(Commands)
    BY <1>2, CommandsByName
  <2>3. QED
    BY <1>2, <2>1, <2>2, Joined
<1>3. CASE kind \in KnownKinds /\ ~(Needs(kind) \subseteq caps)
  <2>1. BodyBatch(kind) = <<SizeCmd(kind)>> \o <<>>
    BY <1>3 DEF BodyBatch
  <2>2. <<SizeCmd(kind)>> \in Seq(Commands)
    BY <1>3, CommandsByName
  <2>3. QED
    BY <1>3, <2>1, <2>2, ConcatEmptySeq
<1>4. QED
  BY <1>1, <1>2, <1>3

-----------------------------------------------------------------------------
(* The inductive invariant                                                 *)

\* What is known of the key while it is read: the content it has now is among
\* those it has had, and so is that of every reply.
Fresh ==
  phase # "idle" =>
    /\ stored \in held
    /\ \A i \in DOMAIN replies : replies[i] \in held \cup {Failed, Strange}

\* A reply fits the command c of its slot, and has a reason where it is an error:
\* one of the failed commands, or another type among the contents it was sent to.
Fits(reply, c, contents, failed) ==
  /\ reply = Strange => c.op = "value" /\ c \in failed
  /\ c.op \in {"size", "value"} => reply \in {Failed, Strange, Gone} \/ reply.kind = c.kind
  /\ reply = Failed =>
       c \in failed \/ (c.op \in {"size", "value"} /\ \E x \in contents : x.kind # c.kind)
ByCommand == \A i \in DOMAIN replies : Fits(replies[i], batch[i], held, hurt)

\* Which batch is on its way in which phase, and what the first trip has left.
Stage ==
  /\ phase = "idle" => batch = <<>>
  /\ phase = "speculative" => Speculates /\ batch = SpeculativeBatch
  /\ phase = "head" => ~Speculates /\ batch = HeadBatch
  /\ phase = "body" =>
       /\ ~Speculates /\ head.kind \in KeyKinds /\ batch = BodyBatch(head.kind)
       /\ \E x \in held : x.kind = head.kind
       /\ {head.ttl, head.memory} \subseteq held \cup {Gone}

Explained == ShownWasHeld /\ MissingIsExplained /\ ErrorIsOfTheValue

IInv == TypeOK /\ Fresh /\ ByCommand /\ Stage /\ Explained


LEMMA CapsStay ==
  ASSUME caps' = caps
  PROVE  /\ SpeculativeBatch' = SpeculativeBatch /\ HeadBatch' = HeadBatch
         /\ Speculates' = Speculates
         /\ \A k : BodyBatch(k)' = BodyBatch(k)
  BY DEF SpeculativeBatch, HeadBatch, MemoryPart, Speculates, BodyBatch

\* While a read is under way nothing has been answered.
LEMMA NotAnswered ==
  ASSUME phase # "idle"
  PROVE  Explained
  BY DEF Explained, ShownWasHeld, MissingIsExplained, ErrorIsOfTheValue, Answered

LEMMA StillExplained ==
  ASSUME Explained, UNCHANGED <<phase, result, held, hurt, caps>>
  PROVE  Explained'
  BY DEF Explained, ShownWasHeld, MissingIsExplained, ErrorIsOfTheValue, Answered,
         TypeChanged, Speculates

LEMMA FitsStays ==
  ASSUME NEW reply, NEW c, NEW H, NEW U, NEW more, NEW worse,
         Fits(reply, c, H, U), H \subseteq more, U \subseteq worse
  PROVE  Fits(reply, c, more, worse)
  BY DEF Fits

-----------------------------------------------------------------------------
(* Other clients and the server                                            *)

LEMMA ReplaceKeeps ==
  ASSUME IInv, NEW content \in Content \cup {Gone}, Replace(content)
  PROVE  IInv'
<1>. USE DEF IInv
<1>1. /\ held \subseteq held' /\ UNCHANGED <<hurt, phase, batch, replies, head, result, caps>>
      /\ phase = "idle" => held' = held
      /\ phase # "idle" => held' = held \cup {content} /\ stored' = content
  BY DEF Replace, serverVars, readVars
<1>2. TypeOK'
  BY BoundsAssumption DEF TypeOK, Replace, serverVars, readVars
<1>3. Fresh'
  BY <1>1 DEF Fresh
<1>4. ByCommand'
  <2>1. ASSUME NEW i \in DOMAIN replies PROVE Fits(replies[i], batch[i], held', hurt')
    BY <1>1, FitsStays DEF ByCommand
  <2>2. QED
    BY <1>1, <2>1 DEF ByCommand
<1>5. Stage'
  BY <1>1, CapsStay DEF Stage
<1>6. Explained'
  <2>1. CASE phase = "idle"
    BY <1>1, <2>1, StillExplained
  <2>2. CASE phase # "idle"
    BY <1>1, <2>2 DEF Explained, ShownWasHeld, MissingIsExplained, ErrorIsOfTheValue, Answered
  <2>3. QED
    BY <2>1, <2>2
<1>7. QED
  BY <1>2, <1>3, <1>4, <1>5, <1>6

\* One more reply, which fits its command.
LEMMA ReplyKeeps ==
  ASSUME IInv, Pending, NEW r \in Replies, NEW c, c = Current,
         replies' = Append(replies, r),
         UNCHANGED <<serverVars, keyVars, phase, batch, head, result>>,
         lost' \in 0..MaxLost, hurt' \in {hurt, hurt \cup {c}},
         r \in held \cup {Failed, Strange}, Fits(r, c, held, hurt')
  PROVE  IInv'
<1>. USE DEF IInv
<1>1. /\ replies \in Seq(Replies) /\ batch \in Seq(Commands)
      /\ Len(replies) \in Nat /\ Len(batch) \in Nat /\ Len(replies) < Len(batch)
      /\ DOMAIN replies = 1..Len(replies)
  BY LenProperties DEF TypeOK, Pending
<1>2. c \in Commands /\ c = batch[Len(replies) + 1]
  BY <1>1, ElementOfSeq DEF Current
<1>3. /\ replies' \in Seq(Replies) /\ Len(replies') = Len(replies) + 1
      /\ DOMAIN replies' = 1..Len(replies) + 1
      /\ \A i \in 1..Len(replies) : replies'[i] = replies[i]
      /\ replies'[Len(replies) + 1] = r
  BY <1>1, AppendProperties, LenProperties
<1>4. /\ UNCHANGED <<refused, caps, stored, writes, held, phase, batch, head, result>>
      /\ hurt \subseteq hurt' /\ phase # "idle"
  BY DEF serverVars, keyVars, Pending
<1>5. TypeOK'
  BY <1>1, <1>2, <1>3, <1>4 DEF TypeOK
<1>6. Fresh'
  BY <1>1, <1>3, <1>4 DEF Fresh
<1>7. ByCommand'
  <2>1. ASSUME NEW i \in 1..Len(replies) PROVE Fits(replies[i], batch[i], held, hurt')
    BY <1>1, <1>4, FitsStays DEF ByCommand
  <2>2. Fits(r, batch[Len(replies) + 1], held, hurt')
    BY <1>2
  <2>3. QED
    BY <1>1, <1>3, <1>4, <2>1, <2>2 DEF ByCommand
<1>8. Stage'
  BY <1>4, CapsStay DEF Stage
<1>9. Explained'
  BY <1>4 DEF Explained, ShownWasHeld, MissingIsExplained, ErrorIsOfTheValue, Answered
<1>10. QED
  BY <1>5, <1>6, <1>7, <1>8, <1>9

LEMMA CurrentIs ==
  ASSUME IInv, Pending
  PROVE  Current \in Commands /\ phase # "idle" /\ stored \in held /\ stored \in Content \cup {Gone}
<1>1. Len(replies) + 1 \in 1..Len(batch) /\ batch \in Seq(Commands)
  BY LenProperties DEF IInv, TypeOK, Pending
<1>2. QED
  BY <1>1, ElementOfSeq DEF IInv, TypeOK, Fresh, Pending, Current

LEMMA ExecuteKeeps ==
  ASSUME IInv, Execute
  PROVE  IInv'
<1> DEFINE r == Answer(Current)
<1>1. Pending /\ replies' = Append(replies, r) /\ hurt' = hurt /\ lost' \in 0..MaxLost
  BY DEF Execute, IInv, TypeOK
<1>2. Current \in Commands /\ stored \in held /\ stored \in Content \cup {Gone}
  BY <1>1, CurrentIs
<1>3. r \in {stored, Failed} /\ r \in Replies
  BY <1>2 DEF Answer, Replies
<1>4. Fits(r, Current, held, hurt')
  <2>1. stored # Strange /\ stored # Failed /\ Failed # Strange
    BY <1>2, Marks, KindNames
  <2>2. /\ r = Failed => /\ Current.op \in {"size", "value"}
                         /\ stored.kind # Current.kind
        /\ r = stored => \/ Current.op \notin {"size", "value"}
                         \/ stored = Gone \/ stored.kind = Current.kind
    BY <2>1 DEF Answer
  <2>. HIDE DEF r
  <2>3. QED
    BY <1>2, <1>3, <2>1, <2>2 DEF Fits
<1>5. UNCHANGED <<serverVars, keyVars, phase, batch, head, result>>
  BY DEF Execute
<1>. HIDE DEF r
<1>6. QED
  BY <1>1, <1>2, <1>3, <1>4, <1>5, ReplyKeeps

LEMMA FailKeeps ==
  ASSUME IInv, Fail
  PROVE  IInv'
<1>1. /\ Pending /\ replies' = Append(replies, Failed) /\ hurt' = hurt \cup {Current}
      /\ lost' \in 0..MaxLost
      /\ UNCHANGED <<serverVars, keyVars, phase, batch, head, result>>
  BY BoundsAssumption DEF Fail, IInv, TypeOK
<1>2. Failed \in Replies /\ Failed # Strange
  BY Marks DEF Replies
<1>3. Fits(Failed, Current, held, hurt')
  BY <1>1, <1>2 DEF Fits
<1>4. QED
  BY <1>1, <1>2, <1>3, ReplyKeeps

LEMMA AnswerStrangelyKeeps ==
  ASSUME IInv, AnswerStrangely
  PROVE  IInv'
<1>1. /\ Pending /\ replies' = Append(replies, Strange) /\ hurt' = hurt \cup {Current}
      /\ Current.op = "value" /\ lost' \in 0..MaxLost
      /\ UNCHANGED <<serverVars, keyVars, phase, batch, head, result>>
  BY BoundsAssumption DEF AnswerStrangely, IInv, TypeOK
<1>2. Strange \in Replies /\ Failed # Strange
  BY Marks DEF Replies
<1>3. Fits(Strange, Current, held, hurt')
  BY <1>1, <1>2 DEF Fits
<1>4. QED
  BY <1>1, <1>2, <1>3, ReplyKeeps

-----------------------------------------------------------------------------
(* The read                                                                *)

LEMMA BeginKeeps ==
  ASSUME IInv, Begin
  PROVE  IInv'
<1>. USE DEF IInv
<1>1. /\ phase = "idle" /\ UNCHANGED <<refused, caps, stored, writes, lost>>
      /\ held' = {stored} /\ hurt' = {} /\ head' = NoHead /\ result' = NoResult
      /\ replies' = <<>>
      /\ \/ Speculates /\ phase' = "speculative" /\ batch' = SpeculativeBatch
         \/ ~Speculates /\ phase' = "head" /\ batch' = HeadBatch
  BY DEF Begin, Send, serverVars
<1>2. replies' \in Seq(Replies) /\ DOMAIN replies' = {} /\ Len(replies') = 0
  BY <1>1, EmptySeq
<1>3. batch' \in Seq(Commands) /\ Len(batch') \in Nat
  BY <1>1, SpeculativeLayout, HeadLayout, LenProperties
<1>4. TypeOK'
  BY <1>1, <1>2, <1>3 DEF TypeOK, NoHead, NoResult, Meta
<1>5. Fresh' /\ ByCommand'
  BY <1>1, <1>2 DEF Fresh, ByCommand
<1>6. Stage'
  BY <1>1, CapsStay DEF Stage
<1>7. Explained'
  BY <1>1 DEF Explained, ShownWasHeld, MissingIsExplained, ErrorIsOfTheValue, Answered
<1>8. QED
  BY <1>4, <1>5, <1>6, <1>7

\* A read that has ended leaves nothing but its result.
LEMMA ReturnKeeps ==
  ASSUME IInv, NEW r, Return(r), UNCHANGED <<serverVars, keyVars>>,
         lost' \in 0..MaxLost, hurt' \subseteq Commands \cup {Pipeline},
         r.kind \in KeyKinds \cup {"none", "error"},
         {r.ttl, r.size, r.memory} \subseteq Content \cup {Gone},
         r.value \in Content \cup {Gone, Missing, Unsupported},
         Explained'
  PROVE  IInv'
<1>. USE DEF IInv
<1>1. /\ phase' = "idle" /\ batch' = <<>> /\ replies' = <<>> /\ result' = r /\ head' = NoHead
      /\ UNCHANGED <<refused, caps, stored, writes, held>>
  BY DEF Return, Send, serverVars, keyVars
<1>2. /\ replies' \in Seq(Replies) /\ batch' \in Seq(Commands) /\ Len(replies') <= Len(batch')
      /\ DOMAIN replies' = {}
  BY <1>1, EmptySeq
<1>3. TypeOK'
  BY <1>1, <1>2 DEF TypeOK, NoHead
<1>4. Fresh' /\ ByCommand' /\ Stage'
  BY <1>1, <1>2 DEF Fresh, ByCommand, Stage
<1>5. QED
  BY <1>3, <1>4

LEMMA ErrKeeps ==
  ASSUME IInv, Return(Err), UNCHANGED <<serverVars, keyVars>>,
         lost' \in 0..MaxLost, hurt' \subseteq Commands \cup {Pipeline},
         \/ Pipeline \in hurt'
         \/ \E c \in held : ValueCmd(c.kind) \in hurt'
         \/ ~Speculates /\ TypeChanged
  PROVE  IInv'
<1>1. /\ Err.kind = "error" /\ Err.ok = FALSE /\ Err.value = Missing
      /\ Err.ttl = Gone /\ Err.size = Gone /\ Err.memory = Gone
  BY DEF Err, NoResult, Meta
<1>2. result' = Err /\ phase' = "idle" /\ held' = held /\ caps' = caps
  BY DEF Return, Send, serverVars, keyVars
<1>3. Explained'
  BY <1>1, <1>2 DEF Explained, ShownWasHeld, MissingIsExplained, ErrorIsOfTheValue,
                    Answered, TypeChanged, Speculates
<1>4. QED
  BY <1>1, <1>3, ReturnKeeps

LEMMA MetaKeeps ==
  ASSUME IInv, UNCHANGED <<serverVars, keyVars, lost, hurt>>,
         NEW kind \in KeyKinds \cup {"none"},
         NEW ttl \in held \cup {Gone}, NEW memory \in held \cup {Gone},
         NEW size \in held \cup {Gone}, NEW value \in held \cup {Missing, Unsupported},
         Return(Meta(kind, ttl, size, memory, value)),
         kind # "none" => \E c \in held : c.kind = kind,
         size # Gone => size.kind = kind,
         value \in {Missing, Unsupported, Gone} \/ value.kind = kind,
         value = Missing => \/ Gone \in held \/ TypeChanged
                            \/ TypeCmd \in hurt \/ ValueCmd(kind) \in hurt
  PROVE  IInv'
<1> DEFINE r == Meta(kind, ttl, size, memory, value)
<1>1. /\ r.ok = TRUE /\ r.kind = kind /\ r.ttl = ttl /\ r.size = size
      /\ r.memory = memory /\ r.value = value /\ r # Err
  BY DEF Meta, Err, NoResult
<1>2. /\ result' = r /\ phase' = "idle"
      /\ held' = held /\ hurt' = hurt /\ caps' = caps /\ lost' = lost
  BY DEF Return, Send, serverVars, keyVars
<1>. HIDE DEF r
<1>3. ShownWasHeld'
  <2>1. value = Gone => Gone \in held
    BY Marks
  <2>2. QED
    BY <1>1, <1>2, <2>1 DEF ShownWasHeld, Answered
<1>4. MissingIsExplained'
  BY <1>1, <1>2 DEF MissingIsExplained, TypeChanged
<1>5. ErrorIsOfTheValue'
  BY <1>1, <1>2 DEF ErrorIsOfTheValue
<1>6. held \subseteq Content \cup {Gone} /\ hurt \subseteq Commands \cup {Pipeline} /\ lost \in 0..MaxLost
  BY DEF IInv, TypeOK
<1>7. QED
  BY <1>1, <1>2, <1>3, <1>4, <1>5, <1>6, ReturnKeeps DEF Explained, r

\* What is read from a slot when the whole batch has been answered.
LEMMA SlotFacts ==
  ASSUME IInv, phase # "idle", Len(replies) = Len(batch), NEW i \in 1..Len(batch)
  PROVE  /\ At(i) \in held \cup {Failed, Strange}
         /\ Fits(At(i), batch[i], held, hurt)
         /\ batch[i].op # "value" =>
              /\ At(i) # Strange
              /\ Field(i) \in held \cup {Gone}
              /\ batch[i].op = "size" /\ Field(i) # Gone => Field(i).kind = batch[i].kind
<1>1. replies \in Seq(Replies) /\ i \in DOMAIN replies /\ i <= Len(replies)
  BY LenProperties DEF IInv, TypeOK
<1>2. At(i) = replies[i]
  BY <1>1 DEF At
<1>3. At(i) \in held \cup {Failed, Strange} /\ Fits(At(i), batch[i], held, hurt)
  BY <1>1, <1>2 DEF IInv, Fresh, ByCommand
<1>4. ASSUME batch[i].op # "value"
      PROVE  /\ At(i) # Strange /\ Field(i) \in held \cup {Gone}
             /\ batch[i].op = "size" /\ Field(i) # Gone => Field(i).kind = batch[i].kind
  BY <1>3, <1>4 DEF Fits, Field
<1>5. QED
  BY <1>3, <1>4

\* The type of the key, as the first slot gives it.
LEMMA KindFacts ==
  ASSUME IInv, phase # "idle", Len(replies) = Len(batch), Len(batch) >= 1,
         batch[SlotType] = TypeCmd
  PROVE  LET kind == ParseKind(At(SlotType))
         IN /\ kind \in KeyKinds \cup {"none"}
            /\ kind # "none" => \E c \in held : c.kind = kind
            /\ kind = "none" => Gone \in held \/ TypeCmd \in hurt
<1> DEFINE kind == ParseKind(At(SlotType))
<1>1. SlotType \in 1..Len(batch)
  BY LenProperties DEF SlotType, IInv, TypeOK
<1>2. /\ At(SlotType) \in held \cup {Failed}
      /\ At(SlotType) = Failed => TypeCmd \in hurt
  BY <1>1, SlotFacts, CommandFields DEF Fits
<1>3. held \subseteq Content \cup {Gone}
  BY DEF IInv, TypeOK
<1>4. CASE At(SlotType) = Failed
  BY <1>2, <1>4 DEF ParseKind
<1>5. CASE At(SlotType) = Gone
  BY <1>2, <1>5, Marks DEF ParseKind
<1>6. CASE At(SlotType) \in held /\ At(SlotType) \in Content /\ At(SlotType) # Failed
  <2>1. kind = At(SlotType).kind
    BY <1>6 DEF ParseKind
  <2>2. kind \in KeyKinds
    BY <1>6, <2>1, Marks
  <2>3. QED
    BY <1>6, <2>1, <2>2, KindNames
<1>7. QED
  BY <1>2, <1>3, <1>4, <1>5, <1>6

LEMMA MisalignedKeeps ==
  ASSUME IInv, Misaligned
  PROVE  IInv'
<1>1. /\ Return(Err) /\ UNCHANGED <<serverVars, keyVars>>
      /\ lost' \in 0..MaxLost /\ hurt' = hurt \cup {Pipeline}
      /\ hurt \subseteq Commands \cup {Pipeline}
  BY BoundsAssumption DEF Misaligned, IInv, TypeOK
<1>2. QED
  BY <1>1, ErrKeeps

LEMMA FinishSpeculativeKeeps ==
  ASSUME IInv, FinishSpeculative
  PROVE  IInv'
<1> DEFINE kind == ParseKind(At(SlotType))
           known == kind \in KnownKinds
           ttl == Field(SlotPttl)
           size == IF known THEN Field(SizeBase + Slot(kind)) ELSE Gone
           memory == IF "MemoryStats" \in caps THEN Field(SlotMemory) ELSE Gone
           value == At(ValueBase + Slot(kind))
<1>1. /\ phase # "idle" /\ Len(replies) = Len(batch)
      /\ batch = SpeculativeBatch /\ UNCHANGED <<serverVars, keyVars, lost, hurt>>
      /\ Return(IF ~known \/ value = Failed
                THEN Meta(kind, ttl, size, memory, Absent(kind))
                ELSE IF value = Strange THEN Err
                ELSE Meta(kind, ttl, size, memory, value))
  BY DEF FinishSpeculative, Done, IInv, Stage
<1>2. /\ Len(batch) >= 2 /\ Len(batch) >= 2 + Width + Width
      /\ "MemoryStats" \in caps => SlotMemory \in 1..Len(batch)
      /\ {SlotType, SlotPttl} \subseteq 1..Len(batch)
      /\ \A i \in 1..Width : SizeBase + i \in 1..Len(batch) /\ ValueBase + i \in 1..Len(batch)
  BY <1>1, SpeculativeLayout, KindNames DEF SlotMemory, SlotType, SlotPttl, SizeBase, ValueBase
<1>3. /\ kind \in KeyKinds \cup {"none"}
      /\ kind # "none" => \E c \in held : c.kind = kind
      /\ kind = "none" => Gone \in held \/ TypeCmd \in hurt
  BY <1>1, <1>2, SpeculativeLayout, KindFacts
<1>4. ttl \in held \cup {Gone}
  BY <1>1, <1>2, SpeculativeLayout, SlotFacts, CommandFields
<1>5. memory \in held \cup {Gone}
  BY <1>1, <1>2, SpeculativeLayout, SlotFacts, CommandFields
<1>6. known => /\ Slot(kind) \in 1..Width
               /\ batch[SizeBase + Slot(kind)] = SizeCmd(kind)
               /\ batch[ValueBase + Slot(kind)] = ValueCmd(kind)
  BY <1>1, SpeculativeLayout, SlotOfKind
<1>7. size \in held \cup {Gone} /\ (size # Gone => size.kind = kind)
  BY <1>1, <1>2, <1>6, SlotFacts, CommandFields
<1>8. known => value \in held \cup {Failed, Strange} /\ Fits(value, ValueCmd(kind), held, hurt)
  BY <1>1, <1>2, <1>6, SlotFacts
<1>. HIDE DEF kind, ttl, size, memory, value
<1>9. CASE ~known
  <2>1. Absent(kind) \in {Missing, Unsupported}
    BY DEF Absent
  <2>2. Absent(kind) = Missing => kind = "none"
    BY <1>3, <1>9, Marks DEF Absent, KeyKinds
  <2>3. Return(Meta(kind, ttl, size, memory, Absent(kind)))
    BY <1>1, <1>9
  <2>4. QED
    BY <1>1, <1>3, <1>4, <1>5, <1>7, <2>1, <2>2, <2>3, MetaKeeps
<1>10. CASE known /\ value = Failed
  <2>1. Absent(kind) = Missing
    BY <1>10, KindNames DEF Absent
  <2>2. Return(Meta(kind, ttl, size, memory, Missing))
    BY <1>1, <1>10, <2>1
  <2>3. kind # "none"
    BY <1>10, KindNames DEF KeyKinds
  <2>4. ValueCmd(kind) \in hurt \/ TypeChanged
    BY <1>3, <1>8, <1>10, <2>3, CommandFields DEF Fits, TypeChanged
  <2>5. QED
    BY <1>1, <1>3, <1>4, <1>5, <1>7, <2>2, <2>4, MetaKeeps
<1>11. CASE known /\ value # Failed /\ value = Strange
  <2>1. kind # "none" /\ ValueCmd(kind) \in hurt
    BY <1>8, <1>11, KindNames DEF Fits, KeyKinds
  <2>2. Return(Err)
    BY <1>1, <1>11
  <2>3. lost' \in 0..MaxLost /\ hurt' = hurt /\ hurt \subseteq Commands \cup {Pipeline}
    BY <1>1 DEF IInv, TypeOK
  <2>4. QED
    BY <1>1, <1>3, <2>1, <2>2, <2>3, ErrKeeps
<1>12. CASE known /\ value \notin {Failed, Strange}
  <2>1. value \in held /\ (value = Gone \/ value.kind = kind)
    BY <1>8, <1>12, CommandFields DEF Fits
  <2>2. Return(Meta(kind, ttl, size, memory, value))
    BY <1>1, <1>12
  <2>3. value # Missing
    BY <2>1, Marks, KindNames DEF IInv, TypeOK
  <2>4. QED
    BY <1>1, <1>3, <1>4, <1>5, <1>7, <2>1, <2>2, <2>3, MetaKeeps
<1>13. QED
  BY <1>9, <1>10, <1>11, <1>12

LEMMA FinishHeadKeeps ==
  ASSUME IInv, FinishHead
  PROVE  IInv'
<1> DEFINE kind == ParseKind(At(SlotType))
           ttl == Field(SlotPttl)
           memory == IF "MemoryStats" \in caps THEN Field(3) ELSE Gone
<1>1. /\ phase = "head" /\ Len(replies) = Len(batch) /\ batch = HeadBatch /\ ~Speculates
      /\ UNCHANGED <<serverVars, keyVars, lost, hurt>>
  BY DEF FinishHead, Done, IInv, Stage
<1>2. /\ Len(batch) >= 2 /\ {SlotType, SlotPttl} \subseteq 1..Len(batch)
      /\ "MemoryStats" \in caps => 3 \in 1..Len(batch)
  BY <1>1, HeadLayout DEF SlotType, SlotPttl
<1>3. /\ kind \in KeyKinds \cup {"none"}
      /\ kind # "none" => \E c \in held : c.kind = kind
      /\ kind = "none" => Gone \in held \/ TypeCmd \in hurt
  BY <1>1, <1>2, HeadLayout, KindFacts
<1>4. ttl \in held \cup {Gone} /\ memory \in held \cup {Gone}
  BY <1>1, <1>2, HeadLayout, SlotFacts, CommandFields
<1>5. CASE kind = "none"
  <2>1. Return(Meta("none", Gone, Gone, Gone, Missing))
    BY <1>5 DEF FinishHead
  <2>2. QED
    BY <1>1, <1>3, <1>5, <2>1, MetaKeeps
<1>6. CASE kind # "none"
  <2>1. /\ head' = [kind |-> kind, ttl |-> ttl, memory |-> memory]
        /\ phase' = "body" /\ batch' = BodyBatch(kind) /\ replies' = <<>> /\ result' = result
    BY <1>6 DEF FinishHead, Send
  <2>. HIDE DEF kind, ttl, memory
  <2>2. head'.kind = kind /\ head'.ttl = ttl /\ head'.memory = memory
    BY <2>1
  <2>3. UNCHANGED <<refused, caps, stored, writes, held, lost, hurt>>
    BY <1>1 DEF serverVars, keyVars
  <2>4. kind \in KeyKinds
    BY <1>3, <1>6
  <2>5. /\ batch' \in Seq(Commands) /\ replies' \in Seq(Replies) /\ DOMAIN replies' = {}
        /\ Len(replies') <= Len(batch')
    BY <2>1, <2>4, BodyLayout, EmptySeq, LenProperties
  <2>6. held \subseteq Content \cup {Gone}
    BY DEF IInv, TypeOK
  <2>7. TypeOK'
    BY <1>4, <2>1, <2>2, <2>3, <2>4, <2>5, <2>6 DEF IInv, TypeOK
  <2>8. Fresh' /\ ByCommand'
    BY <1>1, <2>1, <2>3, <2>5 DEF IInv, Fresh, ByCommand
  <2>9. Stage'
    <3>1. batch' = BodyBatch(head.kind)'
      BY <2>1, <2>2, <2>3 DEF BodyBatch
    <3>2. QED
      BY <1>1, <1>3, <1>4, <1>6, <2>1, <2>2, <2>3, <2>4, <3>1, CapsStay DEF Stage
  <2>10. Explained'
    BY <2>1 DEF Explained, ShownWasHeld, MissingIsExplained, ErrorIsOfTheValue, Answered
  <2>11. QED
    BY <2>7, <2>8, <2>9, <2>10 DEF IInv
<1>7. QED
  BY <1>5, <1>6

LEMMA FinishBodyKeeps ==
  ASSUME IInv, FinishBody
  PROVE  IInv'
<1> DEFINE kind == head.kind
           read == Len(batch) = 2
           size == IF batch = <<>> THEN Gone ELSE Field(1)
           value == IF read THEN At(2) ELSE Unsupported
<1>1. /\ phase = "body" /\ Len(replies) = Len(batch) /\ ~Speculates
      /\ batch = BodyBatch(kind) /\ kind \in KeyKinds
      /\ \E c \in held : c.kind = kind
      /\ head.ttl \in held \cup {Gone} /\ head.memory \in held \cup {Gone}
      /\ UNCHANGED <<serverVars, keyVars, lost, hurt>>
      /\ Return(IF read /\ At(2) \in {Failed, Strange} THEN Err
                ELSE Meta(kind, head.ttl, size, head.memory, value))
  BY DEF FinishBody, Done, IInv, Stage
<1>2. kind # "none"
  BY <1>1, KindNames
<1>3. size \in held \cup {Gone} /\ (size # Gone => size.kind = kind)
  <2>1. CASE batch = <<>>
    BY <2>1
  <2>2. CASE batch # <<>>
    <3>1. 1 \in 1..Len(batch) /\ batch[1] = SizeCmd(kind)
      BY <1>1, <2>2, BodyLayout
    <3>2. QED
      BY <1>1, <2>2, <3>1, SlotFacts, CommandFields
  <2>3. QED
    BY <2>1, <2>2
<1>4. read => At(2) \in held \cup {Failed, Strange} /\ Fits(At(2), ValueCmd(kind), held, hurt)
  BY <1>1, BodyLayout, SlotFacts
<1>5. CASE read /\ At(2) \in {Failed, Strange}
  <2>1. Return(Err)
    BY <1>1, <1>5
  <2>2. (\E c \in held : ValueCmd(c.kind) \in hurt) \/ TypeChanged
    BY <1>1, <1>4, <1>5, CommandFields DEF Fits, TypeChanged
  <2>3. lost' \in 0..MaxLost /\ hurt' = hurt /\ hurt \subseteq Commands \cup {Pipeline}
    BY <1>1 DEF IInv, TypeOK
  <2>4. QED
    BY <1>1, <2>1, <2>2, <2>3, ErrKeeps
<1>6. CASE ~(read /\ At(2) \in {Failed, Strange})
  <2>1. Return(Meta(kind, head.ttl, size, head.memory, value))
    BY <1>1, <1>6
  <2>2. /\ value \in held \cup {Missing, Unsupported}
        /\ value \in {Missing, Unsupported, Gone} \/ value.kind = kind
    BY <1>4, <1>6, CommandFields DEF Fits
  <2>3. value # Missing
    BY <1>4, <1>6, Marks, KindNames DEF IInv, TypeOK
  <2>. HIDE DEF kind, size, value
  <2>4. QED
    BY <1>1, <1>2, <1>3, <2>1, <2>2, <2>3, MetaKeeps
<1>7. QED
  BY <1>5, <1>6

-----------------------------------------------------------------------------
(* The theorems                                                            *)

LEMMA Initially == Init => IInv
<1>. SUFFICES ASSUME Init PROVE IInv
  OBVIOUS
<1>1. /\ <<>> \in Seq(Replies) /\ <<>> \in Seq(Commands) /\ Len(<<>>) = 0
  BY EmptySeq
<1>2. TypeOK
  BY <1>1, BoundsAssumption
     DEF Init, Probed, TypeOK, NoHead, NoResult, Meta, Content, Commands
<1>3. Fresh /\ ByCommand /\ Stage
  BY DEF Init, Fresh, ByCommand, Stage
<1>4. Explained
  <2>1. result.ok = FALSE /\ result.kind = "none" /\ Err.kind = "error"
    BY DEF Init, NoResult, Meta, Err
  <2>2. result # Err
    BY <2>1
  <2>3. QED
    BY <2>1, <2>2 DEF Explained, ShownWasHeld, MissingIsExplained, ErrorIsOfTheValue, Answered
<1>5. QED
  BY <1>2, <1>3, <1>4 DEF IInv

LEMMA Inductive == IInv /\ [Next]_vars => IInv'
<1>. SUFFICES ASSUME IInv, [Next]_vars PROVE IInv'
  OBVIOUS
<1>1. CASE Write
  <2>1. PICK k \in KeyKinds : Replace([kind |-> k, write |-> writes + 1])
    BY <1>1 DEF Write
  <2>2. [kind |-> k, write |-> writes + 1] \in Content
    BY <2>1, BoundsAssumption DEF Replace, Content, IInv, TypeOK
  <2>3. QED
    BY <2>1, <2>2, ReplaceKeeps
<1>2. CASE Remove
  BY <1>2, ReplaceKeeps DEF Remove
<1>3. CASE Execute \/ Fail \/ AnswerStrangely
  BY <1>3, ExecuteKeeps, FailKeeps, AnswerStrangelyKeeps
<1>4. CASE Begin \/ Misaligned
  BY <1>4, BeginKeeps, MisalignedKeeps
<1>5. CASE FinishSpeculative \/ FinishHead \/ FinishBody
  BY <1>5, FinishSpeculativeKeeps, FinishHeadKeeps, FinishBodyKeeps
<1>6. CASE UNCHANGED vars
  <2>1. UNCHANGED <<refused, caps, stored, writes, lost, phase, batch, replies, head,
                    result, held, hurt>>
    BY <1>6 DEF vars
  <2>2. Explained'
    BY <2>1, StillExplained DEF IInv
  <2>3. (TypeOK /\ Fresh /\ ByCommand)'
    BY <2>1 DEF IInv, TypeOK, Fresh, ByCommand
  <2>4. Stage'
    BY <2>1, CapsStay DEF IInv, Stage
  <2>5. QED
    BY <2>2, <2>3, <2>4 DEF IInv
<1>7. QED
  BY <1>1, <1>2, <1>3, <1>4, <1>5, <1>6 DEF Next

LEMMA Invariant == Spec => []IInv
  BY Initially, Inductive, PTL DEF Spec

\* Replies never outnumber the commands, and every field has its type.
THEOREM TypeCorrect == Spec => []TypeOK
<1>1. IInv => TypeOK
  BY DEF IInv
<1>2. QED
  BY <1>1, Invariant, PTL

\* read_key never takes one slot for another, whatever is written meanwhile.
THEOREM SlotsApart == Spec => []ShownWasHeld
<1>1. IInv => ShownWasHeld
  BY DEF IInv, Explained
<1>2. QED
  BY <1>1, Invariant, PTL

\* A key is not called missing without a reason.
THEOREM MissingExplained == Spec => []MissingIsExplained
<1>1. IInv => MissingIsExplained
  BY DEF IInv, Explained
<1>2. QED
  BY <1>1, Invariant, PTL

\* A speculative read of another type never fails the whole read.
THEOREM ErrorExplained == Spec => []ErrorIsOfTheValue
<1>1. IInv => ErrorIsOfTheValue
  BY DEF IInv, Explained
<1>2. QED
  BY <1>1, Invariant, PTL

\* No value is read without the bounded command for it.
THEOREM ReadsAreBounded == Spec => []BoundedReadsOnly
<1>1. IInv => BoundedReadsOnly
  <2>. SUFFICES ASSUME IInv, NEW i \in DOMAIN batch, batch[i].op = "value"
                PROVE  Needs(batch[i].kind) \subseteq caps
    BY DEF BoundedReadsOnly
  <2>1. /\ batch \in Seq(Commands) /\ Len(batch) \in Nat /\ i \in 1..Len(batch)
        /\ phase \in {"idle", "speculative", "head", "body"}
    BY LenProperties DEF IInv, TypeOK
  <2>2. CASE phase = "idle"
    BY <2>1, <2>2, EmptySeq DEF IInv, Stage
  <2>3. CASE phase = "speculative"
    BY <2>3 DEF IInv, Stage, Speculates, Needs
  <2>4. CASE phase = "head"
    <3>1. batch[i] \in {TypeCmd, PttlCmd, MemoryCmd}
      BY <2>1, <2>4, HeadLayout DEF IInv, Stage, SlotType, SlotPttl
    <3>2. QED
      BY <3>1, CommandFields
  <2>5. CASE phase = "body"
    <3>1. batch = BodyBatch(head.kind) /\ head.kind \in KeyKinds
      BY <2>5 DEF IInv, Stage
    <3>2. batch # <<>>
      BY <2>1, EmptySeq
    <3>3. i = 2 /\ Len(batch) = 2
      BY <2>1, <3>1, <3>2, BodyLayout, CommandFields
    <3>4. QED
      BY <3>1, <3>3, BodyLayout, CommandFields
  <2>6. QED
    BY <2>1, <2>2, <2>3, <2>4, <2>5
<1>2. QED
  BY <1>1, Invariant, PTL

-----------------------------------------------------------------------------
(* One failure costs one field                                             *)

\* On the second trip of a read of a key that nobody touched, what the first one left
\* is exact where its commands got through.
HeadExact ==
  \A content \in Content \cup {Gone} :
    (phase = "body" /\ held = {content}) =>
      /\ TypeCmd \notin hurt => head.kind = content.kind
      /\ PttlCmd \notin hurt => head.ttl = content
      /\ ("MemoryStats" \in caps /\ MemoryCmd \notin hurt) => head.memory = content

Exact == HeadExact /\ OneFailureOneField

LEMMA BodyReads ==
  ASSUME NEW kind \in KnownKinds
  PROVE  /\ BodyBatch(kind) # <<>>
         /\ Len(BodyBatch(kind)) = 2 <=> Needs(kind) \subseteq caps
<1>1. <<SizeCmd(kind)>> \in Seq(Commands) /\ <<ValueCmd(kind)>> \in Seq(Commands)
  BY CommandsByName
<1>2. CASE Needs(kind) \subseteq caps
  <2>1. BodyBatch(kind) = <<SizeCmd(kind)>> \o <<ValueCmd(kind)>>
    BY <1>2 DEF BodyBatch
  <2>2. Len(BodyBatch(kind)) = 2
    BY <1>1, <2>1, Joined DEF Splits
  <2>3. QED
    BY <1>2, <2>2, EmptySeq
<1>3. CASE ~(Needs(kind) \subseteq caps)
  <2>1. BodyBatch(kind) = <<SizeCmd(kind)>> \o <<>>
    BY <1>3 DEF BodyBatch
  <2>2. BodyBatch(kind) = <<SizeCmd(kind)>>
    BY <1>1, <2>1, ConcatEmptySeq
  <2>3. QED
    BY <1>3, <2>2
<1>4. QED
  BY <1>2, <1>3

\* The reply to a command that got through is the content of the key, if it had no other.
LEMMA SlotExact ==
  ASSUME IInv, phase # "idle", Len(replies) = Len(batch), NEW i \in 1..Len(batch),
         NEW content \in Content \cup {Gone}, held = {content}, batch[i] \notin hurt,
         batch[i].op \in {"size", "value"} => batch[i].kind = content.kind
  PROVE  At(i) = content /\ Field(i) = content
<1>1. At(i) \in {content, Failed, Strange} /\ Fits(At(i), batch[i], {content}, hurt)
  BY SlotFacts
<1>2. content # Failed
  BY Marks, KindNames
<1>3. At(i) # Failed /\ At(i) # Strange
  BY <1>1 DEF Fits
<1>4. QED
  BY <1>1, <1>2, <1>3 DEF Field

LEMMA KindExact ==
  ASSUME IInv, phase # "idle", Len(replies) = Len(batch), Len(batch) >= 1,
         batch[SlotType] = TypeCmd, TypeCmd \notin hurt,
         NEW content \in Content \cup {Gone}, held = {content}
  PROVE  ParseKind(At(SlotType)) = content.kind
<1>1. SlotType \in 1..Len(batch)
  BY LenProperties DEF SlotType, IInv, TypeOK
<1>2. At(SlotType) = content
  BY <1>1, SlotExact, CommandFields
<1>3. content # Failed
  BY Marks, KindNames
<1>4. QED
  BY <1>2, <1>3 DEF ParseKind

LEMMA StillExact ==
  ASSUME IInv, Exact, UNCHANGED <<caps, phase, head, result>>, hurt \subseteq hurt',
         phase = "idle" => UNCHANGED <<held, hurt>>, held \subseteq held'
  PROVE  Exact'
<1>1. phase # "idle" => held # {}
  BY DEF IInv, Fresh
<1>2. ASSUME NEW content \in Content \cup {Gone}, held' = {content}
      PROVE  held = {content}
  BY <1>1, <1>2
<1>3. HeadExact'
  BY <1>2 DEF Exact, HeadExact
<1>4. \A content : Shown(content)' = Shown(content)
  BY DEF Shown, Readable, Speculates
<1>5. OneFailureOneField'
  BY <1>2, <1>4 DEF Exact, OneFailureOneField, Answered
<1>6. QED
  BY <1>3, <1>5 DEF Exact

LEMMA SpeculativeExact ==
  ASSUME IInv, FinishSpeculative
  PROVE  Exact'
<1> DEFINE kind == ParseKind(At(SlotType))
           known == kind \in KnownKinds
           ttl == Field(SlotPttl)
           size == IF known THEN Field(SizeBase + Slot(kind)) ELSE Gone
           memory == IF "MemoryStats" \in caps THEN Field(SlotMemory) ELSE Gone
           value == At(ValueBase + Slot(kind))
           shown == IF ~known \/ value = Failed THEN Absent(kind) ELSE value
<1>1. /\ phase # "idle" /\ Len(replies) = Len(batch) /\ Speculates
      /\ batch = SpeculativeBatch /\ UNCHANGED <<caps, held, hurt>>
      /\ Return(IF known /\ value = Strange /\ value # Failed THEN Err
                ELSE Meta(kind, ttl, size, memory, shown))
  BY DEF FinishSpeculative, Done, IInv, Stage, serverVars, keyVars
<1>2. /\ Len(batch) >= 1
      /\ "MemoryStats" \in caps => SlotMemory \in 1..Len(batch)
      /\ {SlotType, SlotPttl} \subseteq 1..Len(batch)
      /\ \A i \in 1..Width : SizeBase + i \in 1..Len(batch) /\ ValueBase + i \in 1..Len(batch)
  BY <1>1, SpeculativeLayout, KindNames DEF SlotMemory, SlotType, SlotPttl, SizeBase, ValueBase
<1>3. SUFFICES ASSUME NEW content \in Content \cup {Gone}, result'.ok, held = {content},
                      TypeCmd \notin hurt
               PROVE  /\ result'.kind = content.kind
                      /\ PttlCmd \notin hurt => result'.ttl = content
                      /\ (content.kind \in KnownKinds /\ SizeCmd(content.kind) \notin hurt)
                           => result'.size = content
                      /\ ("MemoryStats" \in caps /\ MemoryCmd \notin hurt) => result'.memory = content
                      /\ ValueCmd(content.kind) \notin hurt => result'.value = Shown(content)
  <2>1. phase' = "idle"
    BY <1>1 DEF Return, Send
  <2>2. \A content : Shown(content)' = Shown(content)
    BY <1>1 DEF Shown, Readable, Speculates
  <2>3. QED
    BY <1>1, <2>1, <2>2 DEF Exact, HeadExact, OneFailureOneField, Answered
<1>4. kind = content.kind
  BY <1>1, <1>2, <1>3, SpeculativeLayout, KindExact
<1>5. PttlCmd \notin hurt => ttl = content
  BY <1>1, <1>2, <1>3, SpeculativeLayout, SlotExact, CommandFields
<1>6. ("MemoryStats" \in caps /\ MemoryCmd \notin hurt) => memory = content
  BY <1>1, <1>2, <1>3, SpeculativeLayout, SlotExact, CommandFields
<1>7. known => /\ Slot(kind) \in 1..Width
               /\ batch[SizeBase + Slot(kind)] = SizeCmd(kind)
               /\ batch[ValueBase + Slot(kind)] = ValueCmd(kind)
  BY <1>1, SpeculativeLayout, SlotOfKind
<1>8. (known /\ SizeCmd(kind) \notin hurt) => size = content
  BY <1>1, <1>2, <1>3, <1>4, <1>7, SlotExact, CommandFields
<1>9. (known /\ ValueCmd(kind) \notin hurt) => value = content
  BY <1>1, <1>2, <1>3, <1>4, <1>7, SlotExact, CommandFields
<1>10. ValueCmd(kind) \notin hurt => shown = Shown(content)
  <2>1. content \notin {Failed, Strange}
    BY Marks, KindNames
  <2>2. CASE known
    <3>1. content # Gone
      BY <1>4, <2>2, Marks, KindNames DEF KeyKinds
    <3>2. QED
      BY <1>1, <1>4, <1>9, <2>1, <2>2, <3>1 DEF Shown, Readable
  <2>3. CASE ~known /\ content = Gone
    BY <1>4, <2>3, Marks DEF Shown, Absent
  <2>4. CASE ~known /\ content # Gone
    <3>1. content.kind = "module"
      BY <1>4, <2>4, Marks DEF KeyKinds
    <3>2. QED
      BY <1>4, <2>4, <3>1 DEF Shown, Absent, Readable
  <2>5. QED
    BY <2>2, <2>3, <2>4
<1>11. result' = Meta(kind, ttl, size, memory, shown)
  <2>1. ~Err.ok
    BY DEF Err, NoResult, Meta
  <2>2. QED
    BY <1>1, <1>3, <2>1 DEF Return
<1>. HIDE DEF kind, ttl, size, memory, value, shown
<1>12. /\ result'.kind = kind /\ result'.ttl = ttl /\ result'.size = size
       /\ result'.memory = memory /\ result'.value = shown
  BY <1>11 DEF Meta
<1>13. QED
  BY <1>4, <1>5, <1>6, <1>8, <1>10, <1>12

LEMMA HeadIsExact ==
  ASSUME IInv, FinishHead
  PROVE  Exact'
<1> DEFINE kind == ParseKind(At(SlotType))
           ttl == Field(SlotPttl)
           memory == IF "MemoryStats" \in caps THEN Field(3) ELSE Gone
<1>1. /\ phase = "head" /\ Len(replies) = Len(batch) /\ batch = HeadBatch
      /\ UNCHANGED <<caps, held, hurt>>
  BY DEF FinishHead, Done, IInv, Stage, serverVars, keyVars
<1>2. /\ Len(batch) >= 1 /\ {SlotType, SlotPttl} \subseteq 1..Len(batch)
      /\ "MemoryStats" \in caps => 3 \in 1..Len(batch)
  BY <1>1, HeadLayout DEF SlotType, SlotPttl
<1>3. ASSUME NEW content \in Content \cup {Gone}, held = {content}
      PROVE  /\ TypeCmd \notin hurt => kind = content.kind
             /\ PttlCmd \notin hurt => ttl = content
             /\ ("MemoryStats" \in caps /\ MemoryCmd \notin hurt) => memory = content
  BY <1>1, <1>2, <1>3, HeadLayout, SlotExact, KindExact, CommandFields
<1>4. \A content : Shown(content)' = Shown(content)
  BY <1>1 DEF Shown, Readable, Speculates
<1>. HIDE DEF kind, ttl, memory
<1>5. CASE kind = "none"
  <2>1. /\ phase' = "idle" /\ result'.kind = "none" /\ result'.ttl = Gone
        /\ result'.memory = Gone /\ result'.value = Missing
    BY <1>5 DEF FinishHead, Return, Send, Meta, kind
  <2>2. \A content \in Content \cup {Gone} : content.kind = "none" => content = Gone
    BY Marks, KindNames
  <2>3. "none" \notin KnownKinds /\ Shown(Gone) = Missing
    BY KindNames DEF KeyKinds, Shown
  <2>4. HeadExact'
    BY <2>1 DEF HeadExact
  <2>5. OneFailureOneField'
    BY <1>1, <1>3, <1>4, <1>5, <2>1, <2>2, <2>3 DEF OneFailureOneField, Answered
  <2>6. QED
    BY <2>4, <2>5 DEF Exact
<1>6. CASE kind # "none"
  <2>1. phase' = "body" /\ head' = [kind |-> kind, ttl |-> ttl, memory |-> memory]
    BY <1>6 DEF FinishHead, Send, kind, ttl, memory
  <2>2. head'.kind = kind /\ head'.ttl = ttl /\ head'.memory = memory
    BY <2>1
  <2>3. HeadExact'
    BY <1>1, <1>3, <2>2 DEF HeadExact
  <2>4. QED
    BY <2>1, <2>3 DEF Exact, OneFailureOneField, Answered
<1>7. QED
  BY <1>5, <1>6

LEMMA BodyExact ==
  ASSUME IInv, Exact, FinishBody
  PROVE  Exact'
<1> DEFINE kind == head.kind
           read == Len(batch) = 2
           size == IF batch = <<>> THEN Gone ELSE Field(1)
           value == IF read THEN At(2) ELSE Unsupported
<1>1. /\ phase = "body" /\ Len(replies) = Len(batch) /\ ~Speculates
      /\ batch = BodyBatch(kind) /\ kind \in KeyKinds
      /\ UNCHANGED <<caps, held, hurt>>
      /\ Return(IF read /\ At(2) \in {Failed, Strange} THEN Err
                ELSE Meta(kind, head.ttl, size, head.memory, value))
  BY DEF FinishBody, Done, IInv, Stage, serverVars, keyVars
<1>2. SUFFICES ASSUME NEW content \in Content \cup {Gone}, result'.ok, held = {content},
                      TypeCmd \notin hurt
               PROVE  /\ result'.kind = content.kind
                      /\ PttlCmd \notin hurt => result'.ttl = content
                      /\ (content.kind \in KnownKinds /\ SizeCmd(content.kind) \notin hurt)
                           => result'.size = content
                      /\ ("MemoryStats" \in caps /\ MemoryCmd \notin hurt) => result'.memory = content
                      /\ ValueCmd(content.kind) \notin hurt => result'.value = Shown(content)
  <2>1. phase' = "idle"
    BY <1>1 DEF Return, Send
  <2>2. \A content : Shown(content)' = Shown(content)
    BY <1>1 DEF Shown, Readable, Speculates
  <2>3. QED
    BY <1>1, <2>1, <2>2 DEF Exact, HeadExact, OneFailureOneField, Answered
<1>3. /\ kind = content.kind
      /\ PttlCmd \notin hurt => head.ttl = content
      /\ ("MemoryStats" \in caps /\ MemoryCmd \notin hurt) => head.memory = content
  BY <1>1, <1>2 DEF Exact, HeadExact
<1>4. (kind \in KnownKinds /\ SizeCmd(kind) \notin hurt) => size = content
  <2>1. SUFFICES ASSUME kind \in KnownKinds, SizeCmd(kind) \notin hurt PROVE size = content
    OBVIOUS
  <2>2. batch # <<>> /\ 1 \in 1..Len(batch) /\ batch[1] = SizeCmd(kind)
    BY <1>1, <2>1, BodyReads, BodyLayout
  <2>3. QED
    BY <1>1, <1>2, <1>3, <2>1, <2>2, SlotExact, CommandFields
<1>5. ValueCmd(kind) \notin hurt => value = Shown(content)
  <2>0. content # Gone
    BY <1>1, <1>3, Marks, KindNames
  <2>1. SUFFICES ASSUME ValueCmd(kind) \notin hurt PROVE value = Shown(content)
    OBVIOUS
  <2>2. CASE read
    <3>1. 2 \in 1..Len(batch) /\ batch[2] = ValueCmd(kind) /\ kind \in KnownKinds
          /\ Needs(kind) \subseteq caps
      BY <1>1, <2>2, BodyLayout
    <3>2. At(2) = content
      BY <1>1, <1>2, <1>3, <2>1, <3>1, SlotExact, CommandFields
    <3>3. QED
      BY <1>3, <2>0, <2>2, <3>1, <3>2 DEF Shown, Readable
  <2>3. CASE ~read
    <3>1. ~Readable(kind)
      BY <1>1, <2>3, BodyReads DEF Readable
    <3>2. QED
      BY <1>3, <2>0, <2>3, <3>1 DEF Shown
  <2>4. QED
    BY <2>2, <2>3
<1>6. result' = Meta(kind, head.ttl, size, head.memory, value)
  <2>1. ~Err.ok
    BY DEF Err, NoResult, Meta
  <2>2. QED
    BY <1>1, <1>2, <2>1 DEF Return
<1>. HIDE DEF kind, size, value
<1>7. /\ result'.kind = kind /\ result'.ttl = head.ttl /\ result'.size = size
      /\ result'.memory = head.memory /\ result'.value = value
  BY <1>6 DEF Meta
<1>8. QED
  BY <1>3, <1>4, <1>5, <1>7

LEMMA ExactKept == IInv /\ Exact /\ [Next]_vars => Exact'
<1>. SUFFICES ASSUME IInv, Exact, [Next]_vars PROVE Exact'
  OBVIOUS
<1>1. CASE Write \/ Remove
  <2>1. PICK content : Replace(content)
    BY <1>1 DEF Write, Remove
  <2>2. QED
    BY <2>1, StillExact DEF Replace, serverVars, readVars
<1>2. CASE Execute \/ Fail \/ AnswerStrangely
  BY <1>2, StillExact DEF Execute, Fail, AnswerStrangely, Pending, serverVars, keyVars
<1>3. CASE Begin
  <2>1. phase' \in {"speculative", "head"}
    BY <1>3 DEF Begin, Send
  <2>2. QED
    BY <2>1 DEF Exact, HeadExact, OneFailureOneField, Answered
<1>4. CASE Misaligned
  <2>1. phase' = "idle" /\ ~result'.ok
    BY <1>4 DEF Misaligned, Return, Send, Err, NoResult, Meta
  <2>2. QED
    BY <2>1 DEF Exact, HeadExact, OneFailureOneField, Answered
<1>5. CASE FinishSpeculative \/ FinishHead \/ FinishBody
  BY <1>5, SpeculativeExact, HeadIsExact, BodyExact
<1>6. CASE UNCHANGED vars
  BY <1>6, StillExact DEF vars
<1>7. QED
  BY <1>1, <1>2, <1>3, <1>4, <1>5, <1>6 DEF Next

\* Of a key that nobody touched, every field whose command got through is exact: a
\* command that fails costs its own field, on both paths (read_speculative and
\* read_sequential).
THEOREM FailuresStayApart == Spec => []OneFailureOneField
<1>1. Init => Exact
  BY DEF Init, Exact, HeadExact, OneFailureOneField, Answered, NoResult, Meta
<1>2. Exact => OneFailureOneField
  BY DEF Exact
<1>3. QED
  BY <1>1, <1>2, ExactKept, Invariant, PTL DEF Spec

-----------------------------------------------------------------------------
(* Filling the value pane                                                  *)

\* Every step of filling the value pane is one of reading the key, or none.
THEOREM DetailIsARead == DetailSpec => Spec
<1>1. DetailInit => Init
  BY DEF DetailInit
<1>2. [DetailNext]_detailVars => [Next]_vars
  <2> SUFFICES ASSUME [DetailNext]_detailVars PROVE [Next]_vars
    OBVIOUS
  <2>1. CASE UNCHANGED detailVars
    BY <2>1 DEF detailVars
  <2>2. CASE Overwrite
    BY <2>2 DEF Overwrite, Next
  <2>3. CASE ChangeGroup
    BY <2>3 DEF ChangeGroup
  <2>4. CASE BeginDetail
    BY <2>4 DEF BeginDetail, Next
  <2>5. CASE ReadKey
    BY <2>5 DEF ReadKey, Next
  <2>6. CASE KeyIsRead
    BY <2>6 DEF KeyIsRead, Goes
  <2>7. CASE ReadStream \/ ReadGroups
    BY <2>7 DEF ReadStream, ReadGroups, GiveUpStream, Goes
  <2>8. CASE ReadConsumers \/ ReadPending
    BY <2>8 DEF ReadConsumers, ReadPending, Onward, Goes
  <2>9. QED
    BY <2>1, <2>2, <2>3, <2>4, <2>5, <2>6, <2>7, <2>8 DEF DetailNext
<1>3. QED
  BY <1>1, <1>2, PTL DEF DetailSpec, Spec

-----------------------------------------------------------------------------
(* The invariant                                                           *)

Item == [name : GroupNames, state : States]
Entry == [name : GroupNames, summary : States, consumers : GroupStates, range : GroupStates]
Info == [known : BOOLEAN, groups : Seq(Entry), truncated : BOOLEAN]

Types ==
  /\ streams \in BOOLEAN
  /\ stage \in {"rest", "key", "stream", "groups", "consumers", "pending"}
  /\ groups \in [GroupNames -> GroupStates] /\ seen \in [GroupNames -> SUBSET GroupStates]
  /\ listed \in Seq(Item) /\ info \in Info
  /\ changed \in 0..MaxGroupChanges /\ missed \in 0..MaxMissed

\* While the groups are inspected nothing of the key's read moves, and the history
\* holds the present.
Watched ==
  Inspecting =>
    /\ phase = "idle" /\ result.ok /\ result.kind = "stream" /\ streams
    /\ \A g \in GroupNames : groups[g] \in seen[g]
    /\ stored.kind \in kinds

\* What was listed: groups that were there, each once, and all of them unless the
\* answer says otherwise.
WellListed ==
  /\ \A i, j \in DOMAIN listed : listed[i].name = listed[j].name => i = j
  /\ \A i \in DOMAIN listed : listed[i].state \in seen[listed[i].name]
  /\ ~info.truncated =>
       \A g \in GroupNames : NoGroup \in seen[g] \/ \E i \in DOMAIN listed : listed[i].name = g
  /\ info.truncated => Len(listed) = MaxGroups

\* What was found out of each, as far as the read has come.
Ranged(i) == info.groups[i].summary.pending => Held(info.groups[i].name, info.groups[i].range, "pending")
WellInspected ==
  /\ Len(info.groups) <= Len(listed)
  /\ \A i \in DOMAIN info.groups :
       /\ info.groups[i].name = listed[i].name /\ info.groups[i].summary = listed[i].state
       /\ Held(info.groups[i].name, info.groups[i].consumers, "consumers")
       /\ Ranged(i) \/ (stage = "pending" /\ i = Len(info.groups))

Stages ==
  /\ stage = "stream" => info = Nothing
  /\ stage \in {"groups", "consumers", "pending"} => info.known /\ "stream" \in kinds
  /\ stage = "groups" => info = Default
  /\ stage \in {"consumers", "pending"} => WellListed /\ WellInspected
  /\ stage = "consumers" => Len(info.groups) < Len(listed)
  /\ stage = "pending" => info.groups # <<>>

GroupInv == Types /\ Watched /\ Stages /\ GroupsAreTheStreams

-----------------------------------------------------------------------------
(* States and answers                                                      *)

LEMMA NoGroupIsNoState == NoGroup \notin States /\ NoGroup \in GroupStates
  BY DEF NoGroup, States, GroupStates

LEMMA Answers ==
  /\ {Nothing, Default, Truncated} \subseteq Info
  /\ Truncated.known /\ Truncated.groups = <<>> /\ Truncated.truncated
  /\ ~Nothing.known /\ Nothing.groups = <<>> /\ ~Nothing.truncated
  /\ Default.known /\ Default.groups = <<>> /\ ~Default.truncated
  /\ DOMAIN Nothing.groups = {} /\ DOMAIN Default.groups = {}
<1>1. <<>> \in Seq(Entry)
  OBVIOUS
<1>2. QED
  BY <1>1 DEF Nothing, Default, Truncated, Info

\* The answer with one more group, and with the range of the last one.
LEMMA OneMore ==
  ASSUME info \in Info, NEW e \in Entry, info' = [info EXCEPT !.groups = Append(@, e)]
  PROVE  /\ info' \in Info /\ info'.known = info.known /\ info'.truncated = info.truncated
         /\ Len(info.groups) \in Nat /\ Len(info'.groups) = Len(info.groups) + 1
         /\ DOMAIN info.groups = 1..Len(info.groups) /\ DOMAIN info'.groups = 1..(Len(info.groups) + 1)
         /\ info'.groups[Len(info.groups) + 1] = e
         /\ \A i \in 1..Len(info.groups) : info'.groups[i] = info.groups[i]
<1>1. info.groups \in Seq(Entry)
  BY DEF Info
<1>2. /\ info'.groups = Append(info.groups, e)
      /\ info' = [known |-> info.known, groups |-> Append(info.groups, e), truncated |-> info.truncated]
  BY DEF Info
<1>3. Append(info.groups, e) \in Seq(Entry)
  BY <1>1
<1>4. info' \in Info /\ info'.known = info.known /\ info'.truncated = info.truncated
  BY <1>2, <1>3 DEF Info
<1>5. QED
  BY <1>1, <1>2, <1>4, AppendProperties, LenProperties

LEMMA LastRanged ==
  ASSUME info \in Info, info.groups # <<>>, NEW reply \in GroupStates,
         info' = [info EXCEPT !.groups[Len(info.groups)].range = reply]
  PROVE  /\ info' \in Info /\ info'.known = info.known /\ info'.truncated = info.truncated
         /\ Len(info.groups) \in Nat \ {0} /\ Len(info'.groups) = Len(info.groups)
         /\ DOMAIN info.groups = 1..Len(info.groups) /\ DOMAIN info'.groups = DOMAIN info.groups
         /\ \A i \in 1..Len(info.groups) :
              info'.groups[i] = IF i = Len(info.groups)
                                THEN [info.groups[i] EXCEPT !.range = reply] ELSE info.groups[i]
<1> DEFINE n == Len(info.groups)
           e == [info.groups[n] EXCEPT !.range = reply]
           s == [info.groups EXCEPT ![n] = e]
<1>1. info.groups \in Seq(Entry) /\ n \in Nat \ {0} /\ n \in DOMAIN info.groups
      /\ DOMAIN info.groups = 1..n
  BY LenProperties, EmptySeq DEF Info
<1>2. e \in Entry
  <2>1. \A m \in Entry : [m EXCEPT !.range = reply] \in Entry
    BY DEF Entry
  <2>2. info.groups[n] \in Entry
    BY <1>1, ElementOfSeq
  <2>3. QED
    BY <2>1, <2>2
<1>3. /\ s \in Seq(Entry) /\ Len(s) = n /\ DOMAIN s = 1..n
      /\ \A i \in 1..n : s[i] = IF i = n THEN e ELSE info.groups[i]
  BY <1>1, <1>2, ExceptSeq
<1>4. info' = [info EXCEPT !.groups = s]
  OBVIOUS
<1> HIDE DEF s
<1>5. info' \in Info /\ info'.groups = s /\ info'.known = info.known /\ info'.truncated = info.truncated
  BY <1>3, <1>4 DEF Info
<1>6. QED
  BY <1>1, <1>3, <1>5

-----------------------------------------------------------------------------
(* Other clients                                                           *)

LEMMA GroupInit == DetailInit => GroupInv
<1> SUFFICES ASSUME DetailInit PROVE GroupInv
  OBVIOUS
<1>1. Types
  <2>1. listed \in Seq(Item)
    BY DEF DetailInit
  <2>2. QED
    BY <2>1, NoGroupIsNoState, Answers, GroupsAssumption DEF DetailInit, Types, NoGroups
<1>2. Watched /\ Stages
  BY DEF DetailInit, Watched, Inspecting, Stages
<1>3. GroupsAreTheStreams
  BY Answers DEF DetailInit, Init, NoResult, GroupsAreTheStreams
<1>4. QED
  BY <1>1, <1>2, <1>3 DEF GroupInv

\* What was so remains so: the history only grows.
LEMMA HistoryGrows ==
  ASSUME GroupInv, Inspecting, Types', Watched',
         \A g \in GroupNames : seen[g] \subseteq seen'[g], kinds \subseteq kinds',
         UNCHANGED <<stage, listed, info, cost>>
  PROVE  GroupInv'
<1> USE DEF GroupInv
<1>1. stage # "rest" /\ stage' # "rest"
  BY DEF Inspecting
<1>2. ASSUME WellListed /\ WellInspected
      PROVE  WellListed' /\ WellInspected'
  <2>1. \A i \in DOMAIN listed : listed[i] \in Item
    BY ElementOfSeq, LenProperties DEF Types
  <2>2. \A i \in DOMAIN info.groups : info.groups[i] \in Entry
    BY ElementOfSeq, LenProperties DEF Types, Info
  <2>3. WellListed'
    BY <1>2, <2>1 DEF WellListed, Item
  <2>4. ASSUME NEW n \in GroupNames, NEW r, NEW c, Held(n, r, c)
        PROVE  Held(n, r, c)'
    BY <2>4 DEF Held
  <2>5. ASSUME NEW i \in DOMAIN info.groups
        PROVE  /\ Held(info.groups[i].name, info.groups[i].consumers, "consumers")'
               /\ Ranged(i) => Ranged(i)'
    <3>1. info.groups[i].name \in GroupNames
      BY <2>2 DEF Entry
    <3>2. Held(info.groups[i].name, info.groups[i].consumers, "consumers")
      BY <1>2 DEF WellInspected
    <3>3. Ranged(i) => Ranged(i)'
      BY <3>1 DEF Ranged, Held
    <3>4. QED
      BY <3>1, <3>2, <3>3 DEF Held
  <2>6. WellInspected'
    BY <1>2, <2>5 DEF WellInspected
  <2>7. QED
    BY <2>3, <2>6
<1>3. Stages'
  BY <1>2 DEF Stages
<1>4. QED
  BY <1>1, <1>3 DEF GroupsAreTheStreams

LEMMA Seeing ==
  ASSUME NEW gs \in [GroupNames -> GroupStates], NEW kind, Types, See(gs, kind)
  PROVE  /\ seen' \in [GroupNames -> SUBSET GroupStates]
         /\ \A g \in GroupNames : seen[g] \subseteq seen'[g] /\ gs[g] \in seen'[g]
         /\ kinds \subseteq kinds' /\ kind \in kinds'
  BY DEF See, Types

LEMMA OverwriteKeeps ==
  ASSUME GroupInv, Overwrite
  PROVE  GroupInv'
<1> USE DEF GroupInv
<1>1. UNCHANGED <<phase, result, streams, stage, changed, listed, info, missed, cost>>
  BY DEF Overwrite, Write, Remove, Replace, readVars
<1>2. CASE Inspecting
  <2>1. groups' \in [GroupNames -> GroupStates] /\ See(groups', stored'.kind)
    BY <1>2, NoGroupIsNoState DEF Overwrite, Types, NoGroups
  <2>2. /\ seen' \in [GroupNames -> SUBSET GroupStates]
        /\ \A g \in GroupNames : seen[g] \subseteq seen'[g] /\ groups'[g] \in seen'[g]
        /\ kinds \subseteq kinds' /\ stored'.kind \in kinds'
    BY <2>1, Seeing
  <2>3. Types' /\ Watched'
    BY <1>1, <2>1, <2>2 DEF Types, Watched, Inspecting
  <2>4. QED
    BY <1>1, <1>2, <2>2, <2>3, HistoryGrows
<1>3. CASE ~Inspecting
  <2>1. UNCHANGED <<groups, seen, kinds>>
    BY <1>3 DEF Overwrite
  <2>2. Types' /\ Watched' /\ Stages'
    BY <1>1, <1>3, <2>1 DEF Types, Watched, Inspecting, Stages
  <2>3. GroupsAreTheStreams'
    BY <1>1, <2>1 DEF GroupsAreTheStreams, Held
  <2>4. QED
    BY <2>2, <2>3
<1>4. QED
  BY <1>2, <1>3

LEMMA ChangeKeeps ==
  ASSUME GroupInv, ChangeGroup
  PROVE  GroupInv'
<1> USE DEF GroupInv
<1>1. /\ Inspecting /\ UNCHANGED <<vars, streams, stage, listed, info, missed, cost>>
      /\ changed < MaxGroupChanges
  BY DEF ChangeGroup
<1>2. PICK g \in GroupNames, s \in {NoGroup} \cup {State(changed + 1, p) : p \in BOOLEAN} :
        groups' = [groups EXCEPT ![g] = s] /\ See(groups', stored.kind)
  BY DEF ChangeGroup
<1>3. s \in GroupStates
  <2>1. changed \in 0..MaxGroupChanges
    BY DEF Types
  <2>2. QED
    BY <1>1, <2>1, GroupsAssumption, NoGroupIsNoState DEF State, States, GroupStates
<1>4. groups' \in [GroupNames -> GroupStates]
  BY <1>2, <1>3 DEF Types
<1>5. /\ seen' \in [GroupNames -> SUBSET GroupStates]
      /\ \A h \in GroupNames : seen[h] \subseteq seen'[h] /\ groups'[h] \in seen'[h]
      /\ kinds \subseteq kinds' /\ stored.kind \in kinds'
  BY <1>2, <1>4, Seeing
<1>6. changed' \in 0..MaxGroupChanges
  BY <1>1, GroupsAssumption DEF ChangeGroup, Types
<1>7. Types' /\ Watched'
  BY <1>1, <1>4, <1>5, <1>6 DEF Types, Watched, Inspecting, vars
<1>8. QED
  BY <1>1, <1>5, <1>7, HistoryGrows

-----------------------------------------------------------------------------
(* The read                                                                *)

LEMMA KeyReadKeeps ==
  ASSUME GroupInv, BeginDetail \/ ReadKey \/ KeyIsRead
  PROVE  GroupInv'
<1> USE DEF GroupInv
<1>1. CASE BeginDetail
  <2>1. Types'
    <3>1. listed' \in Seq(Item)
      BY <1>1 DEF BeginDetail
    <3>2. QED
      BY <1>1, <3>1, NoGroupIsNoState, Answers, GroupsAssumption DEF BeginDetail, Types, NoGroups
  <2>2. QED
    BY <1>1, <2>1 DEF BeginDetail, Watched, Inspecting, Stages, GroupsAreTheStreams
<1>2. CASE ReadKey
  BY <1>2 DEF ReadKey, groupVars, Types, Watched, Inspecting, Stages, GroupsAreTheStreams
<1>3. CASE KeyIsRead
  <2>1. /\ stage = "key" /\ phase = "idle" /\ UNCHANGED <<changed, listed, missed, cost, streams, vars>>
        /\ seen' = [g \in GroupNames |-> {groups'[g]}] /\ kinds' = {stored.kind}
    BY <1>3 DEF KeyIsRead, Goes
  <2>2. groups' \in [GroupNames -> GroupStates]
    <3>1. \A p \in BOOLEAN : State(0, p) \in GroupStates
      BY GroupsAssumption DEF State, States, GroupStates
    <3>2. QED
      BY <1>3, <3>1, NoGroupIsNoState DEF KeyIsRead, NoGroups
  <2>3. CASE result.ok /\ result.kind = "stream" /\ streams
    <3>1. stage' = "stream" /\ info' = Nothing
      BY <1>3, <2>3 DEF KeyIsRead, Goes
    <3>2. QED
      BY <2>1, <2>2, <2>3, <3>1, Answers DEF Types, Watched, Inspecting, Stages, GroupsAreTheStreams, vars
  <2>4. CASE ~(result.ok /\ result.kind = "stream" /\ streams)
    <3>1. stage' = "rest" /\ info' = IF result.ok /\ result.kind = "stream" THEN Default ELSE Nothing
      BY <1>3, <2>4 DEF KeyIsRead, Goes, Types
    <3>2. Types' /\ Watched' /\ Stages'
      BY <2>1, <2>2, <3>1, Answers DEF Types, Watched, Inspecting, Stages, vars
    <3>3. GroupsAreTheStreams'
      BY <2>1, <2>4, <3>1, Answers DEF GroupsAreTheStreams, vars
    <3>4. QED
      BY <3>2, <3>3
  <2>5. QED
    BY <2>3, <2>4
<1>4. QED
  BY <1>1, <1>2, <1>3

\* Giving up says nothing of the stream, and for a reason.
LEMMA GivingUpKeeps ==
  ASSUME GroupInv, Inspecting, GiveUpStream, missed' \in 0..MaxMissed,
         \/ UNCHANGED cost /\ stored.kind # "stream"
         \/ \E c \in {<<"stream", "">>, <<"groups", "">>} : cost' = cost \cup {c}
  PROVE  GroupInv'
<1> USE DEF GroupInv
<1>1. stage' = "rest" /\ info' = Nothing /\ UNCHANGED <<vars, streams, groups, changed, seen, kinds, listed>>
  BY DEF GiveUpStream, Goes, groupVars
<1>2. Types' /\ Watched' /\ Stages'
  BY <1>1, Answers DEF Types, Watched, Inspecting, Stages
<1>3. cost' \cap {<<"stream", "">>, <<"groups", "">>} # {} \/ kinds' # {"stream"}
  BY <1>1 DEF Watched
<1>4. GroupsAreTheStreams'
  BY <1>1, <1>3, Answers DEF GroupsAreTheStreams
<1>5. QED
  BY <1>2, <1>4

LEMMA MissIs ==
  ASSUME NEW c, Miss(c), missed \in 0..MaxMissed
  PROVE  missed' \in 0..MaxMissed /\ cost' = cost \cup {c}
  BY GroupsAssumption DEF Miss

LEMMA ReadStreamKeeps ==
  ASSUME GroupInv, ReadStream
  PROVE  GroupInv'
<1> USE DEF GroupInv
<1>1. CASE GiveUpStream
  <2>1. Inspecting /\ missed \in 0..MaxMissed
    BY DEF ReadStream, Inspecting, Types
  <2>2. CASE Miss(<<"stream", "">>)
    BY <1>1, <2>1, <2>2, MissIs, GivingUpKeeps
  <2>3. CASE stored.kind # "stream" /\ Got
    BY <1>1, <2>1, <2>3, GivingUpKeeps DEF Got
  <2>4. QED
    BY <1>1, <2>2, <2>3, Answers DEF ReadStream, GiveUpStream, Goes
<1>2. CASE stored.kind = "stream" /\ Got /\ Goes("groups") /\ info' = Default /\ UNCHANGED <<groupVars, listed>>
  <2>1. stage = "stream"
    BY DEF ReadStream
  <2>2. QED
    BY <1>2, <2>1, Answers DEF Got, Goes, groupVars, vars, Types, Watched, Inspecting, Stages, GroupsAreTheStreams
<1>3. QED
  BY <1>1, <1>2 DEF ReadStream

-----------------------------------------------------------------------------
(* The groups                                                              *)

LEMMA ListedItems ==
  ASSUME Types
  PROVE  /\ Len(listed) \in Nat /\ DOMAIN listed = 1..Len(listed)
         /\ \A i \in DOMAIN listed : listed[i] \in Item /\ listed[i].name \in GroupNames
                                    /\ listed[i].state \in States
<1>1. Len(listed) \in Nat /\ DOMAIN listed = 1..Len(listed) /\ \A i \in DOMAIN listed : listed[i] \in Item
  BY ElementOfSeq, LenProperties DEF Types
<1>2. QED
  BY <1>1 DEF Item

\* With every listed group inspected the answer is a true one.
Complete ==
  /\ info.known /\ result.kind = "stream" /\ "stream" \in kinds
  /\ WellListed /\ Len(info.groups) = Len(listed)
  /\ \A i \in DOMAIN info.groups :
       /\ info.groups[i].name = listed[i].name /\ info.groups[i].summary = listed[i].state
       /\ Held(info.groups[i].name, info.groups[i].consumers, "consumers")
       /\ Ranged(i)

LEMMA CompleteIsTrue ==
  ASSUME Types', Complete'
  PROVE  GroupsAreTheStreams'
<1>1. /\ DOMAIN info'.groups = DOMAIN listed'
      /\ \A i \in DOMAIN info'.groups : info'.groups[i] \in Entry
  <2>1. info'.groups \in Seq(Entry) /\ listed' \in Seq(Item)
    BY DEF Types, Info
  <2>2. QED
    BY <2>1, ElementOfSeq, LenProperties DEF Complete
<1>2. ASSUME NEW i \in DOMAIN info'.groups
      PROVE  /\ info'.groups[i].summary # NoGroup
             /\ info'.groups[i].summary \in seen'[info'.groups[i].name]
             /\ Held(info.groups[i].name, info.groups[i].consumers, "consumers")'
             /\ info'.groups[i].summary.pending =>
                  Held(info.groups[i].name, info.groups[i].range, "pending")'
             /\ \A j \in DOMAIN info'.groups : info'.groups[j].name = info'.groups[i].name => i = j
  <2>1. info'.groups[i].summary \in States
    BY <1>1 DEF Entry
  <2>2. QED
    BY <1>1, <2>1, NoGroupIsNoState DEF Complete, WellListed, Ranged
<1>3. (~info'.truncated) =>
        \A g \in GroupNames : NoGroup \in seen'[g] \/ \E i \in DOMAIN info'.groups : info'.groups[i].name = g
  BY <1>1 DEF Complete, WellListed
<1>4. info'.truncated => Len(info'.groups) = MaxGroups
  BY DEF Complete, WellListed
<1>5. QED
  BY <1>2, <1>3, <1>4 DEF GroupsAreTheStreams, Complete

\* XINFO GROUPS lists every group that is there, once, up to the limit.
LEMMA ListingIsWell ==
  ASSUME Types, \A g \in GroupNames : groups[g] \in seen[g],
         NEW n, NEW m, n = Cardinality(Present), m = Least(n, MaxGroups),
         NEW order \in Bijection(1..n, Present),
         listed' = [i \in 1..m |-> [name |-> order[i], state |-> groups[order[i]]]],
         info' = IF n > MaxGroups THEN Truncated ELSE Default,
         UNCHANGED seen
  PROVE  /\ WellListed' /\ listed' \in Seq(Item) /\ info' \in Info
         /\ info'.known /\ info'.groups = <<>>
<1>1. n \in Nat /\ MaxGroups \in Nat
  <2>1. IsFiniteSet(Present)
    BY GroupsAssumption, FS_Subset DEF Present
  <2>2. QED
    BY <2>1, FS_CardinalityType, GroupsAssumption
<1>2. /\ \A i \in 1..n : order[i] \in Present
      /\ \A i, j \in 1..n : order[i] = order[j] => i = j
      /\ \A g \in Present : \E i \in 1..n : order[i] = g
  BY DEF Bijection, Injection, Surjection, IsInjective
<1>3. m \in Nat /\ m <= n /\ m <= MaxGroups /\ (n <= MaxGroups => m = n) /\ (n > MaxGroups => m = MaxGroups)
  BY <1>1 DEF Least
<1>4. \A g \in Present : g \in GroupNames /\ groups[g] \in States
  BY DEF Present, Types, GroupStates
<1>5. /\ DOMAIN listed' = 1..m
      /\ \A i \in 1..m : /\ listed'[i] \in Item /\ listed'[i].name = order[i]
                         /\ listed'[i].state = groups[order[i]]
  BY <1>1, <1>2, <1>3, <1>4 DEF Item
<1>6. listed' \in Seq(Item) /\ Len(listed') = m
  <2>1. listed' \in [1..m -> Item]
    BY <1>5
  <2>2. listed' \in Seq(Item)
    <3>1. listed' \in UNION {[1..k -> Item] : k \in Nat}
      BY <1>3, <2>1
    <3>2. Seq(Item) = UNION {[1..k -> Item] : k \in Nat}
      BY SeqDef, Zenon
    <3>3. QED
      BY <3>1, <3>2, Zenon
  <2>3. Len(listed') \in Nat /\ 1..Len(listed') = 1..m
    BY <1>5, <2>2, LenProperties
  <2>4. CASE Len(listed') < m
    BY <1>3, <2>3, <2>4
  <2>5. CASE Len(listed') > m
    BY <1>3, <2>3, <2>5
  <2>6. QED
    BY <1>3, <2>2, <2>3, <2>4, <2>5
<1>7. info' \in Info /\ info'.known /\ info'.groups = <<>> /\ (info'.truncated <=> n > MaxGroups)
  BY Answers
<1>8. WellListed'
  <2> \A i \in DOMAIN listed' : i \in 1..m /\ i \in 1..n
    BY <1>1, <1>3, <1>5
  <2>1. ASSUME NEW i \in DOMAIN listed', NEW j \in DOMAIN listed', listed'[i].name = listed'[j].name
        PROVE  i = j
    BY <1>2, <1>5, <2>1
  <2>2. ASSUME NEW i \in DOMAIN listed'
        PROVE  listed'[i].state \in seen'[listed'[i].name]
    BY <1>2, <1>4, <1>5
  <2>3. ASSUME ~info'.truncated, NEW g \in GroupNames
        PROVE  NoGroup \in seen'[g] \/ \E i \in DOMAIN listed' : listed'[i].name = g
    <3>1. m = n
      BY <1>1, <1>3, <1>7, <2>3
    <3>2. CASE g \in Present
      BY <1>2, <1>5, <3>1, <3>2
    <3>3. CASE g \notin Present
      BY <3>3 DEF Present
    <3>4. QED
      BY <3>2, <3>3
  <2>4. info'.truncated => Len(listed') = MaxGroups
    BY <1>1, <1>3, <1>6, <1>7
  <2>5. QED
    BY <2>1, <2>2, <2>3, <2>4 DEF WellListed
<1>9. QED
  BY <1>6, <1>7, <1>8

LEMMA ReadGroupsKeeps ==
  ASSUME GroupInv, ReadGroups
  PROVE  GroupInv'
<1> USE DEF GroupInv
<1>1. stage = "groups" /\ Inspecting /\ missed \in 0..MaxMissed /\ info = Default
      /\ "stream" \in kinds /\ result.kind = "stream" /\ phase = "idle" /\ result.ok /\ streams
  BY DEF ReadGroups, Inspecting, Types, Stages, Watched
<1>2. CASE Miss(<<"groups", "">>) /\ GiveUpStream
  BY <1>1, <1>2, MissIs, GivingUpKeeps
<1>3. CASE stored.kind # "stream" /\ Got /\ GiveUpStream
  BY <1>1, <1>3, GivingUpKeeps DEF Got
<1> DEFINE Lists == /\ stored.kind = "stream" /\ Got
                    /\ \E order \in Bijection(1..Cardinality(Present), Present) :
                         listed' = [i \in 1..Least(Cardinality(Present), MaxGroups) |->
                                      [name |-> order[i], state |-> groups[order[i]]]]
                    /\ info' = IF Cardinality(Present) > MaxGroups THEN Truncated ELSE Default
                    /\ Goes(IF listed' = <<>> THEN "rest" ELSE "consumers")
                    /\ UNCHANGED groupVars
<1>4. CASE Lists
  <2>1. PICK order \in Bijection(1..Cardinality(Present), Present) :
          listed' = [i \in 1..Least(Cardinality(Present), MaxGroups) |->
                       [name |-> order[i], state |-> groups[order[i]]]]
    BY <1>4
  <2>2. /\ info' = IF Cardinality(Present) > MaxGroups THEN Truncated ELSE Default
        /\ stage' = IF listed' = <<>> THEN "rest" ELSE "consumers"
        /\ UNCHANGED <<vars, streams, groups, changed, seen, kinds, missed, cost>>
    BY <1>4 DEF Goes, groupVars, Got
  <2>3. /\ WellListed' /\ listed' \in Seq(Item) /\ info' \in Info
        /\ info'.known /\ info'.groups = <<>>
    BY <1>1, <2>1, <2>2, ListingIsWell, Answers DEF Watched
  <2>4. Types' /\ Watched'
    BY <1>1, <2>2, <2>3 DEF Types, Watched, Inspecting, vars
  <2>5. Len(info'.groups) = 0 /\ DOMAIN info'.groups = {}
    BY <2>3
  <2>6. CASE listed' = <<>>
    <3>1. Complete'
      BY <1>1, <2>2, <2>3, <2>5, <2>6 DEF Complete, vars
    <3>2. Stages'
      BY <2>2, <2>6 DEF Stages
    <3>3. QED
      BY <2>4, <3>1, <3>2, CompleteIsTrue
  <2>7. CASE listed' # <<>>
    <3>1. Len(listed') > 0
      BY <2>3, <2>7, EmptySeq, LenProperties
    <3>2. WellInspected'
      BY <2>5, <3>1 DEF WellInspected
    <3>3. Stages' /\ GroupsAreTheStreams'
      BY <1>1, <2>2, <2>3, <2>5, <2>7, <3>1, <3>2 DEF Stages, GroupsAreTheStreams, vars
    <3>4. QED
      BY <2>4, <3>3
  <2>8. QED
    BY <2>6, <2>7
<1>5. QED
  BY <1>2, <1>3, <1>4 DEF ReadGroups

\* What a command about one group found was so, or the command failed.
LEMMA AskedIsHeld ==
  ASSUME Types, Watched, Inspecting, NEW command, NEW name \in GroupNames, NEW reply,
         Ask(command, name, reply)
  PROVE  /\ reply \in GroupStates /\ missed' \in 0..MaxMissed /\ cost \subseteq cost'
         /\ IF reply = NoGroup THEN NoGroup \in seen[name] \/ <<command, name>> \in cost'
            ELSE reply \in seen[name]
<1>1. missed \in 0..MaxMissed /\ groups[name] \in seen[name] /\ groups[name] \in GroupStates
  BY DEF Types, Watched
<1>2. CASE reply = groups[name] /\ Got
  BY <1>1, <1>2 DEF Got
<1>3. CASE reply = NoGroup /\ Miss(<<command, name>>)
  BY <1>1, <1>3, MissIs, NoGroupIsNoState
<1>4. QED
  BY <1>2, <1>3 DEF Ask

LEMMA ReadConsumersKeeps ==
  ASSUME GroupInv, ReadConsumers
  PROVE  GroupInv'
<1> USE DEF GroupInv
<1>0. PICK n : n = Len(info.groups) + 1
  OBVIOUS
<1>1. /\ stage = "consumers" /\ Inspecting /\ WellListed /\ WellInspected /\ Len(info.groups) < Len(listed)
      /\ info.known /\ "stream" \in kinds /\ result.kind = "stream"
      /\ UNCHANGED <<vars, streams, groups, changed, seen, kinds, listed>>
  BY DEF ReadConsumers, Inspecting, Stages, Watched, Goes, Onward, groupVars
<1>2. /\ Len(info.groups) \in Nat /\ n \in DOMAIN listed /\ Following = listed[n]
      /\ DOMAIN info.groups = 1..Len(info.groups)
      /\ Following.name \in GroupNames /\ Following.state \in States
  <2>1. Len(info.groups) \in Nat /\ DOMAIN info.groups = 1..Len(info.groups)
    BY LenProperties DEF Types, Info
  <2>2. n \in DOMAIN listed
    BY <1>0, <1>1, <2>1, ListedItems
  <2>3. QED
    BY <1>0, <2>1, <2>2, ListedItems DEF Following
<1>3. PICK reply \in {groups[Following.name], NoGroup} :
        /\ Ask("consumers", Following.name, reply)
        /\ info' = [info EXCEPT !.groups = Append(@,
             [name |-> Following.name, summary |-> Following.state,
              consumers |-> reply, range |-> NoGroup])]
  BY DEF ReadConsumers
<1> DEFINE e == [name |-> Following.name, summary |-> Following.state,
                 consumers |-> reply, range |-> NoGroup]
<1>4. /\ reply \in GroupStates /\ missed' \in 0..MaxMissed /\ cost \subseteq cost'
      /\ IF reply = NoGroup THEN NoGroup \in seen[Following.name] \/ <<"consumers", Following.name>> \in cost'
         ELSE reply \in seen[Following.name]
  BY <1>1, <1>2, <1>3, AskedIsHeld
<1>5. e \in Entry /\ e.name = listed[n].name /\ e.summary = listed[n].state
  BY <1>2, <1>4, NoGroupIsNoState DEF Entry
<1>6. /\ info' \in Info /\ info'.known = info.known /\ info'.truncated = info.truncated
      /\ Len(info'.groups) = n /\ DOMAIN info'.groups = 1..n
      /\ info'.groups[n] = e
      /\ \A i \in 1..Len(info.groups) : info'.groups[i] = info.groups[i]
  BY <1>0, <1>3, <1>5, OneMore DEF Types
<1>7. Held(info.groups[n].name, info.groups[n].consumers, "consumers")'
  <2>1. info'.groups[n].name = Following.name /\ info'.groups[n].consumers = reply
    BY <1>6
  <2>2. QED
    BY <1>1, <1>4, <2>1 DEF Held
<1>8. ASSUME NEW i \in 1..Len(info.groups)
      PROVE  /\ info'.groups[i].name = listed[i].name /\ info'.groups[i].summary = listed[i].state
             /\ Held(info.groups[i].name, info.groups[i].consumers, "consumers")'
             /\ Ranged(i)'
  <2>1. /\ info.groups[i].name = listed[i].name /\ info.groups[i].summary = listed[i].state
        /\ Held(info.groups[i].name, info.groups[i].consumers, "consumers") /\ Ranged(i)
    BY <1>1, <1>2 DEF WellInspected
  <2>2. info'.groups[i] = info.groups[i]
    BY <1>6
  <2>3. QED
    BY <1>1, <1>4, <2>1, <2>2 DEF Held, Ranged
<1>9. \A i \in DOMAIN info'.groups : i = n \/ i \in 1..Len(info.groups)
  BY <1>0, <1>2, <1>6
<1>10. Types' /\ Watched' /\ WellListed'
  <2>1. Types'
    BY <1>1, <1>4, <1>6 DEF Types, ReadConsumers, Goes, Onward
  <2>2. Watched'
    BY <1>1 DEF Watched, Inspecting, vars
  <2>3. WellListed'
    BY <1>1, <1>6 DEF WellListed
  <2>4. QED
    BY <2>1, <2>2, <2>3
<1>11. CASE Following.state.pending
  <2>1. stage' = "pending"
    BY <1>11 DEF ReadConsumers, Goes
  <2>2. WellInspected'
    BY <1>0, <1>1, <1>2, <1>5, <1>6, <1>7, <1>8, <1>9, <2>1, ListedItems DEF WellInspected
  <2>3. info'.groups # <<>>
    BY <1>0, <1>2, <1>6
  <2>4. Stages'
    BY <1>1, <1>6, <1>10, <2>1, <2>2, <2>3 DEF Stages
  <2>5. QED
    BY <1>10, <2>1, <2>4 DEF GroupsAreTheStreams
<1>12. CASE ~Following.state.pending
  <2>1. stage' = IF n = Len(listed) THEN "rest" ELSE "consumers"
    BY <1>0, <1>12 DEF ReadConsumers, Onward, Goes
  <2>2. Ranged(n)'
    BY <1>2, <1>5, <1>6, <1>12 DEF Ranged
  <2>3. n <= Len(listed)
    BY <1>0, <1>1, <1>2, ListedItems
  <2>4. CASE n = Len(listed)
    <3>1. Complete'
      BY <1>1, <1>5, <1>6, <1>7, <1>8, <1>9, <1>10, <2>2, <2>4 DEF Complete, vars
    <3>2. Stages'
      BY <2>1, <2>4 DEF Stages
    <3>3. QED
      BY <1>10, <3>1, <3>2, CompleteIsTrue
  <2>5. CASE n # Len(listed)
    <3>1. WellInspected'
      BY <1>1, <1>5, <1>6, <1>7, <1>8, <1>9, <2>2, <2>3 DEF WellInspected
    <3>2. Len(info'.groups) < Len(listed')
      BY <1>1, <1>2, <1>6, <2>3, <2>5, ListedItems
    <3>3. Stages' /\ GroupsAreTheStreams'
      BY <1>1, <1>6, <1>10, <2>1, <2>5, <3>1, <3>2 DEF Stages, GroupsAreTheStreams
    <3>4. QED
      BY <1>10, <3>3
  <2>6. QED
    BY <2>4, <2>5
<1>13. QED
  BY <1>11, <1>12

LEMMA ReadPendingKeeps ==
  ASSUME GroupInv, ReadPending
  PROVE  GroupInv'
<1> USE DEF GroupInv
<1>0. PICK n : n = Len(info.groups)
  OBVIOUS
<1>1. /\ stage = "pending" /\ Inspecting /\ WellListed /\ WellInspected /\ info.groups # <<>>
      /\ info.known /\ "stream" \in kinds /\ result.kind = "stream"
      /\ UNCHANGED <<vars, streams, groups, changed, seen, kinds, listed>>
  BY DEF ReadPending, Inspecting, Stages, Watched, Goes, Onward, groupVars
<1>2. PICK reply \in {groups[Inspected.name], NoGroup} :
        /\ Ask("pending", Inspected.name, reply)
        /\ info' = [info EXCEPT !.groups[Len(info.groups)].range = reply]
  BY DEF ReadPending
<1>3. n \in Nat \ {0} /\ n \in DOMAIN info.groups /\ DOMAIN info.groups = 1..n
      /\ Inspected = info.groups[n] /\ info.groups[n] \in Entry
  <2>1. info.groups \in Seq(Entry)
    BY DEF Types, Info
  <2>2. n \in Nat \ {0} /\ DOMAIN info.groups = 1..n
    BY <1>0, <1>1, <2>1, EmptySeq, LenProperties
  <2>3. QED
    BY <1>0, <2>1, <2>2, ElementOfSeq DEF Inspected
<1>4. /\ reply \in GroupStates /\ missed' \in 0..MaxMissed /\ cost \subseteq cost'
      /\ IF reply = NoGroup THEN NoGroup \in seen[Inspected.name] \/ <<"pending", Inspected.name>> \in cost'
         ELSE reply \in seen[Inspected.name]
  <2>1. Inspected.name \in GroupNames
    BY <1>3 DEF Entry
  <2>2. QED
    BY <1>1, <1>2, <2>1, AskedIsHeld
<1> DEFINE e == [info.groups[n] EXCEPT !.range = reply]
<1>5. /\ info' \in Info /\ info'.known = info.known /\ info'.truncated = info.truncated
      /\ Len(info'.groups) = n /\ DOMAIN info'.groups = 1..n
      /\ \A i \in 1..n : info'.groups[i] = IF i = n THEN e ELSE info.groups[i]
  BY <1>0, <1>1, <1>2, <1>3, <1>4, LastRanged DEF Types
<1>6. /\ e.name = info.groups[n].name /\ e.summary = info.groups[n].summary
      /\ e.consumers = info.groups[n].consumers /\ e.range = reply
  <2>1. \A x \in Entry : LET y == [x EXCEPT !.range = reply]
                         IN /\ y.name = x.name /\ y.summary = x.summary
                            /\ y.consumers = x.consumers /\ y.range = reply
    BY DEF Entry
  <2>2. QED
    BY <1>3, <2>1
<1>7. ASSUME NEW i \in 1..n
      PROVE  /\ info'.groups[i].name = listed[i].name /\ info'.groups[i].summary = listed[i].state
             /\ Held(info.groups[i].name, info.groups[i].consumers, "consumers")'
             /\ Ranged(i)'
  <2>1. /\ info.groups[i].name = listed[i].name /\ info.groups[i].summary = listed[i].state
        /\ Held(info.groups[i].name, info.groups[i].consumers, "consumers")
        /\ Ranged(i) \/ i = n
    BY <1>0, <1>1, <1>3 DEF WellInspected
  <2>2. CASE i = n
    <3>1. info'.groups[i] = e
      BY <1>5, <2>2
    <3>2. QED
      BY <1>1, <1>3, <1>4, <1>6, <2>1, <2>2, <3>1 DEF Held, Ranged
  <2>3. CASE i # n
    <3>1. info'.groups[i] = info.groups[i]
      BY <1>5, <2>3
    <3>2. QED
      BY <1>1, <1>4, <2>1, <2>3, <3>1 DEF Held, Ranged
  <2>4. QED
    BY <2>2, <2>3
<1>8. Types' /\ Watched' /\ WellListed'
  <2>1. Types'
    BY <1>1, <1>4, <1>5 DEF Types, ReadPending, Goes, Onward
  <2>2. Watched'
    BY <1>1 DEF Watched, Inspecting, vars
  <2>3. WellListed'
    BY <1>1, <1>5 DEF WellListed
  <2>4. QED
    BY <2>1, <2>2, <2>3
<1>9. stage' = IF n = Len(listed) THEN "rest" ELSE "consumers"
  BY <1>0 DEF ReadPending, Onward, Goes
<1>10. n <= Len(listed)
  BY <1>0, <1>1 DEF WellInspected
<1>11. CASE n = Len(listed)
  <2>1. Complete'
    BY <1>1, <1>5, <1>7, <1>8, <1>11 DEF Complete, vars
  <2>2. Stages'
    BY <1>9, <1>11 DEF Stages
  <2>3. QED
    BY <1>8, <2>1, <2>2, CompleteIsTrue
<1>12. CASE n # Len(listed)
  <2>1. WellInspected'
    BY <1>1, <1>5, <1>7, <1>10 DEF WellInspected
  <2>2. Len(info'.groups) < Len(listed')
    BY <1>1, <1>3, <1>5, <1>10, <1>12, ListedItems
  <2>3. Stages' /\ GroupsAreTheStreams'
    BY <1>1, <1>5, <1>8, <1>9, <1>12, <2>1, <2>2 DEF Stages, GroupsAreTheStreams
  <2>4. QED
    BY <1>8, <2>3
<1>13. QED
  BY <1>11, <1>12

-----------------------------------------------------------------------------

LEMMA GroupInductive == GroupInv /\ [DetailNext]_detailVars => GroupInv'
<1> SUFFICES ASSUME GroupInv, [DetailNext]_detailVars PROVE GroupInv'
  OBVIOUS
<1>1. CASE UNCHANGED detailVars
  BY <1>1, ZenonT(40) DEF detailVars, vars, groupVars, GroupInv, Types, Watched, Inspecting, Stages,
    WellListed, WellInspected, Ranged, Held, GroupsAreTheStreams
<1>2. QED
  BY <1>1, OverwriteKeeps, ChangeKeeps, KeyReadKeeps, ReadStreamKeeps, ReadGroupsKeeps,
    ReadConsumersKeeps, ReadPendingKeeps DEF DetailNext

\* What the pane says of a stream's groups was so, for any groups, changes, failures
\* and limits.
THEOREM GroupsHeld == DetailSpec => []GroupsAreTheStreams
  BY GroupInit, GroupInductive, PTL DEF DetailSpec, GroupInv

-----------------------------------------------------------------------------
(* The shape of the state                                                  *)

Shape ==
  /\ phase # "idle" => stage = "key"
  /\ (Inspecting /\ stored.kind # "stream") => groups = NoGroups
  /\ Len(listed) <= MaxGroups /\ Len(info.groups) <= Len(listed)

LEMMA ShapeKept ==
  ASSUME GroupInv, GroupInv', Shape, [DetailNext]_detailVars
  PROVE  Shape'
<1>1. Len(<<>>) = 0 /\ MaxGroups \in Nat
  BY GroupsAssumption
<1>2. CASE UNCHANGED detailVars
  BY <1>2 DEF detailVars, vars, groupVars, Shape, Inspecting
<1>3. CASE Overwrite \/ ChangeGroup
  <2>1. UNCHANGED <<phase, stage, listed, info>>
    BY <1>3 DEF Overwrite, Write, Remove, Replace, readVars, ChangeGroup, vars
  <2>2. (Inspecting /\ stored'.kind # "stream") => groups' = NoGroups
    BY <1>3 DEF Overwrite, ChangeGroup, vars
  <2>3. QED
    BY <2>1, <2>2 DEF Shape, Inspecting
<1>4. CASE BeginDetail
  <2>1. listed' = <<>> /\ info' = Nothing /\ stage' = "key"
    BY <1>4 DEF BeginDetail
  <2>2. QED
    BY <1>1, <2>1, Answers DEF Shape, Inspecting
<1>5. CASE ReadKey
  <2>1. stage = "key" /\ UNCHANGED <<stage, listed, info>>
    BY <1>5 DEF ReadKey
  <2>2. QED
    BY <2>1 DEF Shape, Inspecting
<1>6. CASE KeyIsRead
  <2>1. /\ stage' \in {"stream", "rest"} /\ info' \in {Nothing, Default}
        /\ UNCHANGED <<vars, listed>> /\ phase = "idle"
        /\ stored.kind # "stream" => groups' = NoGroups
    BY <1>6 DEF KeyIsRead, Goes
  <2>2. UNCHANGED <<phase, stored>> /\ Len(info'.groups) = 0
    BY <1>1, <2>1, Answers DEF vars
  <2>3. listed \in Seq(Item)
    BY DEF GroupInv, Types
  <2>4. Len(listed) \in Nat
    BY <2>3, LenProperties
  <2>5. QED
    BY <2>1, <2>2, <2>4 DEF Shape
<1>7. CASE GiveUpStream /\ Inspecting
  <2>1. stage' = "rest" /\ info' = Nothing /\ UNCHANGED <<vars, listed>>
    BY <1>7 DEF GiveUpStream, Goes
  <2>2. phase = "idle"
    BY <1>7 DEF GroupInv, Watched
  <2>3. listed \in Seq(Item)
    BY DEF GroupInv, Types
  <2>4. Len(listed) \in Nat
    BY <2>3, LenProperties
  <2>5. QED
    BY <1>1, <2>1, <2>2, <2>4, Answers DEF Shape, Inspecting, vars
<1>8. CASE ReadStream
  <2>1. Inspecting
    BY <1>8 DEF ReadStream, Inspecting
  <2>2. CASE ~GiveUpStream
    <3>1. /\ info' = Default /\ UNCHANGED <<vars, listed, groups>>
      BY <1>8, <2>2 DEF ReadStream, Goes, groupVars
    <3>2. phase = "idle"
      BY <2>1 DEF GroupInv, Watched
    <3>3. listed \in Seq(Item)
      BY DEF GroupInv, Types
    <3>4. Len(listed) \in Nat
      BY <3>3, LenProperties
    <3>5. QED
      BY <1>1, <2>1, <3>1, <3>2, <3>4, Answers DEF Shape, vars
  <2>3. QED
    BY <1>7, <2>1, <2>2
<1>9. CASE ReadGroups
  <2>1. Inspecting
    BY <1>9 DEF ReadGroups, Inspecting
  <2>2. CASE ~GiveUpStream
    <3>1. PICK order \in Bijection(1..Cardinality(Present), Present) :
            listed' = [i \in 1..Least(Cardinality(Present), MaxGroups) |->
                         [name |-> order[i], state |-> groups[order[i]]]]
      BY <1>9, <2>2 DEF ReadGroups
    <3>2. info' \in {Default, Truncated} /\ UNCHANGED <<vars, groups>>
      BY <1>9, <2>2 DEF ReadGroups, Goes, groupVars
    <3>3. phase = "idle"
      BY <2>1 DEF GroupInv, Watched
    <3>4. Cardinality(Present) \in Nat
      <4>1. IsFiniteSet(Present)
        BY GroupsAssumption, FS_Subset DEF Present
      <4>2. QED
        BY <4>1, FS_CardinalityType
    <3>5. Least(Cardinality(Present), MaxGroups) \in Nat
          /\ Least(Cardinality(Present), MaxGroups) <= MaxGroups
      BY <1>1, <3>4 DEF Least
    <3>6. Len(listed') = Least(Cardinality(Present), MaxGroups)
      BY <3>1, <3>5
    <3>7. QED
      BY <1>1, <2>1, <3>2, <3>3, <3>5, <3>6, Answers DEF Shape, vars
  <2>3. QED
    BY <1>7, <2>1, <2>2
<1>10. CASE ReadConsumers \/ ReadPending
  <2>1. UNCHANGED <<vars, groups, listed>> /\ Inspecting
    BY <1>10 DEF ReadConsumers, ReadPending, Inspecting, Onward, Goes, groupVars
  <2>2. phase = "idle"
    BY <2>1 DEF GroupInv, Watched
  <2>3. info \in Info /\ listed \in Seq(Item) /\ groups \in [GroupNames -> GroupStates]
    BY DEF GroupInv, Types
  <2>4. Len(info.groups) \in Nat /\ Len(listed) \in Nat
    BY <2>3, LenProperties DEF Info
  <2>5. CASE ReadConsumers
    <3>1. Len(info.groups) < Len(listed)
      BY <2>5 DEF GroupInv, Stages, ReadConsumers
    <3>2. /\ Len(info.groups) + 1 \in DOMAIN listed
          /\ Following.name \in GroupNames /\ Following.state \in States
      <4>1. Len(info.groups) + 1 \in DOMAIN listed
        BY <2>3, <2>4, <3>1, LenProperties
      <4>2. listed[Len(info.groups) + 1] \in Item
        BY <2>3, <4>1, ElementOfSeq, LenProperties
      <4>3. QED
        BY <4>1, <4>2 DEF Following, Item
    <3>3. PICK reply \in {groups[Following.name], NoGroup} :
            info' = [info EXCEPT !.groups = Append(@,
              [name |-> Following.name, summary |-> Following.state,
               consumers |-> reply, range |-> NoGroup])]
      BY <2>5 DEF ReadConsumers
    <3>4. [name |-> Following.name, summary |-> Following.state,
           consumers |-> reply, range |-> NoGroup] \in Entry
      BY <2>3, <3>2, NoGroupIsNoState DEF Entry
    <3>5. Len(info'.groups) = Len(info.groups) + 1
      BY <2>3, <3>3, <3>4, OneMore
    <3>6. QED
      BY <2>1, <2>2, <2>4, <3>1, <3>5 DEF Shape, vars
  <2>6. CASE ReadPending
    <3>1. info.groups # <<>> /\ info.groups \in Seq(Entry)
      BY <2>3, <2>6 DEF GroupInv, Stages, ReadPending, Info
    <3>2. Inspected \in Entry
      <4>1. Len(info.groups) \in DOMAIN info.groups
        BY <2>4, <3>1, EmptySeq, LenProperties
      <4>2. QED
        BY <3>1, <4>1, ElementOfSeq, LenProperties DEF Inspected
    <3>3. PICK reply \in {groups[Inspected.name], NoGroup} :
            info' = [info EXCEPT !.groups[Len(info.groups)].range = reply]
      BY <2>6 DEF ReadPending
    <3>4. reply \in GroupStates
      BY <2>3, <3>2, NoGroupIsNoState DEF Entry
    <3>5. Len(info'.groups) = Len(info.groups)
      BY <2>3, <3>1, <3>3, <3>4, LastRanged
    <3>6. QED
      BY <2>1, <2>2, <3>5 DEF Shape, vars
  <2>7. QED
    BY <1>10, <2>5, <2>6
<1>11. QED
  BY <1>2, <1>3, <1>4, <1>5, <1>6, <1>8, <1>9, <1>10 DEF DetailNext

(* What the fields of the read and of the pane can hold, that no more      *)
(* groups are inspected than MAX_GROUPS, none that was not listed, and     *)
(* that a key that is no stream has none.                                  *)
THEOREM DetailTypes == DetailSpec => []DetailTypeOK
<1>1. DetailInit => Shape
  <2> SUFFICES ASSUME DetailInit PROVE Shape
    OBVIOUS
  <2>1. phase = "idle" /\ stage = "rest" /\ listed = <<>> /\ info = Nothing
    BY DEF DetailInit, Init
  <2>2. Len(<<>>) = 0 /\ MaxGroups \in Nat
    BY GroupsAssumption
  <2>3. QED
    BY <2>1, <2>2, Answers DEF Shape, Inspecting
<1>2. TypeOK /\ GroupInv /\ Shape => DetailTypeOK
  BY DEF GroupInv, Types, Shape, DetailTypeOK, Item
<1>3. DetailSpec => []TypeOK
  BY DetailIsARead, TypeCorrect
<1>4. DetailSpec => []GroupInv
  BY GroupInit, GroupInductive, PTL DEF DetailSpec
<1>5. DetailSpec => []Shape
  BY <1>1, <1>4, ShapeKept, PTL DEF DetailSpec
<1>6. QED
  BY <1>2, <1>3, <1>4, <1>5, PTL
=============================================================================
