-------------------------- MODULE ScanSessionProofs --------------------------
(***************************************************************************)
(* What every scan keeps, for any keyspace, pages, filters, batch caps and *)
(* channel sizes: a scan called complete without losses is all in the      *)
(* tree, and the chips name it.                                            *)
(*                                                                         *)
(* Both speak of a session at rest.  On the way there, keys, verdicts and  *)
(* filters are spread over the channels, so the invariant speaks of what   *)
(* the tree, the verdict and the filter will be when the channels have     *)
(* been emptied: Applied, Says and Names.                                  *)
(***************************************************************************)
EXTENDS ScanSession, DataFacts

-----------------------------------------------------------------------------
(* What is on its way                                                      *)

Batches == {u \in Update : u.op = "Batch"}
Resets == {u \in Batches : u.reset}
Carrying(k) == {u \in Batches : k \in u.keys}
Completes == {u \in Batches : u.complete}
Rescans == {Rescan(f) : f \in Filters}

\* The tree, now t, after the updates s; whether the status bar, now at c, will say
\* complete; and whether the worker, now at the filter w, will be at f.
Applied(t, s) == {k \in Keys : Will(k, t, s, Resets, Carrying(k))}
Says(c, s) == Will(TRUE, {c}, s, Batches, Completes)
Names(f, w, s) == Will(f, {w}, s, Rescans, {Rescan(f)})

Walked == UNION {Pages[i] : i \in 1..scanner}

-----------------------------------------------------------------------------
(* The invariant                                                           *)

\* Until the first rescan is taken there is no scanner, and nothing has happened.
Fresh == scanner = None => req # <<>> /\ Head(req).op = "Rescan" /\ Idle

\* What was walked past is in the tree, on its way to it, or in the worker's hands.
Kept ==
  (scanner # None /\ ~lossy) =>
    IF working = "reset" THEN gathered = Walked \cap Pattern[wfilter]
    ELSE Applied(tree, upd) \cup (gathered \cap Match[wfilter]) = Walked \cap Match[wfilter]

\* The last word on the scan is the worker's.
AtEnd == wcomplete => scanner \in {None, Len(Pages)}
Verdict ==
  (~lossy /\ working # "reset" /\ Quiet(req, 0, Rescans) /\ Says(complete, upd)) => wcomplete

Chips == ~refused => Names(filter, wfilter, req)

ScanInv ==
  /\ TypeOK /\ (Idle => gathered = {})
  /\ Fresh /\ Kept /\ AtEnd /\ Verdict /\ Chips

-----------------------------------------------------------------------------
(* Messages                                                                *)

LEMMA MessageFields ==
  /\ \A k, r, c : /\ Batch(k, r, c).op = "Batch" /\ Batch(k, r, c).keys = k
                  /\ Batch(k, r, c).reset = r /\ Batch(k, r, c).complete = c
  /\ \A f : Rescan(f).op = "Rescan" /\ Rescan(f).filter = f
  /\ Failed.op = "Error" /\ More.op = "More" /\ Other.op = "Other"
  BY DEF Batch, Rescan, Failed, More, Other

LEMMA UpdateIs ==
  /\ Failed \in Update
  /\ \A k \in SUBSET Keys, r \in BOOLEAN, c \in BOOLEAN : Batch(k, r, c) \in Update
  /\ \A u \in Update : /\ u.op \in {"Batch", "Error"}
                       /\ u.op = "Batch" => /\ u.keys \in SUBSET Keys
                                            /\ u.reset \in BOOLEAN /\ u.complete \in BOOLEAN
  BY MessageFields DEF Update

LEMMA RequestIs ==
  /\ {More, Other} \subseteq Request
  /\ \A f \in Filters : Rescan(f) \in Request
  /\ \A r \in Request : r.op = "Rescan" => r \in Rescans /\ r.filter \in Filters /\ r = Rescan(r.filter)
  /\ \A r \in Rescans : r.op = "Rescan"
  BY MessageFields DEF Request, Rescans

-----------------------------------------------------------------------------
(* The same of the three things on their way                               *)

LEMMA BatchSets ==
  ASSUME NEW u \in Update
  PROVE  /\ u \in Batches <=> u.op = "Batch"
         /\ u \in Resets <=> u.op = "Batch" /\ u.reset
         /\ u \in Completes <=> u.op = "Batch" /\ u.complete
         /\ \A k : u \in Carrying(k) <=> u.op = "Batch" /\ k \in u.keys
  BY DEF Batches, Resets, Completes, Carrying

LEMMA UpdateSent ==
  ASSUME NEW t \in SUBSET Keys, NEW c \in BOOLEAN, NEW s \in Seq(Update), NEW u \in Update
  PROVE  IF u.op = "Batch"
         THEN /\ Applied(t, Append(s, u)) = (IF u.reset THEN {} ELSE Applied(t, s)) \cup u.keys
              /\ Says(c, Append(s, u)) <=> u.complete
         ELSE /\ Applied(t, Append(s, u)) = Applied(t, s)
              /\ Says(c, Append(s, u)) <=> Says(c, s)
<1>1. ASSUME NEW k \in Keys
      PROVE  k \in Applied(t, Append(s, u))
               <=> IF u.op = "Batch" THEN k \in u.keys \/ (~u.reset /\ k \in Applied(t, s))
                   ELSE k \in Applied(t, s)
  <2>1. Will(k, t, Append(s, u), Resets, Carrying(k))
          <=> u \in Carrying(k) \/ (u \notin Resets /\ Will(k, t, s, Resets, Carrying(k)))
    BY WillAtEnd
  <2> QED BY <2>1, BatchSets DEF Applied
<1>2. u.op = "Batch" => u.keys \subseteq Keys /\ u.reset \in BOOLEAN /\ u.complete \in BOOLEAN
  BY UpdateIs
<1>3. Applied(t, s) \subseteq Keys /\ Applied(t, Append(s, u)) \subseteq Keys
  BY DEF Applied
<1>4. Says(c, Append(s, u)) <=> u \in Completes \/ (u \notin Batches /\ Says(c, s))
  BY WillAtEnd DEF Says
<1>5. CASE u.op = "Batch"
  BY <1>1, <1>2, <1>3, <1>4, <1>5, BatchSets
<1>6. CASE u.op # "Batch"
  <2>1. Applied(t, Append(s, u)) = Applied(t, s)
    BY <1>1, <1>3, <1>6
  <2>2. Says(c, Append(s, u)) <=> Says(c, s)
    BY <1>4, <1>6, BatchSets
  <2> QED BY <2>1, <2>2, <1>6
<1> QED BY <1>5, <1>6

LEMMA UpdateTaken ==
  ASSUME NEW t \in SUBSET Keys, NEW c \in BOOLEAN, NEW s \in Seq(Update), s # <<>>
  PROVE  IF Head(s).op = "Batch"
         THEN /\ Applied(t, s) = Applied((IF Head(s).reset THEN {} ELSE t) \cup Head(s).keys, Tail(s))
              /\ Says(c, s) <=> Says(Head(s).complete, Tail(s))
         ELSE /\ Applied(t, s) = Applied(t, Tail(s))
              /\ Says(c, s) <=> Says(c, Tail(s))
<1> DEFINE h == Head(s)
           r == Tail(s)
           t1 == IF h.op = "Batch" THEN (IF h.reset THEN {} ELSE t) \cup h.keys ELSE t
<1>1. h \in Update
  OBVIOUS
<1>2. ASSUME NEW k \in Keys
      PROVE  Will(k, t, s, Resets, Carrying(k)) <=> Will(k, t1, r, Resets, Carrying(k))
  <2>1. k \in t1 <=> h \in Carrying(k) \/ (k \in t /\ h \notin Resets)
    BY <1>1, BatchSets
  <2> HIDE DEF t1
  <2> QED BY <2>1, WillAtHead
<1>3. Applied(t, s) = Applied(t1, r)
  <2> HIDE DEF h, r, t1
  <2> QED BY <1>2 DEF Applied
<1>4. CASE h.op = "Batch"
  <2>1. TRUE \in {h.complete} <=> h \in Completes \/ (TRUE \in {c} /\ h \notin Batches)
    BY <1>1, <1>4, BatchSets, UpdateIs
  <2>2. Says(c, s) <=> Says(h.complete, r)
    BY <2>1, WillAtHead, ZenonT(40) DEF Says
  <2> QED BY <1>3, <1>4, <2>2
<1>5. CASE h.op # "Batch"
  <2>1. TRUE \in {c} <=> h \in Completes \/ (TRUE \in {c} /\ h \notin Batches)
    BY <1>1, <1>5, BatchSets
  <2>2. Says(c, s) <=> Says(c, r)
    BY <2>1, WillAtHead DEF Says
  <2> QED BY <1>3, <1>5, <2>2
<1> QED BY <1>4, <1>5

LEMMA RequestSent ==
  ASSUME NEW f \in Filters, NEW w \in Filters, NEW s \in Seq(Request), NEW r \in Request
  PROVE  IF r.op = "Rescan"
         THEN /\ ~Quiet(Append(s, r), 0, Rescans)
              /\ Names(f, w, Append(s, r)) <=> r.filter = f
         ELSE /\ Quiet(Append(s, r), 0, Rescans) <=> Quiet(s, 0, Rescans)
              /\ Names(f, w, Append(s, r)) <=> Names(f, w, s)
<1>1. Quiet(Append(s, r), 0, Rescans) <=> r \notin Rescans /\ Quiet(s, 0, Rescans)
  BY QuietAtBoth
<1>2. Names(f, w, Append(s, r)) <=> r \in {Rescan(f)} \/ (r \notin Rescans /\ Names(f, w, s))
  BY WillAtEnd DEF Names
<1> QED BY <1>1, <1>2, RequestIs, MessageFields

LEMMA RequestTaken ==
  ASSUME NEW f \in Filters, NEW w \in Filters, NEW s \in Seq(Request), s # <<>>
  PROVE  IF Head(s).op = "Rescan"
         THEN /\ ~Quiet(s, 0, Rescans)
              /\ Names(f, w, s) <=> Names(f, Head(s).filter, Tail(s))
         ELSE /\ Quiet(s, 0, Rescans) <=> Quiet(Tail(s), 0, Rescans)
              /\ Names(f, w, s) <=> Names(f, w, Tail(s))
<1> DEFINE h == Head(s)
<1>1. h \in Request
  OBVIOUS
<1>2. Quiet(s, 0, Rescans) <=> h \notin Rescans /\ Quiet(Tail(s), 0, Rescans)
  BY QuietAtBoth
<1>3. CASE h.op = "Rescan"
  <2>1. f \in {h.filter} <=> h \in {Rescan(f)} \/ (f \in {w} /\ h \notin Rescans)
    BY <1>1, <1>3, RequestIs, MessageFields
  <2>2. Names(f, w, s) <=> Names(f, h.filter, Tail(s))
    BY <2>1, WillAtHead DEF Names
  <2> QED BY <1>1, <1>2, <1>3, <2>2, RequestIs
<1>4. CASE h.op # "Rescan"
  <2>1. f \in {w} <=> h \in {Rescan(f)} \/ (f \in {w} /\ h \notin Rescans)
    BY <1>1, <1>4, RequestIs, MessageFields
  <2>2. Names(f, w, s) <=> Names(f, w, Tail(s))
    BY <2>1, WillAtHead DEF Names
  <2> QED BY <1>1, <1>2, <1>4, <2>2, RequestIs
<1> QED BY <1>3, <1>4

-----------------------------------------------------------------------------
(* The initial states                                                      *)

LEMMA InitInv == Init => ScanInv
<1> SUFFICES ASSUME Init PROVE ScanInv
  OBVIOUS
<1>1. TypeOK /\ Idle /\ gathered = {}
  <2>1. req \in Seq(Request) /\ Len(req) = 1
    BY RequestIs, FilterAssumption DEF Init
  <2>2. upd \in Seq(Update) /\ Len(upd) = 0
    BY DEF Init
  <2>3. 0 \in 0..MaxPages /\ 1 <= ReqCap /\ 0 <= UpdCap
    BY PagesAssumption
  <2> QED BY <2>1, <2>2, <2>3, FilterAssumption DEF Init, TypeOK, Idle
<1>2. Fresh
  BY <1>1, MessageFields DEF Init, Fresh
<1>3. Kept /\ AtEnd
  BY DEF Init, Kept, AtEnd
<1>4. ~Quiet(req, 0, Rescans) /\ Names(filter, wfilter, req)
  <2> DEFINE r == Rescan(Unfiltered)
             none == <<>>
  <2>1. none \in Seq(Request) /\ r \in Request /\ Append(none, r) = <<r>>
    BY RequestIs, FilterAssumption
  <2>2. r.op = "Rescan" /\ r.filter = Unfiltered /\ Unfiltered \in Filters
    BY MessageFields, FilterAssumption
  <2> HIDE DEF r, none
  <2>3. ~Quiet(<<r>>, 0, Rescans) /\ Names(Unfiltered, Unfiltered, <<r>>)
    <3>1. /\ ~Quiet(Append(none, r), 0, Rescans)
          /\ Names(Unfiltered, Unfiltered, Append(none, r)) <=> r.filter = Unfiltered
      BY <2>1, <2>2, RequestSent
    <3> QED BY <3>1, <2>1, <2>2
  <2> QED BY <2>3 DEF Init, r
<1> QED BY <1>1, <1>2, <1>3, <1>4 DEF ScanInv, Verdict, Chips

-----------------------------------------------------------------------------
(* The steps of the App                                                    *)

\* Nothing of the worker's changes, and the first request stays the first.
LEMMA RequestKeeps ==
  ASSUME ScanInv, NEW r \in Request, Accepts, req' = Append(req, r),
         UNCHANGED <<tree, error, upd, scanVars>>,
         filter' \in Filters, complete' \in BOOLEAN, refused' \in BOOLEAN
  PROVE  TypeOK' /\ (Idle => gathered = {})' /\ Fresh' /\ Kept' /\ AtEnd'
<1>1. TypeOK'
  <2>1. req' \in Seq(Request) /\ Len(req') <= ReqCap
    BY PagesAssumption DEF ScanInv, TypeOK, Accepts
  <2> QED BY <2>1 DEF ScanInv, TypeOK, scanVars
<1>2. Fresh'
  <2>1. req # <<>> => req' # <<>> /\ Head(req') = Head(req)
    BY DEF ScanInv, TypeOK
  <2> QED BY <2>1 DEF ScanInv, Fresh, Idle, scanVars
<1>3. (Idle => gathered = {})' /\ Kept' /\ AtEnd'
  BY DEF ScanInv, Kept, AtEnd, Idle, Walked, Applied, scanVars
<1> QED BY <1>1, <1>2, <1>3

LEMMA AskRescanKeeps == ASSUME ScanInv, AskRescan PROVE ScanInv'
<1> USE DEF AskRescan
<1>1. CASE Accepts
  <2> DEFINE r == Rescan(filter')
  <2>1. r \in Request /\ r.op = "Rescan" /\ r.filter = filter' /\ filter' \in Filters
    BY RequestIs, MessageFields
  <2>2. TypeOK' /\ (Idle => gathered = {})' /\ Fresh' /\ Kept' /\ AtEnd'
    BY <1>1, <2>1, RequestKeeps
  <2>3. ~Quiet(req', 0, Rescans) /\ Names(filter', wfilter', req')
    <3>1. req \in Seq(Request) /\ wfilter \in Filters /\ wfilter' = wfilter /\ req' = Append(req, r)
      BY <1>1 DEF ScanInv, TypeOK, scanVars
    <3> QED BY <2>1, <3>1, RequestSent
  <2> QED BY <2>2, <2>3 DEF ScanInv, Verdict, Chips
<1>2. CASE ~Accepts
  <2>1. TypeOK' /\ (Idle => gathered = {})' /\ Fresh'
    BY <1>2 DEF ScanInv, TypeOK, Fresh, Idle, scanVars
  <2>2. Kept' /\ AtEnd' /\ Verdict'
    BY <1>2 DEF ScanInv, Kept, AtEnd, Verdict, Walked, scanVars
  <2>3. Chips'
    BY <1>2 DEF ScanInv, Chips, TypeOK, scanVars
  <2> QED BY <2>1, <2>2, <2>3 DEF ScanInv
<1> QED BY <1>1, <1>2

LEMMA AskKeeps == ASSUME ScanInv, AskMore \/ AskOther PROVE ScanInv'
<1>1. PICK r \in {More, Other} :
        Accepts /\ req' = Append(req, r) /\ UNCHANGED <<uiVars, upd, scanVars>>
  BY DEF AskMore, AskOther
<1>2. r \in Request /\ r.op # "Rescan"
  BY RequestIs, MessageFields
<1>3. TypeOK' /\ (Idle => gathered = {})' /\ Fresh' /\ Kept' /\ AtEnd'
  BY <1>1, <1>2, RequestKeeps DEF uiVars, ScanInv, TypeOK
<1>4. /\ Quiet(req', 0, Rescans) <=> Quiet(req, 0, Rescans)
      /\ Names(filter, wfilter, req') <=> Names(filter, wfilter, req)
  BY <1>1, <1>2, RequestSent DEF ScanInv, TypeOK
<1> QED BY <1>1, <1>3, <1>4 DEF ScanInv, Verdict, Chips, uiVars, scanVars

LEMMA ApplyKeeps == ASSUME ScanInv, ApplyBatch \/ ApplyError PROVE ScanInv'
<1>1. /\ upd # <<>> /\ upd' = Tail(upd)
      /\ UNCHANGED <<filter, refused, req, scanVars>>
      /\ IF Head(upd).op = "Batch"
         THEN /\ tree' = (IF Head(upd).reset THEN {} ELSE tree) \cup Head(upd).keys
              /\ complete' = Head(upd).complete /\ error' = FALSE
         ELSE UNCHANGED <<tree, complete>> /\ error' = TRUE
  BY MessageFields DEF ApplyBatch, ApplyError
<1>2. /\ upd \in Seq(Update) /\ tree \in SUBSET Keys /\ complete \in BOOLEAN
      /\ Head(upd) \in Update /\ upd' \in Seq(Update) /\ Len(upd') <= UpdCap
  BY <1>1, PagesAssumption DEF ScanInv, TypeOK
<1>3. TypeOK'
  BY <1>1, <1>2, UpdateIs DEF ScanInv, TypeOK, scanVars
<1>4. Applied(tree', upd') = Applied(tree, upd) /\ (Says(complete', upd') <=> Says(complete, upd))
  BY <1>1, <1>2, UpdateTaken, ZenonT(40)
<1>5. (Idle => gathered = {})' /\ Fresh' /\ AtEnd' /\ Chips'
  BY <1>1 DEF ScanInv, Fresh, Idle, AtEnd, Chips, scanVars
<1>6. Kept'
  BY <1>1, <1>4 DEF ScanInv, Kept, Walked, scanVars
<1>7. Verdict'
  BY <1>1, <1>4 DEF ScanInv, Verdict, scanVars
<1> QED BY <1>3, <1>5, <1>6, <1>7 DEF ScanInv

-----------------------------------------------------------------------------
(* The steps of the worker                                                 *)

LEMMA Took ==
  ASSUME ScanInv, req # <<>>, req' = Tail(req)
  PROVE  /\ req \in Seq(Request) /\ Head(req) \in Request
         /\ req' \in Seq(Request) /\ Len(req') <= ReqCap
  BY PagesAssumption DEF ScanInv, TypeOK

LEMMA TakeRescanKeeps == ASSUME ScanInv, TakeRescan PROVE ScanInv'
<1>1. /\ Idle /\ req # <<>> /\ Head(req).op = "Rescan" /\ req' = Tail(req)
      /\ wfilter' = Head(req).filter /\ wcomplete' = FALSE /\ scanner' = 0
      /\ working' = "reset" /\ gathered' = {} /\ found' = 0 /\ pages' = 0 /\ lossy' = FALSE
      /\ UNCHANGED <<filter, tree, complete, error, refused, upd>>
  BY DEF TakeRescan, Taking, uiVars
<1>2. wfilter' \in Filters /\ Head(req) \in Request /\ req \in Seq(Request)
  BY <1>1, Took, RequestIs
<1>3. 0 \in 0..MaxPages /\ 0 \in 0..Len(Pages) /\ "reset" # None
  BY PagesAssumption, FilterAssumption
<1>4. TypeOK'
  BY <1>1, <1>2, <1>3, Took DEF ScanInv, TypeOK
<1>5. (Idle => gathered = {})' /\ Fresh' /\ AtEnd' /\ Verdict'
  BY <1>1, <1>3, FilterAssumption DEF Idle, Fresh, AtEnd, Verdict
<1>6. Kept'
  <2>1. Walked' = {}
    BY <1>1 DEF Walked
  <2> QED BY <2>1, <1>1 DEF Kept
<1>7. Chips'
  <2>1. filter \in Filters /\ wfilter \in Filters
    BY DEF ScanInv, TypeOK
  <2>2. Names(filter, wfilter, req) <=> Names(filter, wfilter', req')
    BY <1>1, <1>2, <2>1, RequestTaken
  <2> QED BY <2>2, <1>1 DEF ScanInv, Chips
<1> QED BY <1>4, <1>5, <1>6, <1>7 DEF ScanInv

LEMMA TakeMoreKeeps == ASSUME ScanInv, TakeMore PROVE ScanInv'
<1>1. /\ Idle /\ req # <<>> /\ Head(req).op = "More" /\ req' = Tail(req)
      /\ working' = "more" /\ gathered' = {} /\ found' = 0 /\ pages' = 0
      /\ UNCHANGED <<filter, tree, complete, error, refused, upd, wfilter, wcomplete, scanner, lossy>>
  BY DEF TakeMore, Taking, uiVars
<1>2. TypeOK'
  <2>1. 0 \in 0..MaxPages
    BY PagesAssumption
  <2> QED BY <2>1, <1>1, Took DEF ScanInv, TypeOK
<1>3. scanner # None /\ "more" # None /\ working # "reset" /\ gathered = {}
  BY <1>1, FilterAssumption DEF ScanInv, Fresh, Idle
<1>4. (Idle => gathered = {})' /\ Fresh' /\ AtEnd'
  BY <1>1, <1>3 DEF ScanInv, Idle, Fresh, AtEnd
<1>5. Kept'
  BY <1>1, <1>3 DEF ScanInv, Kept, Walked
<1>6. /\ Quiet(req', 0, Rescans) <=> Quiet(req, 0, Rescans)
      /\ Names(filter, wfilter, req') <=> Names(filter, wfilter, req)
  BY <1>1, Took, RequestTaken DEF ScanInv, TypeOK
<1>7. Verdict' /\ Chips'
  BY <1>1, <1>3, <1>6 DEF ScanInv, Verdict, Chips
<1> QED BY <1>2, <1>4, <1>5, <1>7 DEF ScanInv

LEMMA TakeOtherKeeps == ASSUME ScanInv, TakeOther PROVE ScanInv'
<1>1. /\ Idle /\ req # <<>> /\ Head(req).op = "Other" /\ req' = Tail(req)
      /\ UNCHANGED <<uiVars, upd, scanVars>>
  BY DEF TakeOther, Taking
<1>2. TypeOK'
  BY <1>1, Took DEF ScanInv, TypeOK, uiVars, scanVars
<1>3. (Idle => gathered = {})' /\ Fresh' /\ AtEnd'
  BY <1>1 DEF ScanInv, Idle, Fresh, AtEnd, scanVars
<1>4. Kept'
  BY <1>1 DEF ScanInv, Kept, Walked, uiVars, scanVars
<1>5. /\ Quiet(req', 0, Rescans) <=> Quiet(req, 0, Rescans)
      /\ Names(filter, wfilter, req') <=> Names(filter, wfilter, req)
  BY <1>1, Took, RequestTaken DEF ScanInv, TypeOK
<1>6. Verdict' /\ Chips'
  BY <1>1, <1>5 DEF ScanInv, Verdict, Chips, uiVars, scanVars
<1> QED BY <1>2, <1>3, <1>4, <1>6 DEF ScanInv

LEMMA NextPageKeeps == ASSUME ScanInv, NextPage PROVE ScanInv'
<1> DEFINE page == Pages[scanner + 1] \cap Pattern[wfilter]
<1>1. /\ Scanning /\ scanner # None /\ scanner < Len(Pages) /\ scanner' = scanner + 1
      /\ pages' = pages + 1 /\ gathered' = gathered \cup page /\ found' = found + Cardinality(page)
      /\ UNCHANGED <<filter, tree, complete, error, refused, req, upd, wfilter, wcomplete, working, lossy>>
  BY DEF NextPage, uiVars
<1>2. scanner \in Nat /\ scanner + 1 \in 1..Len(Pages) /\ Len(Pages) \in Nat
  BY <1>1, PagesAssumption DEF ScanInv, TypeOK
<1>3. page \subseteq Keys /\ Cardinality(page) \in Nat
  <2>1. Pages[scanner + 1] \in SUBSET Keys
    BY <1>2, PagesAssumption
  <2>2. IsFiniteSet(page)
    BY <2>1, PagesAssumption, FS_Subset
  <2> QED BY <2>1, <2>2, FS_CardinalityType
<1> HIDE DEF page
<1>4. TypeOK'
  <2>1. pages' \in 0..MaxPages /\ scanner' \in 0..Len(Pages)
    BY <1>1, <1>2, PagesAssumption DEF ScanInv, TypeOK, Scanning
  <2> QED BY <2>1, <1>1, <1>3 DEF ScanInv, TypeOK
<1>5. (Idle => gathered = {})' /\ Fresh' /\ AtEnd' /\ Verdict' /\ Chips'
  BY <1>1, <1>2, FilterAssumption DEF ScanInv, Scanning, Idle, Fresh, AtEnd, Verdict, Chips
<1>6. Kept'
  <2>1. Walked' = Walked \cup Pages[scanner + 1]
    <3>1. 1..(scanner + 1) = 1..scanner \cup {scanner + 1}
      BY <1>2
    <3> QED BY <1>1, <3>1 DEF Walked
  <2>2. Match[wfilter] \subseteq Pattern[wfilter]
    BY FilterAssumption DEF ScanInv, TypeOK
  <2> QED BY <1>1, <2>1, <2>2 DEF ScanInv, Kept, page
<1> QED BY <1>4, <1>5, <1>6 DEF ScanInv

LEMMA NoMorePagesKeeps == ASSUME ScanInv, NoMorePages PROVE ScanInv'
<1>1. /\ Scanning /\ scanner \in {None, Len(Pages)} /\ wcomplete' = TRUE
      /\ UNCHANGED <<filter, tree, complete, error, refused, req, upd, wfilter, scanner, working,
                     gathered, found, pages, lossy>>
  BY DEF NoMorePages, uiVars
<1>2. TypeOK' /\ (Idle => gathered = {})' /\ Fresh'
  BY <1>1 DEF ScanInv, TypeOK, Idle, Fresh
<1>3. Kept' /\ AtEnd' /\ Verdict' /\ Chips'
  BY <1>1 DEF ScanInv, Kept, Walked, AtEnd, Verdict, Chips
<1> QED BY <1>2, <1>3 DEF ScanInv

LEMMA PageFailsKeeps == ASSUME ScanInv, PageFails PROVE ScanInv'
<1>1. /\ ~Idle /\ ~wcomplete /\ scanner # None /\ Len(upd) < UpdCap /\ upd' = Append(upd, Failed)
      /\ scanner' \in {scanner, Len(Pages)}
      /\ working' = None /\ gathered' = {} /\ found' = 0 /\ pages' = 0 /\ lossy' = TRUE
      /\ UNCHANGED <<filter, tree, complete, error, refused, req, wfilter, wcomplete>>
  BY DEF PageFails, Scanning, uiVars
<1>2. upd' \in Seq(Update) /\ Len(upd') <= UpdCap
  BY <1>1, UpdateIs, PagesAssumption DEF ScanInv, TypeOK
<1>3. scanner' \in 0..Len(Pages) /\ scanner' # None /\ 0 \in 0..MaxPages
  BY <1>1, PagesAssumption, FilterAssumption DEF ScanInv, TypeOK
<1>4. TypeOK'
  BY <1>1, <1>2, <1>3 DEF ScanInv, TypeOK
<1>5. (Idle => gathered = {})' /\ Fresh' /\ Kept' /\ AtEnd' /\ Verdict' /\ Chips'
  BY <1>1, <1>3 DEF ScanInv, Fresh, Kept, AtEnd, Verdict, Chips
<1> QED BY <1>4, <1>5 DEF ScanInv

LEMMA SendBatchKeeps == ASSUME ScanInv, SendBatch PROVE ScanInv'
<1>1. PICK typed \in Typings(gathered) :
        /\ upd' = Append(upd, Batch(typed, working = "reset", wcomplete))
        /\ lossy' = (lossy \/ typed # gathered \cap Match[wfilter])
  BY DEF SendBatch
<1> DEFINE u == Batch(typed, working = "reset", wcomplete)
<1>2. /\ ~Idle /\ Len(upd) < UpdCap
      /\ working' = None /\ gathered' = {} /\ found' = 0 /\ pages' = 0
      /\ UNCHANGED <<filter, tree, complete, error, refused, req, wfilter, wcomplete, scanner>>
  BY DEF SendBatch, uiVars
<1>3. /\ u \in Update /\ u.op = "Batch" /\ u.keys = typed
      /\ u.reset <=> working = "reset"
      /\ u.complete = wcomplete
  <2>1. typed \in SUBSET Keys /\ wcomplete \in BOOLEAN
    BY <1>1 DEF Typings, ScanInv, TypeOK
  <2>2. CASE working = "reset"
    <3>1. u = Batch(typed, TRUE, wcomplete)
      BY <2>2 DEF Batch
    <3>2. Batch(typed, TRUE, wcomplete) \in Update
      BY <2>1, UpdateIs
    <3> HIDE DEF u
    <3>3. u.op = "Batch" /\ u.keys = typed /\ u.reset = TRUE /\ u.complete = wcomplete
      BY <3>1 DEF Batch
    <3> QED BY <2>2, <3>1, <3>2, <3>3
  <2>3. CASE working # "reset"
    <3>1. u = Batch(typed, FALSE, wcomplete)
      BY <2>3 DEF Batch
    <3>2. Batch(typed, FALSE, wcomplete) \in Update
      BY <2>1, UpdateIs
    <3> HIDE DEF u
    <3>3. u.op = "Batch" /\ u.keys = typed /\ u.reset = FALSE /\ u.complete = wcomplete
      BY <3>1 DEF Batch
    <3> QED BY <2>3, <3>1, <3>2, <3>3
  <2> QED BY <2>2, <2>3
<1> HIDE DEF u
<1>4. upd \in Seq(Update) /\ tree \in SUBSET Keys /\ complete \in BOOLEAN /\ upd' = Append(upd, u)
  BY <1>1 DEF ScanInv, TypeOK, u
<1>5. TypeOK'
  <2>1. upd' \in Seq(Update) /\ Len(upd') <= UpdCap /\ 0 \in 0..MaxPages
    BY <1>2, <1>3, <1>4, PagesAssumption DEF ScanInv, TypeOK
  <2> QED BY <2>1, <1>1, <1>2 DEF ScanInv, TypeOK
<1>6. (Idle => gathered = {})' /\ Fresh' /\ AtEnd' /\ Chips'
  BY <1>2 DEF ScanInv, Fresh, AtEnd, Chips
<1>7. Applied(tree, upd') = (IF working = "reset" THEN {} ELSE Applied(tree, upd)) \cup typed
  BY <1>3, <1>4, UpdateSent
<1>8. Kept'
  <2> SUFFICES ASSUME scanner # None, ~lossy, typed = gathered \cap Match[wfilter]
               PROVE  Applied(tree, upd') = Walked \cap Match[wfilter]
    BY <1>1, <1>2, FilterAssumption DEF Kept, Walked
  <2>1. Match[wfilter] \subseteq Pattern[wfilter]
    BY FilterAssumption DEF ScanInv, TypeOK
  <2>2. CASE working = "reset"
    BY <1>7, <2>1, <2>2 DEF ScanInv, Kept
  <2>3. CASE working # "reset"
    BY <1>7, <2>3 DEF ScanInv, Kept
  <2> QED BY <2>2, <2>3
<1>9. Verdict'
  <2>1. Says(complete, Append(upd, u)) <=> u.complete
    BY <1>3, <1>4, UpdateSent
  <2>2. Says(complete', upd') <=> u.complete
    BY <2>1, <1>2, <1>4
  <2> QED BY <2>2, <1>2, <1>3 DEF Verdict
<1> QED BY <1>5, <1>6, <1>8, <1>9 DEF ScanInv

-----------------------------------------------------------------------------
(* The theorems                                                            *)

\* The invariant holds in every state of a session.
THEOREM ScanIsKept == Spec => []ScanInv
<1>1. ScanInv /\ [Next]_vars => ScanInv'
  <2> SUFFICES ASSUME ScanInv, [Next]_vars PROVE ScanInv'
    OBVIOUS
  <2>1. CASE UNCHANGED vars
    BY <2>1 DEF vars, uiVars, scanVars, ScanInv, TypeOK, Idle, Fresh, Kept, Walked, AtEnd,
                Verdict, Chips
  <2>2. CASE Ui
    BY <2>2, AskRescanKeeps, AskKeeps, ApplyKeeps DEF Ui
  <2>3. CASE Worker
    BY <2>3, TakeRescanKeeps, TakeMoreKeeps, TakeOtherKeeps, NextPageKeeps, NoMorePagesKeeps,
       PageFailsKeeps, SendBatchKeeps DEF Worker
  <2> QED BY <2>1, <2>2, <2>3 DEF Next
<1> QED BY <1>1, InitInv, PTL DEF Spec

\* Types, the capacities of the channels and the cap on pages of a batch (scan_batch).
THEOREM ScanTypes == Spec => []TypeOK
  BY ScanIsKept, PTL DEF ScanInv

\* At rest nothing is on its way: the tree is what it will be.
LEMMA AtRest ==
  ASSUME ScanInv, Settled
  PROVE  /\ scanner # None /\ working # "reset" /\ gathered = {}
         /\ Quiet(req, 0, Rescans) /\ Applied(tree, upd) = tree
         /\ Says(complete, upd) <=> complete
         /\ Names(filter, wfilter, req) <=> filter = wfilter
<1>1. Idle /\ upd = <<>> /\ gathered = {} /\ working # "reset"
  BY FilterAssumption DEF Settled, ScanInv, Idle
<1>2. \A i \in DOMAIN req : req[i].op # "Rescan" /\ req[i] \notin Rescans
  BY MessageFields, RequestIs DEF Settled, ScanInv, TypeOK
<1>3. scanner # None
  <2>1. req # <<>> => 1 \in DOMAIN req /\ Head(req) = req[1]
    BY DEF ScanInv, TypeOK
  <2> QED BY <2>1, <1>2 DEF ScanInv, Fresh
<1>4. Quiet(req, 0, Rescans)
  BY <1>2 DEF Quiet
<1>5. Applied(tree, upd) = tree
  BY <1>1, WillOfNone DEF Applied, ScanInv, TypeOK
<1>6. Says(complete, upd) <=> complete
  <2>1. Says(complete, <<>>) <=> TRUE \in {complete}
    BY WillOfNone DEF Says
  <2>2. complete \in BOOLEAN
    BY DEF ScanInv, TypeOK
  <2> QED BY <2>1, <2>2, <1>1
<1>7. Names(filter, wfilter, req) <=> filter = wfilter
  <2>1. \A i \in DOMAIN req : req[i] \notin {Rescan(filter)}
    BY <1>2, MessageFields
  <2> QED BY <2>1, <1>4 DEF Names, Will
<1> QED BY <1>1, <1>3, <1>4, <1>5, <1>6, <1>7

\* A scan that the status bar calls complete, of which no page and no typing failed, is
\* all in the tree and nothing else is (scan_batch, App::apply).
THEOREM CompleteScans == Spec => []CompleteIsAll
<1>1. ScanInv => CompleteIsAll
  <2> SUFFICES ASSUME ScanInv, Settled, complete, ~lossy PROVE tree = Match[wfilter]
    BY DEF CompleteIsAll
  <2>1. wcomplete /\ scanner = Len(Pages)
    BY AtRest DEF ScanInv, Verdict, AtEnd
  <2>2. Walked = Keys
    BY <2>1, PagesAssumption DEF Walked
  <2>3. tree = Keys \cap Match[wfilter]
    BY <2>2, AtRest DEF ScanInv, Kept
  <2> QED BY <2>3, FilterAssumption DEF ScanInv, TypeOK
<1> QED BY <1>1, ScanIsKept, PTL

\* The chips name the filter of the scan that is shown, unless the rescan for them was
\* refused by a full channel (App::rescan).
THEOREM ChipsAreTrue == Spec => []ChipsNameTheScan
<1>1. ScanInv => ChipsNameTheScan
  BY AtRest DEF ScanInv, Chips, ChipsNameTheScan
<1> QED BY <1>1, ScanIsKept, PTL

=============================================================================
