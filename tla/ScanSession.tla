---------------------------- MODULE ScanSession ----------------------------
(***************************************************************************)
(* Scanning the keyspace: the filter chips, the tree and the spinner of    *)
(* the App (keylens/src/app.rs), the worker's batches over SCAN pages      *)
(* (Worker::scan_batch and type_keys in keylens/src/worker.rs) and the     *)
(* scanner they are read from (KeyScanner in keylens-conn/src/conn.rs).    *)
(*                                                                         *)
(* App.loading and the replies of other requests are KeyBrowser's.  The   *)
(* keyspace does not change and the server returns every key on some   *)
(* page of a scan, which is what SCAN guarantees of keys that stay; a key  *)
(* may be on several.  A page may fail, and a scanner that failed may go   *)
(* on with the same page or have ended.                                    *)
(***************************************************************************)
EXTENDS Naturals, Sequences, FiniteSets

CONSTANTS
  Keys,
  Filters,        \* what the chips can say: a pattern and a type
  Match,          \* the keys a filter lets through
  TypedHere,      \* filters whose type the worker checks, not the server
  Pattern,        \* the keys the server returns for a filter
  Pages,          \* the keys on each page of a full scan
  BatchTarget,    \* BATCH_TARGET
  MaxPages,       \* MAX_PAGES_PER_BATCH
  ReqCap, UpdCap, \* CHANNEL_SIZE
  Unfiltered,     \* the filter at startup
  None

ASSUME FilterAssumption ==
  /\ Unfiltered \in Filters /\ None \notin Filters
  /\ None \notin 0 .. Len(Pages) /\ None \notin {"reset", "more"}
  /\ TypedHere \subseteq Filters
  /\ Match \in [Filters -> SUBSET Keys]
  /\ Pattern \in [Filters -> SUBSET Keys]
  /\ \A f \in Filters : Match[f] \subseteq Pattern[f]
  /\ \A f \in Filters \ TypedHere : Match[f] = Pattern[f]

ASSUME PagesAssumption ==
  /\ Pages \in Seq(SUBSET Keys) /\ IsFiniteSet(Keys)
  /\ Keys = UNION {Pages[i] : i \in 1 .. Len(Pages)}
  /\ BatchTarget \in Nat \ {0} /\ MaxPages \in Nat \ {0}
  /\ ReqCap \in Nat /\ ReqCap >= 1 /\ UpdCap \in Nat /\ UpdCap >= 1

VARIABLES
  filter,           \* App.pattern and App.kind_filter
  tree,             \* the keys of App.tree
  complete,         \* App.scan_complete
  error,            \* App.error is set
  req, upd,         \* the channels
  wfilter,          \* Worker.pattern and Worker.kind
  wcomplete,        \* Worker.complete
  scanner,          \* pages the scanner has passed, None without a scanner
  working,          \* None, or whether the batch in hand resets
  gathered,         \* the keys scan_batch holds,
  found, pages,     \* how many, repeats counted, and from how many pages
  lossy,            \* history: keys of the worker's scan were dropped
  refused           \* history: no rescan was accepted since the chips changed

uiVars   == <<filter, tree, complete, error, refused>>
scanVars == <<wfilter, wcomplete, scanner, working, gathered, found, pages,
              lossy>>
vars     == <<uiVars, req, upd, scanVars>>

Rescan(f) == [op |-> "Rescan", filter |-> f]
More      == [op |-> "More"]
Other     == [op |-> "Other"]
Request   == {Rescan(f) : f \in Filters} \cup {More, Other}

Batch(keys, reset, done) ==
  [op |-> "Batch", keys |-> keys, reset |-> reset, complete |-> done]
Failed == [op |-> "Error"]
Update ==
  {Batch(k, r, c) : k \in SUBSET Keys, r \in BOOLEAN, c \in BOOLEAN}
    \cup {Failed}

-----------------------------------------------------------------------------
(* The App.                                                                *)

Accepts == Len(req) < ReqCap

(* Mutant: the rescan asks for what the chips said before the key.         *)
AskRescanBefore ==
  /\ filter' \in Filters
  /\ IF Accepts
     THEN req' = Append(req, Rescan(filter)) /\ complete' = FALSE /\ refused' = FALSE
     ELSE refused' = (refused \/ filter' # filter) /\ UNCHANGED <<req, complete>>
  /\ UNCHANGED <<tree, error, upd, scanVars>>

(* /, Esc and t change the chips before the rescan they ask for; r leaves  *)
(* them (handle_search_key, handle_keys_view_key, rescan).                 *)
AskRescan ==
  /\ filter' \in Filters
  /\ IF Accepts
     THEN req' = Append(req, Rescan(filter')) /\ complete' = FALSE /\ refused' = FALSE
     ELSE refused' = (refused \/ filter' # filter) /\ UNCHANGED <<req, complete>>
  /\ UNCHANGED <<tree, error, upd, scanVars>>

(* m; refused, it only changes the status line.                            *)
AskMore ==
  /\ ~complete /\ Accepts
  /\ req' = Append(req, More)
  /\ UNCHANGED <<uiVars, upd, scanVars>>

(* A selection, a pane or the stats tick takes a place in the channel.     *)
AskOther ==
  /\ Accepts
  /\ req' = Append(req, Other)
  /\ UNCHANGED <<uiVars, upd, scanVars>>

(* App::apply *)
ApplyBatch ==
  /\ upd # <<>> /\ Head(upd).op = "Batch"
  /\ tree' = (IF Head(upd).reset THEN {} ELSE tree) \cup Head(upd).keys
  /\ complete' = Head(upd).complete
  /\ error' = FALSE
  /\ upd' = Tail(upd)
  /\ UNCHANGED <<filter, refused, req, scanVars>>

ApplyError ==
  /\ upd # <<>> /\ Head(upd).op = "Error"
  /\ error' = TRUE
  /\ upd' = Tail(upd)
  /\ UNCHANGED <<filter, tree, complete, refused, req, scanVars>>

-----------------------------------------------------------------------------
(* The worker.                                                             *)

Idle == working = None
Taking(op) == Idle /\ req # <<>> /\ Head(req).op = op /\ req' = Tail(req)

TakeRescan ==
  /\ Taking("Rescan")
  /\ wfilter' = Head(req).filter
  /\ wcomplete' = FALSE
  /\ scanner' = 0
  /\ working' = "reset" /\ gathered' = {} /\ found' = 0 /\ pages' = 0
  /\ lossy' = FALSE
  /\ UNCHANGED <<uiVars, upd>>

(* Mutant: More starts the walk over.                                      *)
TakeMoreAfresh ==
  /\ Taking("More")
  /\ scanner' = 0
  /\ working' = "more" /\ gathered' = {} /\ found' = 0 /\ pages' = 0
  /\ UNCHANGED <<uiVars, upd, wfilter, wcomplete, lossy>>

TakeMore ==
  /\ Taking("More")
  /\ working' = "more" /\ gathered' = {} /\ found' = 0 /\ pages' = 0
  /\ UNCHANGED <<uiVars, upd, wfilter, wcomplete, scanner, lossy>>

TakeOther == Taking("Other") /\ UNCHANGED <<uiVars, upd, scanVars>>

(* Mutant: nothing caps the pages of a batch.                              *)
ScanningUncapped == ~Idle /\ ~wcomplete /\ found < BatchTarget

(* scan_batch's loop goes on: fewer keys than the target, fewer pages than *)
(* the cap, and pages left.                                                *)
Scanning ==
  /\ ~Idle /\ ~wcomplete
  /\ found < BatchTarget /\ pages < MaxPages

NextPage ==
  /\ Scanning /\ scanner # None /\ scanner < Len(Pages)
  /\ scanner' = scanner + 1
  /\ pages' = pages + 1
  /\ LET page == Pages[scanner + 1] \cap Pattern[wfilter]
     IN  gathered' = gathered \cup page /\ found' = found + Cardinality(page)
  /\ UNCHANGED <<uiVars, req, upd, wfilter, wcomplete, working, lossy>>

(* Every server has returned cursor zero, or there is no scanner yet.      *)
NoMorePages ==
  /\ Scanning /\ (scanner = None \/ scanner = Len(Pages))
  /\ wcomplete' = TRUE
  /\ UNCHANGED <<uiVars, req, upd, wfilter, scanner, working, gathered, found,
                 pages, lossy>>

(* A page fails: the error is the batch's only reply, and what earlier     *)
(* pages of the batch returned goes with it.                               *)
PageFails ==
  /\ Scanning /\ scanner # None /\ scanner < Len(Pages)
  /\ Len(upd) < UpdCap
  /\ upd' = Append(upd, Failed)
  /\ scanner' \in {scanner, Len(Pages)}
  /\ working' = None /\ gathered' = {} /\ found' = 0 /\ pages' = 0
  /\ lossy' = TRUE
  /\ UNCHANGED <<uiVars, req, wfilter, wcomplete>>

(* type_keys: a key whose type could not be read stays untyped, unless a   *)
(* type was asked for.                                                     *)
Typings(keys) ==
  IF wfilter \in TypedHere THEN SUBSET (keys \cap Match[wfilter]) ELSE {keys}

(* Mutant: the batch says complete when it stopped at the last page it may *)
(* read.                                                                   *)
SendBatchAtCap ==
  /\ ~Idle /\ ~Scanning /\ Len(upd) < UpdCap
  /\ \E typed \in Typings(gathered) :
       /\ upd' = Append(upd, Batch(typed, working = "reset",
                                   wcomplete \/ pages = MaxPages))
       /\ lossy' = (lossy \/ typed # gathered \cap Match[wfilter])
  /\ working' = None /\ gathered' = {} /\ found' = 0 /\ pages' = 0
  /\ UNCHANGED <<uiVars, req, wfilter, wcomplete, scanner>>

SendBatch ==
  /\ ~Idle /\ ~Scanning /\ Len(upd) < UpdCap
  /\ \E typed \in Typings(gathered) :
       /\ upd' = Append(upd, Batch(typed, working = "reset", wcomplete))
       /\ lossy' = (lossy \/ typed # gathered \cap Match[wfilter])
  /\ working' = None /\ gathered' = {} /\ found' = 0 /\ pages' = 0
  /\ UNCHANGED <<uiVars, req, wfilter, wcomplete, scanner>>

-----------------------------------------------------------------------------

Init ==
  /\ filter = Unfiltered /\ tree = {} /\ complete = FALSE
  /\ error = FALSE /\ refused = FALSE
  /\ req = <<Rescan(Unfiltered)>> /\ upd = <<>>
  /\ wfilter = Unfiltered /\ wcomplete = FALSE /\ scanner = None
  /\ working = None /\ gathered = {} /\ found = 0 /\ pages = 0
  /\ lossy = FALSE

Ui == AskRescan \/ AskMore \/ AskOther \/ ApplyBatch \/ ApplyError
Worker ==
  TakeRescan \/ TakeMore \/ TakeOther \/ NextPage \/ NoMorePages \/ PageFails
    \/ SendBatch

Next == Ui \/ Worker

(* The worker and the event loop keep running, and a user who wants the    *)
(* rest keeps pressing m.                                                  *)
Fairness ==
  /\ WF_vars(ApplyBatch \/ ApplyError)
  /\ WF_vars(Worker)
  /\ SF_vars(AskMore)

Spec == Init /\ [][Next]_vars
FairSpec == Spec /\ Fairness

-----------------------------------------------------------------------------
(* Properties.                                                             *)

TypeOK ==
  /\ filter \in Filters /\ tree \in SUBSET Keys /\ complete \in BOOLEAN
  /\ error \in BOOLEAN /\ refused \in BOOLEAN
  /\ req \in Seq(Request) /\ Len(req) <= ReqCap
  /\ upd \in Seq(Update) /\ Len(upd) <= UpdCap
  /\ wfilter \in Filters /\ wcomplete \in BOOLEAN /\ lossy \in BOOLEAN
  /\ scanner \in (0 .. Len(Pages)) \cup {None}
  /\ working \in {None, "reset", "more"}
  /\ gathered \in SUBSET Keys /\ found \in Nat /\ pages \in 0 .. MaxPages

(* Nothing of a scan is queued, running or on its way back.                *)
Settled ==
  /\ \A i \in 1 .. Len(req) : req[i] = Other
  /\ Idle /\ upd = <<>>

(* When the status bar says how many keys there are, without "so far", the *)
(* tree holds exactly the keys its filter lets through, unless a page or a *)
(* typing of that scan failed (Update::Batch.complete: "the keyspace is    *)
(* fully walked"), however the walk was cut into batches and whatever was  *)
(* asked meanwhile.                                                        *)
CompleteIsAll == Settled /\ complete /\ ~lossy => tree = Match[wfilter]

(* The chips name the filter of the scan that ran last, unless the worker  *)
(* was too busy to accept the change, which the status bar says            *)
(* (App::rescan).                                                          *)
ChipsNameTheScan == Settled /\ ~refused => filter = wfilter

(* Whoever keeps pressing m comes to the end of the keyspace: no batch     *)
(* leaves the walk where it was (MAX_PAGES_PER_BATCH and BATCH_TARGET cut it into     *)
(* batches).                                                               *)
WalkEnds ==
  <>[][~AskRescan /\ ~PageFails]_vars => <>[]complete

(* The status bar's count without "so far" is the count of all keys the    *)
(* filter lets through (Update::Batch.complete).                           *)
CompleteIsWholeKeyspace ==
  Settled /\ complete /\ ~error /\ wfilter \notin TypedHere
    => Match[wfilter] \subseteq tree

=============================================================================
