---------------------------- MODULE BoardMonitor ----------------------------
(***************************************************************************)
(* The browser extension: extension/background.js, archiver.js,            *)
(* analyzer.js, singleflight.js and the handlers of popup.js.              *)
(*                                                                         *)
(* One board.  An alarm or the button of the popup starts a scan, and only *)
(* one scan runs at a time.  A scan fetches the list of the board, works   *)
(* out which posts are open and which have been answered, remembers the    *)
(* open ones, publishes each open post as a bundle in Downloads, and tells *)
(* the core of every remembered post that has been answered, by an         *)
(* observation.  Everything that lasts is in chrome.storage; everything    *)
(* else is lost when the browser stops the service worker, which it may at *)
(* any await.  Meanwhile the user clicks in the popup, the board changes,  *)
(* and the inbox runner takes bundles that carry their marker.             *)
(*                                                                         *)
(* The steps are the awaits.  A download that fails may leave its file, or *)
(* let it arrive later.  Logs, wording and the look of the popup are left  *)
(* out, and so is what nothing reads back: scan times, statistics, error   *)
(* observations.                                                           *)
(***************************************************************************)
EXTENDS Naturals, Sequences, FiniteSets, SequencesExt

CONSTANTS
  Posts,          \* numbers of posts, the external ids
  Menu,           \* a link of the page that is no post
  Titles,
  StartsWith,     \* <<title, title>>: the second starts with the first
  Pages,          \* lists the board may show: sequences of rows
  Htmls,          \* what the page of a post may hold
  KeyOf,          \* html -> what is left of it without the view counter
  AttachmentsOf,  \* html -> names of its attachments
  Keep,           \* KEEP: entries of the delivery ledger
  None,
  MaxFaults, MaxChanges, MaxClicks  \* bounds: failures, changes of the board, clicks

Links == Posts \cup {Menu}

ASSUME BoardAssumption ==
  /\ Posts \subseteq Nat /\ Menu \notin Posts /\ IsFiniteSet(Posts)
  /\ None \notin Links /\ None \notin Titles /\ None \notin Htmls
  /\ \A h \in Htmls : /\ KeyOf[h] # None
                      /\ IsFiniteSet(AttachmentsOf[h]) /\ "_READY" \notin AttachmentsOf[h]
  /\ StartsWith \subseteq Titles \X Titles /\ \A t \in Titles : <<t, t>> \in StartsWith
  /\ \A page \in Pages : \A n \in DOMAIN page :
       /\ page[n].link \in Links \cup {None} /\ page[n].title \in Titles \cup {None}
       /\ {page[n].reply, page[n].done} \subseteq BOOLEAN
  /\ {Keep, MaxFaults, MaxChanges, MaxClicks} \subseteq Nat

VARIABLES
  page, detail,   \* the board: its list, and the page of every post
  board,          \* boards: [live, enabled, byStatus]
  telegram,       \* telegramToken and telegramChatId are set and telegramEnabled is not false
  pending,        \* board_state: unhandledLinks
  ignored,        \* ignoredLinks
  blocked,        \* blockedIds
  ledger,         \* collector_delivery_v1: post -> key of what was delivered
  health,         \* sourceHealth: code of the last error
  inbox,          \* Downloads: <<post, html>> -> [files, ready]
  late,           \* <<bundle, file>>: downloads given up that are still under way
  pc, mem,        \* control point and local variables of the scan
  click,          \* what the popup has read and is about to write
  faults, changes, clicks,
  owed,           \* history: posts remembered whose completion has not been published yet
  published,      \* history: bundles that had their marker
  last,           \* history: post -> key published last
  unrecorded,     \* history: posts whose last publication the ledger never learned of
  taken,          \* history: bundles taken while a download into them was under way
  recovered       \* history: this scan has published a recovery

world   == <<page, detail>>
lists   == <<ignored, blocked>>
config  == <<board, telegram>>
files   == <<inbox, late>>
bounds  == <<faults, changes, clicks>>
bundles == <<published, last, unrecorded, taken>>
vars    == <<world, config, pending, lists, ledger, health, files, pc, mem, click, bounds,
             owed, bundles, recovered>>

NoBundle == <<None, None>>
NoWork ==
  [byStatus |-> FALSE, open |-> <<>>, done |-> {}, prev |-> {}, new |-> {}, ignored |-> {},
   todo |-> <<>>, bundle |-> NoBundle, left |-> <<>>, ledger |-> <<>>,
   saved |-> FALSE, tell |-> {}, handoff |-> FALSE, health |-> None]

Dirs == Posts \X Htmls
Page == "page.html"
Manifest == "manifest.json"
Payload(d) == {Page, Manifest} \cup AttachmentsOf[d[2]]

Init ==
  /\ page \in Pages /\ \E h \in Htmls : detail = [p \in Posts |-> h]
  /\ board = [live |-> TRUE, enabled |-> TRUE, byStatus |-> FALSE]
  /\ telegram = FALSE
  /\ pending = {} /\ ignored = {} /\ blocked = {}
  /\ ledger = [p \in Posts |-> None]
  /\ health = None
  /\ inbox = [d \in Dirs |-> [files |-> {}, ready |-> FALSE]] /\ late = {}
  /\ pc = "idle" /\ mem = NoWork /\ click = NoBundle
  /\ faults = 0 /\ changes = 0 /\ clicks = 0
  /\ owed = {}
  /\ published = {} /\ last = [p \in Posts |-> None] /\ unrecorded = {} /\ taken = {}
  /\ recovered = FALSE

Idle == pc = "idle"
Goto(p) == pc' = p
Faulty == faults < MaxFaults /\ faults' = faults + 1
Fine   == UNCHANGED faults

-----------------------------------------------------------------------------
(***************************************************************************)
(* analyzer.js: which rows are open, and which have been answered.         *)
(***************************************************************************)
\* A last row that is no reply is skipped, unless it is the only row.
Originals(rows) ==
  {n \in DOMAIN rows : ~rows[n].reply /\ ~(n = Len(rows) /\ Len(rows) > 1)}

AnsweredTitles(rows) == {rows[n].title : n \in {k \in DOMAIN rows : rows[k].reply /\ rows[k].done}}

Completed(rows, byStatus) ==
  IF byStatus THEN {n \in DOMAIN rows : rows[n].done}
  ELSE {n \in Originals(rows) :
          \E t \in AnsweredTitles(rows) \ {None} : <<t, rows[n].title>> \in StartsWith}

Unhandled(rows, byStatus) ==
  (IF byStatus THEN DOMAIN rows ELSE Originals(rows)) \ Completed(rows, byStatus)

LinksAt(rows, ns) == {rows[n].link : n \in ns}
InOrder(rows, ns) == [k \in DOMAIN SetToSortSeq(ns, <) |-> rows[SetToSortSeq(ns, <)[k]].link]

-----------------------------------------------------------------------------
(***************************************************************************)
(* The scan.                                                               *)
(***************************************************************************)
\* The scan keeps the settings of the board and the health it began with.
Begun == [NoWork EXCEPT !.byStatus = board.byStatus, !.health = health]

\* The alarm, or the button; a scan asked for while one runs is that scan.
StartScan ==
  /\ Idle /\ board.live /\ board.enabled
  /\ mem' = Begun
  /\ recovered' = FALSE
  /\ Goto("fetch")
  /\ UNCHANGED <<world, config, pending, lists, ledger, health, files, click, bounds, owed,
                 bundles>>

\* Rows without a link to follow are no posts.
Parsed(rows) == SelectSeq(rows, LAMBDA row : row.link # None)

\* Without the offscreen document every link of the page is a row, and no row has a status.
Scraped(rows) ==
  Append([n \in DOMAIN Parsed(rows) |->
            [Parsed(rows)[n] EXCEPT !.done = Parsed(rows)[n].reply /\ @]],
         [link |-> Menu, title |-> None, reply |-> FALSE, done |-> FALSE])

\* An offscreen document that is silent twice, and a login page that came as an answer.
NoRows == <<>>

\* The rows are compared with the state that the last scan has left.
Analyzed(rows) ==
  mem' = [mem EXCEPT !.open = InOrder(rows, Unhandled(rows, mem.byStatus)),
                     !.done = LinksAt(rows, Completed(rows, mem.byStatus)) \cap pending,
                     !.prev = pending]

FetchList ==
  /\ pc = "fetch"
  /\ \/ Fine /\ Analyzed(Parsed(page))
     \/ Faulty /\ Analyzed(NoRows)
     \/ Faulty /\ Analyzed(Scraped(page))
  /\ Goto("remember")
  /\ UNCHANGED <<world, config, pending, lists, ledger, health, files, click, changes, clicks,
                 owed, bundles, recovered>>

Codes == {"authentication_required", "http_error", "poll_error"}

ASSUME CodesAssumption == None \notin Codes \cup {"observation_delivery_failed"}

\* What went wrong is the board's last error; the scan of the board is over.
Failed(work, code) == mem' = [work EXCEPT !.health = code] /\ Goto("save")

FetchFails(code) ==
  /\ pc = "fetch" /\ Faulty
  /\ Failed(mem, code)
  /\ UNCHANGED <<world, config, pending, lists, ledger, health, files, click, changes, clicks,
                 owed, bundles, recovered>>

\* What the list no longer shows is forgotten.
SaveState ==
  /\ pc = "remember"
  /\ LET open == Range(mem.open) IN
     /\ pending' = open
     /\ owed' = (owed \ (pending \ mem.done)) \cup (open \cap Posts)
     /\ mem' = [mem EXCEPT !.new = open \ mem.prev]
  /\ Goto("hidden")
  /\ UNCHANGED <<world, config, lists, ledger, health, files, click, bounds, bundles,
                 recovered>>

Hidden(l, ign, blk) == l \in ign \/ l \in blk

\* sendTelegram is defined nowhere: where Telegram is set up, there must be nothing to tell.
NotifyThrows(news) == news # {} /\ telegram

ReadHidden ==
  /\ pc = "hidden"
  /\ LET Shown(l) == ~Hidden(l, ignored, blocked)
         rest     == [mem EXCEPT !.open = <<>>, !.new = {}]
     IN IF NotifyThrows({l \in mem.new : Shown(l)})
        THEN Failed(rest, "poll_error") /\ owed' = owed \ mem.done
        ELSE /\ mem' = [rest EXCEPT !.ignored = ignored, !.ledger = ledger,
                                    !.todo = SelectSeq(mem.open, Shown)]
             /\ Goto("post")
             /\ UNCHANGED owed
  /\ UNCHANGED <<world, config, pending, lists, ledger, health, files, click, bounds, bundles,
                 recovered>>

-----------------------------------------------------------------------------
(***************************************************************************)
(* archiver.js: every open post that is not hidden becomes a bundle.       *)
(***************************************************************************)
\* The page without its view counter.
DeliveryKey(h) == KeyOf[h]

\* mutant: a bundle counts as delivered whether or not its downloads came through
NextPostDelivered ==
  mem' = IF mem.bundle = NoBundle THEN [mem EXCEPT !.todo = Tail(@)]
         ELSE [mem EXCEPT !.todo = Tail(@), !.bundle = NoBundle, !.left = <<>>, !.saved = TRUE,
                          !.ledger[mem.bundle[1]] = DeliveryKey(mem.bundle[2])]

NextPost == mem' = [mem EXCEPT !.todo = Tail(@), !.bundle = NoBundle, !.left = <<>>]

\* mutant: the page is compared as it came
DeliveredAsItCame(p, h) == mem.ledger[p] = h

Delivered(p, h) == mem.ledger[p] = DeliveryKey(h)

\* A page that was delivered is skipped, whatever its view counter says now.
FetchPost ==
  /\ pc = "post" /\ mem.todo # <<>> /\ Head(mem.todo) \in Posts
  /\ LET p == Head(mem.todo) h == detail[p] IN
     IF Delivered(p, h)
     THEN NextPost /\ UNCHANGED pc
     ELSE /\ mem' = [mem EXCEPT !.bundle = <<p, h>>,
                                !.left = <<Page>> \o SetToSeq(AttachmentsOf[h]) \o <<Manifest>>]
          /\ Goto("write")
  /\ UNCHANGED <<world, config, pending, lists, ledger, health, files, click, bounds, owed,
                 bundles, recovered>>

\* A link that is no post, and a page that cannot be fetched, are passed over.
PostFails ==
  /\ pc = "post" /\ mem.todo # <<>>
  /\ IF Head(mem.todo) \in Posts THEN Faulty ELSE Fine
  /\ NextPost
  /\ UNCHANGED <<world, config, pending, lists, ledger, health, files, pc, click, changes,
                 clicks, owed, bundles, recovered>>

\* mutant: the marker may come before the manifest
PayloadWithoutManifest == Len(mem.left) <= 1

PayloadThere == mem.left = <<>>

WriteFile ==
  /\ pc = "write" /\ ~PayloadThere
  /\ inbox' = [inbox EXCEPT ![mem.bundle].files = @ \cup {Head(mem.left)}]
  /\ mem' = [mem EXCEPT !.left = Tail(@)]
  /\ UNCHANGED <<world, config, pending, lists, ledger, health, late, pc, click, bounds, owed,
                 bundles, recovered>>

Ready == "_READY"

\* The download that is under way, and goes on or not when nobody waits for it any more.
UnderWay == IF PayloadThere THEN Ready ELSE Head(mem.left)
Abandoned == late' \in {late, late \cup {<<mem.bundle, UnderWay>>}}

\* Interrupted, or longer than two minutes: the file is not there, or not yet.
DownloadFails ==
  /\ pc = "write" /\ Faulty
  /\ Abandoned
  /\ NextPost /\ Goto("post")
  /\ UNCHANGED <<world, config, pending, lists, ledger, health, inbox, click, changes, clicks,
                 owed, bundles, recovered>>

PublishReady ==
  /\ pc = "write" /\ PayloadThere
  /\ LET d == mem.bundle p == d[1] IN
     /\ inbox' = [inbox EXCEPT ![d].ready = TRUE]
     /\ mem' = [mem EXCEPT !.ledger[p] = DeliveryKey(d[2]), !.saved = TRUE, !.todo = Tail(@),
                           !.bundle = NoBundle]
     /\ published' = published \cup {d}
     /\ last' = [last EXCEPT ![p] = DeliveryKey(d[2])]
     /\ unrecorded' = unrecorded \ {p}
  /\ Goto("post")
  /\ UNCHANGED <<world, config, pending, lists, ledger, health, late, click, bounds, owed,
                 taken, recovered>>

\* Entries are kept from the end of an object whose keys are numbers, and such keys are held
\* in the order of the numbers: the highest posts stay, not the latest.
Kept(l) ==
  [p \in Posts |-> IF Cardinality({q \in Posts : q > p /\ l[q] # None}) < Keep
                   THEN l[p] ELSE None]

\* The ledger is saved once, after the last post.
SaveLedger ==
  /\ pc = "post" /\ mem.todo = <<>>
  /\ ledger' = IF mem.saved THEN Kept(mem.ledger) ELSE ledger
  /\ Goto("release")
  /\ UNCHANGED <<world, config, pending, lists, health, files, mem, click, bounds, owed,
                 bundles, recovered>>

-----------------------------------------------------------------------------
(***************************************************************************)
(* The end of a scan: muted posts that were answered, completions, health. *)
(***************************************************************************)
\* The list that is written is the one that was read before the bundles were published.
Release ==
  /\ pc = "release"
  /\ ignored' = IF mem.ignored \cap mem.done # {} THEN mem.ignored \ mem.done ELSE ignored
  /\ mem' = [mem EXCEPT !.tell = mem.done \cap Posts, !.ignored = {}, !.ledger = <<>>]
  /\ Goto("tell")
  /\ UNCHANGED <<world, config, pending, blocked, ledger, health, files, click, bounds, owed,
                 bundles, recovered>>

Tell(p) ==
  /\ pc = "tell" /\ p \in mem.tell
  /\ mem' = [mem EXCEPT !.tell = @ \ {p}]
  /\ owed' = owed \ {p}
  /\ UNCHANGED <<world, config, pending, lists, ledger, health, files, pc, click, bounds,
                 bundles, recovered>>

TellFails(p) ==
  /\ pc = "tell" /\ p \in mem.tell /\ Faulty
  /\ mem' = [mem EXCEPT !.tell = @ \ {p}, !.handoff = TRUE]
  /\ UNCHANGED <<world, config, pending, lists, ledger, health, files, pc, click, changes,
                 clicks, owed, bundles, recovered>>

Recover ==
  /\ pc = "tell" /\ mem.tell = {} /\ mem.health # None
  /\ recovered' = TRUE
  /\ Goto("conclude")
  /\ UNCHANGED <<world, config, pending, lists, ledger, health, files, mem, click, bounds,
                 owed, bundles>>

\* mutant: a recovery that could not be published is not tried again
HandoffOfCompletions == mem.handoff

HandoffFailed == TRUE

RecoverFails ==
  /\ pc = "tell" /\ mem.tell = {} /\ mem.health # None /\ Faulty
  /\ mem' = [mem EXCEPT !.handoff = HandoffFailed]
  /\ Goto("conclude")
  /\ UNCHANGED <<world, config, pending, lists, ledger, health, files, click, changes, clicks,
                 owed, bundles, recovered>>

\* mutant: the state of the board stays as the scan saved it
KeepsScanned(prev) == pending

Restored(prev) == prev

\* Where an observation failed, the board gets back the state it had before the scan; a post
\* first seen by this scan is no longer remembered then.
Conclude ==
  /\ pc = "conclude" \/ (pc = "tell" /\ mem.tell = {} /\ mem.health = None)
  /\ IF mem.handoff
     THEN /\ pending' = Restored(mem.prev)
          /\ owed' = owed \ (pending \ mem.prev)
          /\ mem' = [mem EXCEPT !.health = "observation_delivery_failed"]
     ELSE mem' = [mem EXCEPT !.health = None] /\ UNCHANGED <<pending, owed>>
  /\ Goto("save")
  /\ UNCHANGED <<world, config, lists, ledger, health, files, click, bounds, bundles,
                 recovered>>

FinishScan ==
  /\ pc = "save"
  /\ health' = mem.health
  /\ mem' = NoWork
  /\ Goto("idle")
  /\ UNCHANGED <<world, config, pending, lists, ledger, files, click, bounds, owed, bundles,
                 recovered>>

\* The ledger as it is now, in the memory of a scan that publishes or else as stored.
AtWork == IF pc \in {"post", "write"} THEN mem.ledger ELSE ledger

\* The browser stops the worker: what it had not written is gone, and a download that it had
\* begun goes on or not.
Killed ==
  /\ ~Idle /\ Faulty
  /\ owed' = IF pc \in {"remember", "save"} THEN owed ELSE owed \ mem.done
  /\ unrecorded' = unrecorded \cup {p \in Posts : AtWork[p] # ledger[p]}
  /\ IF pc = "write" THEN Abandoned ELSE UNCHANGED late
  /\ mem' = NoWork
  /\ Goto("idle")
  /\ UNCHANGED <<world, config, pending, lists, ledger, health, inbox, click, changes, clicks,
                 published, last, taken, recovered>>

-----------------------------------------------------------------------------
(***************************************************************************)
(* The popup.  It shows the pending posts; a switch reads a list, changes  *)
(* it and writes it back.  Only the list of muted links has another writer.*)
(***************************************************************************)
Clicks == click = NoBundle /\ clicks < MaxClicks /\ clicks' = clicks + 1
Toggled(set, x) == IF x \in set THEN set \ {x} ELSE set \cup {x}

Listed == pending

ClickMute(l) ==
  /\ Clicks /\ l \in Listed
  /\ click' = <<"mute", Toggled(ignored, l)>>
  /\ UNCHANGED <<world, config, pending, lists, ledger, health, files, pc, mem, faults, changes,
                 owed, bundles, recovered>>

WriteMute ==
  /\ click[1] = "mute"
  /\ ignored' = click[2]
  /\ click' = NoBundle
  /\ UNCHANGED <<world, config, pending, blocked, ledger, health, files, pc, mem, bounds, owed,
                 bundles, recovered>>

ClickBlock(p) ==
  /\ Clicks /\ p \in Listed \cap Posts
  /\ blocked' = Toggled(blocked, p)
  /\ UNCHANGED <<world, config, pending, ignored, ledger, health, files, pc, mem, click, faults,
                 changes, owed, bundles, recovered>>

ToggleBoard ==
  /\ Clicks /\ board.live
  /\ board' = [board EXCEPT !.enabled = ~@]
  /\ UNCHANGED <<world, telegram, pending, lists, ledger, health, files, pc, mem, click, faults,
                 changes, owed, bundles, recovered>>

\* The scan under way keeps the settings it started with.
SaveForm ==
  /\ Clicks /\ board.live
  /\ board' = [board EXCEPT !.byStatus = ~@]
  /\ UNCHANGED <<world, telegram, pending, lists, ledger, health, files, pc, mem, click, faults,
                 changes, owed, bundles, recovered>>

SaveSettings ==
  /\ Clicks
  /\ telegram' = ~telegram
  /\ UNCHANGED <<world, board, pending, lists, ledger, health, files, pc, mem, click, faults,
                 changes, owed, bundles, recovered>>

DeleteBoard ==
  /\ Clicks /\ board.live
  /\ board' = [board EXCEPT !.live = FALSE]
  /\ click' = <<"drop", {}>>
  /\ UNCHANGED <<world, telegram, pending, lists, ledger, health, files, pc, mem, faults,
                 changes, owed, bundles, recovered>>

DropState ==
  /\ click[1] = "drop"
  /\ pending' = {}
  /\ owed' = owed \ pending
  /\ click' = NoBundle
  /\ UNCHANGED <<world, config, lists, ledger, health, files, pc, mem, bounds, bundles,
                 recovered>>

-----------------------------------------------------------------------------
(***************************************************************************)
(* The board, the browser and the inbox runner.                            *)
(***************************************************************************)
Changes == changes < MaxChanges /\ changes' = changes + 1

ListChanges(new) ==
  /\ Changes /\ new # page
  /\ page' = new
  /\ UNCHANGED <<detail, config, pending, lists, ledger, health, files, pc, mem, click, faults,
                 clicks, owed, bundles, recovered>>

PostChanges(p, h) ==
  /\ Changes /\ h # detail[p]
  /\ detail' = [detail EXCEPT ![p] = h]
  /\ UNCHANGED <<page, config, pending, lists, ledger, health, files, pc, mem, click, faults,
                 clicks, owed, bundles, recovered>>

\* A download that was given up arrives.
Arrives(d, file) ==
  /\ <<d, file>> \in late
  /\ late' = late \ {<<d, file>>}
  /\ IF file = Ready
     THEN /\ inbox' = [inbox EXCEPT ![d].ready = TRUE]
          /\ published' = published \cup {d}
          /\ last' = [last EXCEPT ![d[1]] = DeliveryKey(d[2])]
          /\ unrecorded' = IF AtWork[d[1]] = DeliveryKey(d[2]) THEN unrecorded \ {d[1]}
                           ELSE unrecorded \cup {d[1]}
     ELSE /\ inbox' = [inbox EXCEPT ![d].files = @ \cup {file}]
          /\ UNCHANGED <<published, last, unrecorded>>
  /\ UNCHANGED <<world, config, pending, lists, ledger, health, pc, mem, click, bounds, owed,
                 taken, recovered>>

\* The inbox runner accepts a bundle with its marker and removes it.
Collect(d) ==
  /\ inbox[d].ready
  /\ inbox' = [inbox EXCEPT ![d] = [files |-> {}, ready |-> FALSE]]
  /\ taken' = IF mem.bundle = d \/ \E x \in late : x[1] = d THEN taken \cup {d} ELSE taken
  /\ UNCHANGED <<world, config, pending, lists, ledger, health, late, pc, mem, click, bounds,
                 owed, published, last, unrecorded, recovered>>

Scan ==
  \/ FetchList \/ \E c \in Codes : FetchFails(c)
  \/ SaveState \/ ReadHidden
  \/ FetchPost \/ PostFails \/ WriteFile \/ DownloadFails \/ PublishReady
  \/ SaveLedger \/ Release
  \/ \E p \in Posts : Tell(p) \/ TellFails(p)
  \/ Recover \/ RecoverFails \/ Conclude \/ FinishScan

Popup ==
  \/ \E l \in Links : ClickMute(l)
  \/ \E p \in Posts : ClickBlock(p)
  \/ ToggleBoard \/ SaveForm \/ DeleteBoard \/ SaveSettings
  \/ WriteMute \/ DropState

Environment ==
  \/ \E new \in Pages : ListChanges(new)
  \/ \E p \in Posts, h \in Htmls : PostChanges(p, h)
  \/ \E d \in Dirs : Collect(d) \/ \E file \in Payload(d) \cup {Ready} : Arrives(d, file)

Next == StartScan \/ Scan \/ Killed \/ Popup \/ Environment

Spec == Init /\ [][Next]_vars

-----------------------------------------------------------------------------
\* A bundle that carries its marker has its page, its manifest and every attachment, although
\* downloads fail, arrive late and are repeated over what is there; the one exception is a
\* bundle that was taken while a download into it was still under way.
\* (archiver.js: archivePosts writes the marker last, downloadAndWait)
ReadyIsComplete ==
  \A d \in Dirs \ taken : inbox[d].ready => Payload(d) \subseteq inbox[d].files

\* What the ledger says was delivered has been published: no crash, failed download or
\* eviction makes the extension skip a page that the core never got.
\* (archiver.js: archivePosts and its delivery ledger)
LedgerIsPublished ==
  \A p \in Posts : ledger[p] # None => \E d \in published : d[1] = p /\ DeliveryKey(d[2]) = ledger[p]

\* An open post is remembered until its completion has been published, also when an
\* observation cannot be delivered.  It is lost only where the list stopped showing it
\* before it was answered, where the scan died or failed to notify after it had saved its
\* state, where a failed delivery took back the state of the scan, or with its board.
\* (background.js: scanBoard, scanAllBoards and its handoffFailed)
PendingIsNotForgotten ==
  owed \subseteq pending \cup (IF Idle THEN {} ELSE mem.done)

\* The error of the board is cleared only by a scan that published the recovery.
\* (background.js: scanAllBoards, source_recovered)
RecoveryIsTold ==
  [][health # None /\ health' = None => recovered]_vars

\* A scan publishes the page that was published last only where KEEP or more posts with a
\* higher number are in the ledger, or where the ledger never learned of the last time: the
\* marker arrived after a scan had given it up, or the worker was stopped before it saved
\* the ledger.
\* (archiver.js: the ledger, which archivePosts saves after the last post; KEEP and
\* deliveryContent)
Delivers(p) == pc = "write" /\ mem.bundle[1] = p /\ mem'.ledger # mem.ledger

DeliveredOnce ==
  [][\A p \in Posts :
       Delivers(p) /\ last[p] = DeliveryKey(mem.bundle[2]) /\ p \notin unrecorded
         => Cardinality({q \in Posts : q > p /\ ledger[q] # None}) >= Keep]_vars
=============================================================================
