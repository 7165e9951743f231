------------------------- MODULE BoardMonitorProofs -------------------------
(***************************************************************************)
(* Proofs about BoardMonitor, for any posts, lists of the board, contents, *)
(* attachments, capacity of the ledger, and any number of failures, clicks *)
(* and changes of the board.                                               *)
(*                                                                         *)
(* The scan is one actor whose control point says what its local variables *)
(* hold; chrome.storage and Downloads are shared with the popup, with late *)
(* downloads and with the inbox runner.  Every invariant therefore relates *)
(* a stored value to the local one that will replace it, point by point.   *)
(***************************************************************************)
EXTENDS BoardMonitor, FiniteSetTheorems, SequenceTheorems, WellFoundedInduction, TLAPS

\* The points of scanBoard, archivePosts and scanAllBoards.
Points == {"idle", "fetch", "remember", "hidden", "post", "write", "release", "tell",
           "conclude", "save"}

\* The ledger is being worked on in memory.
Archiving == pc \in {"post", "write"}

Errors == Codes \cup {"observation_delivery_failed"}
Keys   == {KeyOf[h] : h \in Htmls} \cup {None}
Parts  == {Page, Manifest} \cup UNION {AttachmentsOf[h] : h \in Htmls}
Files  == Parts \cup {Ready}

\* The local variables of a scan; what its lists of links hold is left open.
IsWork(w) ==
  /\ w = [byStatus |-> w.byStatus, open |-> w.open, done |-> w.done, prev |-> w.prev,
          new |-> w.new, ignored |-> w.ignored, todo |-> w.todo, bundle |-> w.bundle,
          left |-> w.left, ledger |-> w.ledger, saved |-> w.saved, tell |-> w.tell,
          handoff |-> w.handoff, health |-> w.health]
  /\ w.saved \in BOOLEAN /\ w.handoff \in BOOLEAN
  /\ w.tell \subseteq Posts
  /\ w.bundle \in Dirs \cup {NoBundle}
  /\ w.health \in Errors \cup {None}

\* The scan has a bundle in hand exactly while it downloads it.
InHand ==
  /\ pc = "write" <=> mem.bundle \in Dirs
  /\ pc = "write" => mem.left \in Seq(Parts)
  /\ Archiving => mem.ledger \in [Posts -> Keys]

TypeOK ==
  /\ page \in Pages /\ detail \in [Posts -> Htmls]
  /\ board \in [live : BOOLEAN, enabled : BOOLEAN, byStatus : BOOLEAN] /\ telegram \in BOOLEAN
  /\ ledger \in [Posts -> Keys] /\ health \in Errors \cup {None}
  /\ inbox \in [Dirs -> [files : SUBSET Files, ready : BOOLEAN]]
  /\ late \subseteq Dirs \X Files
  /\ pc \in Points /\ IsWork(mem) /\ InHand
  /\ owed \subseteq Posts /\ published \subseteq Dirs /\ taken \subseteq Dirs
  /\ last \in [Posts -> Keys] /\ unrecorded \subseteq Posts /\ recovered \in BOOLEAN
  /\ faults \in 0 .. MaxFaults /\ changes \in 0 .. MaxChanges /\ clicks \in 0 .. MaxClicks

-----------------------------------------------------------------------------
(***************************************************************************)
(* What a bundle is made of.                                               *)
(***************************************************************************)
LEMMA Listing ==
  ASSUME NEW S, IsFiniteSet(S)
  PROVE  SetToSeq(S) \in Seq(S) /\ Range(SetToSeq(S)) = S
<1>1. Cardinality(S) \in Nat /\ ExistsBijection(1 .. Cardinality(S), S)
  BY FS_CardinalityType
<1>2. PICK f \in Bijection(1 .. Cardinality(S), S) : TRUE
  BY <1>1 DEF ExistsBijection
<1>3. f \in [1 .. Cardinality(S) -> S] /\ IsInjective(f)
  BY <1>2 DEF Bijection, Injection, IsInjective
<1>4. SetToSeq(S) \in [1 .. Cardinality(S) -> S] /\ IsInjective(SetToSeq(S))
  BY <1>3 DEF SetToSeq
<1>5. SetToSeq(S) \in Seq(S)
  BY <1>1, <1>4
<1>6. ASSUME NEW x \in S
      PROVE  x \in Range(SetToSeq(S))
  <2>1. SetToSeq(S) \in Injection(1 .. Cardinality(S), S)
    BY <1>4 DEF Injection, IsInjective
  <2>2. IsFiniteSet(1 .. Cardinality(S)) /\ Cardinality(1 .. Cardinality(S)) = Cardinality(S)
    BY <1>1, FS_Interval
  <2>3. SetToSeq(S) \in Surjection(1 .. Cardinality(S), S)
    BY <2>1, <2>2, FS_Injection
  <2> QED BY <2>3, <1>4 DEF Surjection, Range
<1>7. Range(SetToSeq(S)) \subseteq S
  BY <1>4 DEF Range
<1> QED BY <1>5, <1>6, <1>7

LEMMA Joined ==
  ASSUME NEW S, NEW s \in Seq(S), NEW t \in Seq(S)
  PROVE  s \o t \in Seq(S) /\ Range(s \o t) = Range(s) \cup Range(t)
<1>1. s \o t \in Seq(S) /\ Len(s \o t) = Len(s) + Len(t) /\ DOMAIN (s \o t) = 1 .. Len(s) + Len(t)
  OBVIOUS
<1>2. \A k \in DOMAIN s : k \in DOMAIN (s \o t) /\ (s \o t)[k] = s[k]
  OBVIOUS
<1>3. \A k \in DOMAIN t : Len(s) + k \in DOMAIN (s \o t) /\ (s \o t)[Len(s) + k] = t[k]
  OBVIOUS
<1>4. \A k \in DOMAIN (s \o t) :
        \/ k \in DOMAIN s /\ (s \o t)[k] = s[k]
        \/ k - Len(s) \in DOMAIN t /\ (s \o t)[k] = t[k - Len(s)]
  OBVIOUS
<1>5. \A x \in Range(s) : x \in Range(s \o t)
  BY <1>2 DEF Range
<1>6. \A x \in Range(t) : x \in Range(s \o t)
  BY <1>3 DEF Range
<1>7. \A x \in Range(s \o t) : x \in Range(s) \cup Range(t)
  BY <1>4 DEF Range
<1> QED BY <1>1, <1>5, <1>6, <1>7

LEMMA Single ==
  ASSUME NEW S, NEW x \in S
  PROVE  <<x>> \in Seq(S) /\ Range(<<x>>) = {x}
<1>1. DOMAIN <<x>> = {1} /\ <<x>>[1] = x /\ <<x>> \in Seq(S)
  OBVIOUS
<1> QED BY <1>1 DEF Range

LEMMA First ==
  ASSUME NEW S, NEW s \in Seq(S), s # <<>>
  PROVE  /\ Head(s) \in S /\ Tail(s) \in Seq(S)
         /\ Range(s) = {Head(s)} \cup Range(Tail(s))
<1>1. Len(s) \in Nat \ {0} /\ DOMAIN s = 1 .. Len(s) /\ Head(s) = s[1]
  OBVIOUS
<1>2. Tail(s) \in Seq(S) /\ DOMAIN Tail(s) = 1 .. Len(s) - 1
  OBVIOUS
<1>3. \A k \in 1 .. Len(s) - 1 : Tail(s)[k] = s[k + 1]
  OBVIOUS
<1>4. \A k \in 1 .. Len(s) : k = 1 \/ (k - 1 \in 1 .. Len(s) - 1 /\ s[k] = Tail(s)[k - 1])
  BY <1>1, <1>3
<1>5. Range(s) \subseteq {Head(s)} \cup Range(Tail(s))
  <2> SUFFICES ASSUME NEW k \in DOMAIN s
               PROVE  s[k] \in {Head(s)} \cup Range(Tail(s))
    BY DEF Range
  <2>1. CASE k = 1
    BY <1>1, <2>1
  <2>2. CASE k - 1 \in DOMAIN Tail(s) /\ s[k] = Tail(s)[k - 1]
    BY <2>2 DEF Range
  <2> QED BY <1>1, <1>2, <1>4, <2>1, <2>2
<1>6. \A k \in 1 .. Len(s) - 1 : k + 1 \in DOMAIN s
  BY <1>1
<1>7. Range(Tail(s)) \subseteq Range(s)
  BY <1>2, <1>3, <1>6 DEF Range
<1>8. Head(s) \in Range(s) /\ Head(s) \in S
  BY <1>1 DEF Range
<1> QED BY <1>2, <1>5, <1>7, <1>8

Downloads(h) == <<Page>> \o SetToSeq(AttachmentsOf[h]) \o <<Manifest>>

LEMMA DownloadsArePayload ==
  ASSUME NEW d \in Dirs
  PROVE  Downloads(d[2]) \in Seq(Parts) /\ Range(Downloads(d[2])) = Payload(d)
<1> DEFINE A == AttachmentsOf[d[2]]
<1>1. d[2] \in Htmls /\ IsFiniteSet(A) /\ A \subseteq Parts
  BY BoardAssumption DEF Dirs, Parts
<1>2. SetToSeq(A) \in Seq(A) /\ Range(SetToSeq(A)) = A
  BY <1>1, Listing
<1> HIDE DEF A
<1>3. SetToSeq(A) \in Seq(Parts)
  BY <1>1, <1>2
<1> DEFINE first == <<Page>>
           end == <<Manifest>>
           all == first \o SetToSeq(A)
<1>4. /\ first \in Seq(Parts) /\ Range(first) = {Page}
      /\ end \in Seq(Parts) /\ Range(end) = {Manifest}
  <2>1. Page \in Parts /\ Manifest \in Parts
    BY DEF Parts
  <2> QED BY <2>1, Single
<1> HIDE DEF first, end
<1>5. all \in Seq(Parts) /\ Range(all) = Range(first) \cup Range(SetToSeq(A))
  BY <1>3, <1>4, Joined
<1> HIDE DEF all
<1>6. all \o end \in Seq(Parts) /\ Range(all \o end) = Range(all) \cup Range(end)
  BY <1>4, <1>5, Joined
<1>7. Downloads(d[2]) = all \o end
  BY DEF Downloads, all, first, end, A
<1>8. Payload(d) = {Page} \cup A \cup {Manifest}
  BY DEF Payload, A
<1> QED BY <1>2, <1>4, <1>5, <1>6, <1>7, <1>8
-----------------------------------------------------------------------------
(***************************************************************************)
(* Types.                                                                  *)
(***************************************************************************)
LEMMA Names ==
  /\ NoBundle \notin Dirs
  /\ None \notin Errors
  /\ \A h \in Htmls : DeliveryKey(h) \in Keys \ {None}
  /\ \A d \in Dirs : d[1] \in Posts /\ d[2] \in Htmls /\ d = <<d[1], d[2]>>
  /\ \A d \in Dirs : Payload(d) \subseteq Parts
  /\ Ready \notin Parts /\ Files = Parts \cup {Ready}
<1>1. None \notin Posts
  BY BoardAssumption DEF Links
<1>2. NoBundle \notin Dirs
  BY <1>1 DEF NoBundle, Dirs
<1>3. None \notin Errors
  BY CodesAssumption DEF Errors
<1>4. \A h \in Htmls : DeliveryKey(h) \in Keys \ {None}
  BY BoardAssumption DEF DeliveryKey, Keys
<1>5. \A d \in Dirs : d[1] \in Posts /\ d[2] \in Htmls /\ d = <<d[1], d[2]>>
  BY DEF Dirs
<1>6. \A d \in Dirs : Payload(d) \subseteq Parts
  BY <1>5 DEF Payload, Parts
<1>7. Ready \notin Parts
  BY BoardAssumption DEF Ready, Page, Manifest, Parts
<1> QED BY <1>2, <1>3, <1>4, <1>5, <1>6, <1>7 DEF Files

LEMMA TypesBegin == Init => TypeOK
<1> SUFFICES ASSUME Init
             PROVE  TypeOK
  OBVIOUS
<1>1. IsWork(NoWork)
  BY DEF IsWork, NoWork
<1>2. InHand
  BY Names DEF InHand, Init, NoWork, Archiving
<1>3. ledger \in [Posts -> Keys] /\ last \in [Posts -> Keys]
  BY DEF Init, Keys
<1>4. detail \in [Posts -> Htmls]
  BY DEF Init
<1>5. inbox \in [Dirs -> [files : SUBSET Files, ready : BOOLEAN]]
  BY DEF Init
<1>6. pc \in Points /\ mem = NoWork
  BY DEF Init, Points
<1>7. 0 \in 0 .. MaxFaults /\ 0 \in 0 .. MaxChanges /\ 0 \in 0 .. MaxClicks
  BY BoardAssumption
<1> QED BY <1>1, <1>2, <1>3, <1>4, <1>5, <1>6, <1>7 DEF Init, TypeOK

\* The types of what the scan alone changes, and of the rest.
ScanTypes ==
  /\ pc \in Points /\ IsWork(mem) /\ InHand
  /\ ledger \in [Posts -> Keys] /\ health \in Errors \cup {None}
  /\ recovered \in BOOLEAN

WorldTypes ==
  /\ page \in Pages /\ detail \in [Posts -> Htmls]
  /\ board \in [live : BOOLEAN, enabled : BOOLEAN, byStatus : BOOLEAN] /\ telegram \in BOOLEAN
  /\ inbox \in [Dirs -> [files : SUBSET Files, ready : BOOLEAN]]
  /\ late \subseteq Dirs \X Files
  /\ owed \subseteq Posts /\ published \subseteq Dirs /\ taken \subseteq Dirs
  /\ last \in [Posts -> Keys] /\ unrecorded \subseteq Posts
  /\ faults \in 0 .. MaxFaults /\ changes \in 0 .. MaxChanges /\ clicks \in 0 .. MaxClicks

LEMMA TypeParts == TypeOK <=> ScanTypes /\ WorldTypes
BY DEF TypeOK, ScanTypes, WorldTypes

\* A scan that is not archiving changes its control point and its local variables, of which
\* the bundle stays empty.
LEMMA Moves ==
  ASSUME TypeOK, pc' \in Points, pc' # "post", pc' # "write",
         IsWork(mem'), mem'.bundle = NoBundle,
         ledger' = ledger,
         health' \in Errors \cup {None}, recovered' \in BOOLEAN
  PROVE  ScanTypes'
<1>1. InHand'
  BY Names DEF InHand, Archiving
<1> QED BY <1>1 DEF TypeOK, ScanTypes

\* The next post: the ledger in memory stays, and no bundle is in hand.
LEMMA KeepsPost ==
  ASSUME TypeOK, Archiving, pc' = "post",
         mem' = [mem EXCEPT !.todo = Tail(@), !.bundle = NoBundle, !.left = <<>>],
         ledger' = ledger, health' = health, recovered' = recovered
  PROVE  ScanTypes'
<1>1. IsWork(mem') /\ mem'.bundle = NoBundle /\ mem'.ledger = mem.ledger
  BY DEF TypeOK, IsWork
<1>2. InHand'
  BY <1>1, Names DEF InHand, Archiving, TypeOK
<1> QED BY <1>1, <1>2 DEF TypeOK, ScanTypes, Points

LEMMA ScanTypeStep ==
  ASSUME TypeOK, StartScan \/ Scan \/ Killed
  PROVE  ScanTypes'
<1> USE DEF Goto
<1>1. CASE StartScan
  <2>1. IsWork(Begun) /\ Begun.bundle = NoBundle
    <3>1. IsWork(NoWork) /\ NoWork.bundle = NoBundle
      BY DEF IsWork, NoWork
    <3>2. Begun = [NoWork EXCEPT !.byStatus = board.byStatus, !.health = health]
      BY DEF Begun
    <3> QED BY <3>1, <3>2 DEF TypeOK, IsWork
  <2> QED BY <1>1, <2>1, Moves DEF StartScan, bundles, TypeOK, Points
<1>2. CASE FetchList
  <2>1. ASSUME NEW rows, Analyzed(rows), pc = "fetch"
        PROVE  IsWork(mem') /\ mem'.bundle = NoBundle
    BY <2>1 DEF TypeOK, IsWork, Analyzed, InHand
  <2>2. IsWork(mem') /\ mem'.bundle = NoBundle
    BY <1>2, <2>1 DEF FetchList
  <2> QED BY <1>2, <2>2, Moves DEF FetchList, bundles, TypeOK, Points
<1>3. ASSUME NEW c \in Codes, FetchFails(c)
      PROVE  ScanTypes'
  <2>1. IsWork(mem') /\ mem'.bundle = NoBundle
    BY <1>3 DEF TypeOK, IsWork, FetchFails, Failed, InHand, Errors
  <2> QED BY <1>3, <2>1, Moves DEF FetchFails, bundles, Failed, TypeOK, Points
<1>4. CASE SaveState
  <2>1. IsWork(mem') /\ mem'.bundle = NoBundle
    BY <1>4 DEF TypeOK, IsWork, SaveState, InHand
  <2> QED BY <1>4, <2>1, Moves DEF SaveState, bundles, TypeOK, Points
<1>5. CASE ReadHidden
  <2>1. mem.bundle = NoBundle
    BY <1>5 DEF TypeOK, IsWork, InHand, ReadHidden
  <2>2. CASE /\ pc' = "save"
             /\ \E w : /\ w = [mem EXCEPT !.open = <<>>, !.new = {}]
                       /\ Failed(w, "poll_error")
    <3>1. mem' = [[mem EXCEPT !.open = <<>>, !.new = {}] EXCEPT !.health = "poll_error"]
      BY <2>2 DEF Failed
    <3>2. "poll_error" \in Errors
      BY DEF Errors, Codes
    <3>3. IsWork(mem') /\ mem'.bundle = NoBundle
      BY <2>1, <3>1, <3>2 DEF TypeOK, IsWork
    <3> QED BY <1>5, <2>2, <3>3, Moves DEF ReadHidden, bundles, TypeOK, Points
  <2>3. CASE /\ pc' = "post"
             /\ \E t : mem' = [[mem EXCEPT !.open = <<>>, !.new = {}] EXCEPT
                                 !.ignored = ignored, !.ledger = ledger, !.todo = t]
    <3>1. IsWork(mem') /\ mem'.bundle = NoBundle /\ mem'.ledger = ledger
      BY <2>1, <2>3 DEF TypeOK, IsWork
    <3>2. InHand'
      BY <1>5, <2>3, <3>1, Names DEF InHand, Archiving, ReadHidden, TypeOK
    <3> QED BY <1>5, <2>3, <3>1, <3>2 DEF ReadHidden, bundles, TypeOK, ScanTypes, Points
  <2> QED BY <1>5, <2>2, <2>3 DEF ReadHidden, Failed
<1>6. CASE FetchPost
  <2>1. CASE NextPost /\ UNCHANGED pc
    <3>1. pc' = "post" /\ UNCHANGED <<ledger, health, recovered>>
      BY <1>6, <2>1 DEF FetchPost, bundles
    <3>2. mem' = [mem EXCEPT !.todo = Tail(@), !.bundle = NoBundle, !.left = <<>>]
      BY <2>1 DEF NextPost
    <3> QED BY <1>6, <3>1, <3>2, KeepsPost DEF FetchPost, Archiving
  <2>2. CASE ~(NextPost /\ UNCHANGED pc)
    <3> DEFINE d == <<Head(mem.todo), detail[Head(mem.todo)]>>
    <3>1. mem' = [mem EXCEPT !.bundle = d, !.left = Downloads(d[2])] /\ pc' = "write"
      BY <1>6, <2>2 DEF FetchPost, Downloads
    <3>2. d \in Dirs
      BY <1>6 DEF FetchPost, TypeOK, Dirs
    <3>3. Downloads(d[2]) \in Seq(Parts)
      BY <3>2, DownloadsArePayload
    <3> HIDE DEF d
    <3>4. IsWork(mem') /\ mem'.bundle = d /\ mem'.ledger = mem.ledger /\ mem'.left = Downloads(d[2])
      BY <3>1, <3>2 DEF TypeOK, IsWork
    <3>5. InHand'
      BY <1>6, <3>1, <3>2, <3>3, <3>4 DEF TypeOK, InHand, Archiving, FetchPost
    <3> QED BY <1>6, <3>1, <3>4, <3>5 DEF FetchPost, bundles, TypeOK, ScanTypes, Points
  <2> QED BY <2>1, <2>2
<1>7. CASE PostFails
  BY <1>7, KeepsPost DEF PostFails, NextPost, bundles, Archiving
<1>8. CASE WriteFile
  <2>1. mem.left \in Seq(Parts) /\ mem.left # <<>> /\ mem.bundle \in Dirs
    BY <1>8 DEF WriteFile, TypeOK, InHand, PayloadThere
  <2>2. Tail(mem.left) \in Seq(Parts)
    BY <2>1, First
  <2>3. /\ IsWork(mem') /\ mem'.bundle = mem.bundle /\ mem'.ledger = mem.ledger
        /\ mem'.left = Tail(mem.left)
    BY <1>8 DEF WriteFile, TypeOK, IsWork
  <2>4. InHand'
    BY <1>8, <2>1, <2>2, <2>3 DEF WriteFile, TypeOK, InHand, Archiving
  <2> QED BY <1>8, <2>3, <2>4 DEF WriteFile, bundles, TypeOK, ScanTypes, Points
<1>9. CASE DownloadFails
  BY <1>9, KeepsPost DEF DownloadFails, NextPost, bundles, Archiving, Goto
<1>10. CASE PublishReady
  <2> DEFINE p == mem.bundle[1]
             k == DeliveryKey(mem.bundle[2])
  <2>1. mem.bundle \in Dirs
    BY <1>10 DEF PublishReady, TypeOK, InHand
  <2>2. p \in Posts /\ k \in Keys
    BY <2>1, Names
  <2>3. /\ mem' = [mem EXCEPT !.ledger = [mem.ledger EXCEPT ![p] = k], !.saved = TRUE,
                               !.todo = Tail(mem.todo), !.bundle = NoBundle]
        /\ last' = [last EXCEPT ![p] = k] /\ pc' = "post"
        /\ ledger' = ledger /\ health' = health /\ recovered' = recovered
    BY <1>10 DEF PublishReady, TypeOK, IsWork
  <2> HIDE DEF p, k
  <2>4. /\ IsWork(mem') /\ mem'.bundle = NoBundle
        /\ mem'.ledger = [mem.ledger EXCEPT ![p] = k]
    BY <2>3 DEF TypeOK, IsWork
  <2>5. mem.ledger \in [Posts -> Keys]
    BY <1>10 DEF PublishReady, TypeOK, InHand, Archiving
  <2>6. mem'.ledger \in [Posts -> Keys] /\ last' \in [Posts -> Keys]
    BY <2>2, <2>3, <2>4, <2>5 DEF TypeOK
  <2>7. InHand'
    BY <2>3, <2>4, <2>6, Names DEF InHand, Archiving
  <2> QED BY <2>3, <2>4, <2>6, <2>7 DEF TypeOK, ScanTypes, Points
<1>11. CASE SaveLedger
  <2>1. mem' = mem /\ pc' = "release" /\ mem.bundle = NoBundle
    BY <1>11 DEF SaveLedger, TypeOK, InHand, IsWork
  <2>2. InHand'
    BY <2>1, Names DEF InHand, Archiving
  <2>3. mem.ledger \in [Posts -> Keys]
    BY <1>11 DEF SaveLedger, TypeOK, InHand, Archiving
  <2>4. Kept(mem.ledger) \in [Posts -> Keys]
    BY <2>3 DEF Kept, Keys
  <2>5. ledger' \in [Posts -> Keys]
    BY <1>11, <2>4 DEF SaveLedger, TypeOK
  <2> QED BY <1>11, <2>1, <2>2, <2>5 DEF SaveLedger, bundles, TypeOK, ScanTypes, Points
<1>12. CASE Release
  <2>1. IsWork(mem') /\ mem'.bundle = NoBundle
    BY <1>12 DEF TypeOK, IsWork, Release, InHand
  <2> QED BY <1>12, <2>1, Moves DEF Release, bundles, TypeOK, Points
<1>13. ASSUME NEW p \in Posts, Tell(p) \/ TellFails(p)
       PROVE  ScanTypes'
  <2>1. IsWork(mem') /\ mem'.bundle = NoBundle
    BY <1>13 DEF TypeOK, IsWork, Tell, TellFails, InHand
  <2> QED BY <1>13, <2>1, Moves DEF Tell, bundles, TellFails, TypeOK, Points
<1>14. CASE Recover \/ RecoverFails
  <2>1. IsWork(mem') /\ mem'.bundle = NoBundle
    BY <1>14 DEF TypeOK, IsWork, Recover, RecoverFails, InHand, HandoffFailed
  <2> QED BY <1>14, <2>1, Moves DEF Recover, bundles, RecoverFails, TypeOK, Points
<1>15. CASE Conclude
  <2>1. IsWork(mem') /\ mem'.bundle = NoBundle
    BY <1>15 DEF TypeOK, IsWork, Conclude, InHand, Errors
  <2> QED BY <1>15, <2>1, Moves DEF Conclude, bundles, TypeOK, Points
<1>16. CASE FinishScan
  <2>1. IsWork(NoWork) /\ NoWork.bundle = NoBundle
    BY DEF IsWork, NoWork
  <2>2. mem.health \in Errors \cup {None}
    BY DEF TypeOK, IsWork
  <2> QED BY <1>16, <2>1, <2>2, Moves DEF FinishScan, bundles, TypeOK, Points
<1>17. CASE Killed
  <2>1. IsWork(NoWork) /\ NoWork.bundle = NoBundle
    BY DEF IsWork, NoWork
  <2>2. InHand'
    BY <1>17, <2>1, Names DEF InHand, Killed, Archiving
  <2> QED BY <1>17, <2>1, <2>2 DEF Killed, TypeOK, ScanTypes, Points
<1> QED BY <1>1, <1>2, <1>3, <1>4, <1>5, <1>6, <1>7, <1>8, <1>9, <1>10, <1>11, <1>12, <1>13,
          <1>14, <1>15, <1>16, <1>17 DEF Scan

\* The bounds, through any step.
Counted ==
  /\ faults' = faults \/ (faults < MaxFaults /\ faults' = faults + 1)
  /\ changes' = changes \/ (changes < MaxChanges /\ changes' = changes + 1)
  /\ clicks' = clicks \/ (clicks < MaxClicks /\ clicks' = clicks + 1)

LEMMA BoundStep ==
  ASSUME TypeOK, Next
  PROVE  /\ faults' \in 0 .. MaxFaults /\ changes' \in 0 .. MaxChanges
         /\ clicks' \in 0 .. MaxClicks
<1>1. CASE StartScan \/ FetchList \/ SaveState \/ ReadHidden \/ FetchPost \/ PostFails
  <2>1. Counted
    BY <1>1 DEF Counted, StartScan, FetchList, SaveState, ReadHidden, FetchPost, PostFails,
       bounds, Faulty, Fine, Clicks, Changes
  <2> QED BY <2>1, BoardAssumption DEF Counted, TypeOK
<1>2. CASE WriteFile \/ DownloadFails \/ PublishReady \/ SaveLedger \/ Release
  <2>1. Counted
    BY <1>2 DEF Counted, WriteFile, DownloadFails, PublishReady, SaveLedger, Release,
       bounds, Faulty, Fine, Clicks, Changes
  <2> QED BY <2>1, BoardAssumption DEF Counted, TypeOK
<1>3. CASE Recover \/ RecoverFails \/ Conclude \/ FinishScan \/ Killed
  <2>1. Counted
    BY <1>3 DEF Counted, Recover, RecoverFails, Conclude, FinishScan, Killed,
       bounds, Faulty, Fine, Clicks, Changes
  <2> QED BY <2>1, BoardAssumption DEF Counted, TypeOK
<1>4. CASE \E c \in Codes : FetchFails(c)
  <2>1. Counted
    BY <1>4 DEF Counted, FetchFails,
       bounds, Faulty, Fine, Clicks, Changes
  <2> QED BY <2>1, BoardAssumption DEF Counted, TypeOK
<1>5. CASE \E p \in Posts : Tell(p) \/ TellFails(p)
  <2>1. Counted
    BY <1>5 DEF Counted, Tell, TellFails,
       bounds, Faulty, Fine, Clicks, Changes
  <2> QED BY <2>1, BoardAssumption DEF Counted, TypeOK
<1>6. CASE \E l \in Links : ClickMute(l)
  <2>1. Counted
    BY <1>6 DEF Counted, ClickMute,
       bounds, Faulty, Fine, Clicks, Changes
  <2> QED BY <2>1, BoardAssumption DEF Counted, TypeOK
<1>7. CASE \E p \in Posts : ClickBlock(p)
  <2>1. Counted
    BY <1>7 DEF Counted, ClickBlock,
       bounds, Faulty, Fine, Clicks, Changes
  <2> QED BY <2>1, BoardAssumption DEF Counted, TypeOK
<1>8. CASE ToggleBoard \/ SaveForm \/ DeleteBoard \/ SaveSettings \/ WriteMute \/ DropState
  <2>1. Counted
    BY <1>8 DEF Counted, ToggleBoard, SaveForm, DeleteBoard, SaveSettings, WriteMute, DropState,
       bounds, Faulty, Fine, Clicks, Changes
  <2> QED BY <2>1, BoardAssumption DEF Counted, TypeOK
<1>9. CASE \E new \in Pages : ListChanges(new)
  <2>1. Counted
    BY <1>9 DEF Counted, ListChanges,
       bounds, Faulty, Fine, Clicks, Changes
  <2> QED BY <2>1, BoardAssumption DEF Counted, TypeOK
<1>10. CASE \E p \in Posts, h \in Htmls : PostChanges(p, h)
  <2>1. Counted
    BY <1>10 DEF Counted, PostChanges,
       bounds, Faulty, Fine, Clicks, Changes
  <2> QED BY <2>1, BoardAssumption DEF Counted, TypeOK
<1>11. CASE \E d \in Dirs : Collect(d)
  <2>1. Counted
    BY <1>11 DEF Counted, Collect,
       bounds, Faulty, Fine, Clicks, Changes
  <2> QED BY <2>1, BoardAssumption DEF Counted, TypeOK
<1>12. CASE \E d \in Dirs : \E file \in Payload(d) \cup {Ready} : Arrives(d, file)
  <2>1. Counted
    BY <1>12 DEF Counted, Arrives,
       bounds, Faulty, Fine, Clicks, Changes
  <2> QED BY <2>1, BoardAssumption DEF Counted, TypeOK
<1> QED BY <1>1, <1>2, <1>3, <1>4, <1>5, <1>6, <1>7, <1>8, <1>9, <1>10, <1>11, <1>12
     DEF Next, Scan, Popup, Environment

LEMMA BoardStep ==
  ASSUME TypeOK, Next
  PROVE  /\ page' \in Pages /\ detail' \in [Posts -> Htmls]
         /\ board' \in [live : BOOLEAN, enabled : BOOLEAN, byStatus : BOOLEAN]
         /\ telegram' \in BOOLEAN
<1>1. CASE UNCHANGED <<world, config>>
  BY <1>1 DEF TypeOK, world, config
<1>2. CASE UNCHANGED world /\ \/ ToggleBoard \/ SaveForm \/ DeleteBoard \/ SaveSettings
  BY <1>2 DEF TypeOK, world, config, ToggleBoard, SaveForm, DeleteBoard, SaveSettings
<1>3. ASSUME NEW new \in Pages, ListChanges(new)
      PROVE  /\ page' \in Pages /\ detail' = detail /\ UNCHANGED config
  BY <1>3 DEF ListChanges
<1>4. ASSUME NEW p \in Posts, NEW h \in Htmls, PostChanges(p, h)
      PROVE  /\ page' = page /\ detail' \in [Posts -> Htmls] /\ UNCHANGED config
  BY <1>4 DEF PostChanges, TypeOK
<1>5. \/ UNCHANGED <<world, config>>
      \/ UNCHANGED world /\ \/ ToggleBoard \/ SaveForm \/ DeleteBoard \/ SaveSettings
      \/ \E new \in Pages : ListChanges(new)
      \/ \E p \in Posts, h \in Htmls : PostChanges(p, h)
  BY DEF Next, StartScan, Scan, Popup, Environment, FetchList, FetchFails, SaveState, ReadHidden,
         FetchPost, PostFails, WriteFile, DownloadFails, PublishReady, SaveLedger, Release, Tell,
         TellFails, Recover, RecoverFails, Conclude, FinishScan, Killed, ClickMute, WriteMute,
         ClickBlock, ToggleBoard, SaveForm, SaveSettings, DeleteBoard, DropState, Arrives, Collect
<1>6. ASSUME UNCHANGED config
      PROVE  board' \in [live : BOOLEAN, enabled : BOOLEAN, byStatus : BOOLEAN]
             /\ telegram' \in BOOLEAN
  BY <1>6 DEF config, TypeOK
<1>7. CASE \E new \in Pages : ListChanges(new)
  BY <1>3, <1>6, <1>7 DEF TypeOK
<1>8. CASE \E p \in Posts, h \in Htmls : PostChanges(p, h)
  BY <1>4, <1>6, <1>8 DEF TypeOK
<1> QED BY <1>1, <1>2, <1>5, <1>7, <1>8

\* Downloads, and what the history says of them.
FileTypes ==
  /\ inbox \in [Dirs -> [files : SUBSET Files, ready : BOOLEAN]]
  /\ late \subseteq Dirs \X Files
  /\ published \subseteq Dirs /\ taken \subseteq Dirs

\* What a step may do to Downloads.
Writes ==
  /\ WriteFile
  /\ inbox' = [inbox EXCEPT ![mem.bundle].files = @ \cup {Head(mem.left)}]
  /\ UNCHANGED <<late, published, taken>>

GivesUp ==
  /\ pc = "write" /\ pc' # "write"
  /\ late' \in {late, late \cup {<<mem.bundle, UnderWay>>}}
  /\ UNCHANGED <<inbox, published, taken>>

Publishes ==
  /\ PublishReady
  /\ inbox' = [inbox EXCEPT ![mem.bundle].ready = TRUE]
  /\ published' = published \cup {mem.bundle}
  /\ UNCHANGED <<late, taken>>

Leaves ==
  /\ UNCHANGED <<inbox, late, published, taken>>
  /\ UNCHANGED <<pc, mem>> \/ pc' # "write" \/ FetchPost

Touches ==
  \/ Leaves
  \/ Writes \/ GivesUp \/ Publishes
  \/ \E d \in Dirs : Collect(d)
  \/ \E d \in Dirs : \E file \in Payload(d) \cup {Ready} : Arrives(d, file)

LEMMA Touching ==
  ASSUME Next
  PROVE  Touches
<1>1. CASE StartScan \/ FetchList \/ SaveState \/ ReadHidden \/ FetchPost \/ PostFails
  BY <1>1 DEF Touches, Leaves, StartScan, FetchList, SaveState, ReadHidden, FetchPost,
              PostFails, Failed, Goto, files, bundles
<1>2. CASE WriteFile
  BY <1>2 DEF Touches, Writes, WriteFile, files, bundles
<1>3. CASE DownloadFails
  BY <1>3 DEF Touches, GivesUp, Abandoned, DownloadFails, Goto, files, bundles
<1>4. CASE PublishReady
  BY <1>4 DEF Touches, Publishes, PublishReady, files, bundles
<1>5. CASE SaveLedger \/ Release \/ Recover \/ RecoverFails \/ Conclude \/ FinishScan
  BY <1>5 DEF Touches, SaveLedger, Release, Recover, RecoverFails, Conclude, FinishScan,
              Leaves, Goto, files, bundles
<1>11. CASE Killed /\ pc # "write"
  BY <1>11 DEF Touches, Leaves, Killed, Goto
<1>12. CASE Killed /\ pc = "write"
  BY <1>12 DEF Touches, GivesUp, Abandoned, Killed, Goto
<1>6. CASE \E c \in Codes : FetchFails(c)
  BY <1>6 DEF Touches, Leaves, FetchFails, Failed, Goto, files, bundles
<1>7. CASE \E p \in Posts : Tell(p) \/ TellFails(p)
  BY <1>7 DEF Touches, Leaves, Tell, TellFails, files, bundles
<1>8. CASE Popup
  BY <1>8 DEF Touches, Leaves, Popup, ClickMute, ClickBlock, ToggleBoard, SaveForm, DeleteBoard,
              SaveSettings, WriteMute, DropState, files, bundles
<1>9. CASE \/ \E new \in Pages : ListChanges(new)
           \/ \E p \in Posts, h \in Htmls : PostChanges(p, h)
  BY <1>9 DEF Touches, Leaves, ListChanges, PostChanges, files, bundles
<1>10. CASE \/ \E d \in Dirs : Collect(d)
            \/ \E d \in Dirs : \E file \in Payload(d) \cup {Ready} : Arrives(d, file)
  BY <1>10 DEF Touches
<1> QED BY <1>1, <1>2, <1>3, <1>4, <1>5, <1>6, <1>7, <1>8, <1>9, <1>10, <1>11, <1>12
     DEF Next, Scan, Environment

LEMMA AddsFile ==
  ASSUME FileTypes, NEW d \in Dirs, NEW file \in Files,
         inbox' = [inbox EXCEPT ![d].files = @ \cup {file}]
  PROVE  /\ inbox' \in [Dirs -> [files : SUBSET Files, ready : BOOLEAN]]
         /\ inbox'[d].files = inbox[d].files \cup {file} /\ inbox'[d].ready = inbox[d].ready
         /\ \A e \in Dirs \ {d} : inbox'[e] = inbox[e]
BY DEF FileTypes

LEMMA Marks ==
  ASSUME FileTypes, NEW d \in Dirs,
         inbox' = [inbox EXCEPT ![d].ready = TRUE]
  PROVE  /\ inbox' \in [Dirs -> [files : SUBSET Files, ready : BOOLEAN]]
         /\ inbox'[d].files = inbox[d].files
         /\ \A e \in Dirs \ {d} : inbox'[e] = inbox[e]
BY DEF FileTypes

LEMMA FileTypeStep ==
  ASSUME TypeOK, Next
  PROVE  FileTypes'
<1>1. FileTypes
  BY DEF TypeOK, FileTypes
<1>2. CASE Leaves
  BY <1>1, <1>2 DEF FileTypes, Leaves
<1>3. CASE Writes
  <2>1. mem.bundle \in Dirs /\ mem.left \in Seq(Parts) /\ mem.left # <<>>
    BY <1>3 DEF Writes, WriteFile, TypeOK, InHand, PayloadThere
  <2>2. Head(mem.left) \in Files
    BY <2>1, First, Names
  <2>3. inbox' \in [Dirs -> [files : SUBSET Files, ready : BOOLEAN]]
    BY <1>1, <1>3, <2>1, <2>2, AddsFile DEF Writes
  <2> QED BY <1>1, <1>3, <2>3 DEF Writes, FileTypes
<1>4. CASE GivesUp
  <2>1. mem.bundle \in Dirs /\ mem.left \in Seq(Parts)
    BY <1>4 DEF GivesUp, TypeOK, InHand
  <2>2. ~PayloadThere => Head(mem.left) \in Files
    BY <2>1, First, Names DEF PayloadThere
  <2>3. UnderWay \in Files
    BY <2>2 DEF Files, UnderWay
  <2> QED BY <1>1, <1>4, <2>1, <2>3 DEF GivesUp, FileTypes
<1>5. CASE Publishes
  <2>1. mem.bundle \in Dirs
    BY <1>5 DEF Publishes, PublishReady, TypeOK, InHand
  <2>2. inbox' \in [Dirs -> [files : SUBSET Files, ready : BOOLEAN]]
    BY <1>1, <1>5, <2>1, Marks DEF Publishes
  <2> QED BY <1>1, <1>5, <2>1, <2>2 DEF Publishes, FileTypes
<1>6. ASSUME NEW d \in Dirs, Collect(d)
      PROVE  FileTypes'
  BY <1>1, <1>6 DEF Collect, FileTypes
<1>7. ASSUME NEW d \in Dirs, NEW file \in Payload(d) \cup {Ready}, Arrives(d, file)
      PROVE  FileTypes'
  <2>1. late' \subseteq Dirs \X Files /\ taken' = taken
    BY <1>1, <1>7 DEF Arrives, FileTypes
  <2>2. CASE file = Ready
    <3>1. inbox' = [inbox EXCEPT ![d].ready = TRUE] /\ published' = published \cup {d}
      BY <1>7, <2>2 DEF Arrives
    <3> QED BY <1>1, <2>1, <3>1, Marks DEF FileTypes
  <2>3. CASE file # Ready
    <3>1. inbox' = [inbox EXCEPT ![d].files = @ \cup {file}] /\ published' = published
      BY <1>7, <2>3 DEF Arrives
    <3>2. file \in Files
      BY <2>3, Names
    <3> QED BY <1>1, <2>1, <3>1, <3>2, AddsFile DEF FileTypes
  <2> QED BY <2>2, <2>3
<1> QED BY <1>2, <1>3, <1>4, <1>5, <1>6, <1>7, Touching DEF Touches

\* Posts come to be owed only when a scan saves its state.
LEMMA OwedStep ==
  ASSUME TypeOK, Next
  PROVE  owed' \subseteq Posts
<1>1. CASE SaveState
  BY <1>1 DEF SaveState, TypeOK
<1>2. CASE ReadHidden
  BY <1>2 DEF ReadHidden, TypeOK
<1>3. CASE \E p \in Posts : Tell(p) \/ TellFails(p)
  BY <1>3 DEF Tell, TellFails, TypeOK
<1>4. CASE Conclude \/ Killed \/ DropState
  BY <1>4 DEF Conclude, Killed, DropState, TypeOK
<1>5. CASE UNCHANGED owed
  BY <1>5 DEF TypeOK
<1>6. \/ UNCHANGED owed \/ SaveState \/ ReadHidden \/ Conclude \/ Killed \/ DropState
      \/ \E p \in Posts : Tell(p) \/ TellFails(p)
  BY DEF Next, StartScan, Scan, Popup, Environment, FetchList, FetchFails, FetchPost, PostFails,
         WriteFile, DownloadFails, PublishReady, SaveLedger, Release, Recover, RecoverFails,
         FinishScan, ClickMute, WriteMute, ClickBlock, ToggleBoard, SaveForm, SaveSettings,
         DeleteBoard, ListChanges, PostChanges, Arrives, Collect
<1> QED BY <1>1, <1>2, <1>3, <1>4, <1>5, <1>6

\* What was published last changes with a marker, and what of it the ledger never learned
\* when the worker is stopped besides.
LEMMA LastStep ==
  ASSUME TypeOK, Next
  PROVE  last' \in [Posts -> Keys] /\ unrecorded' \subseteq Posts
<1>1. CASE PublishReady
  <2>1. mem.bundle \in Dirs
    BY <1>1 DEF PublishReady, TypeOK, InHand
  <2> QED BY <1>1, <2>1, Names DEF PublishReady, TypeOK
<1>2. ASSUME NEW d \in Dirs, NEW file \in Payload(d) \cup {Ready}, Arrives(d, file)
      PROVE  last' \in [Posts -> Keys] /\ unrecorded' \subseteq Posts
  BY <1>2, Names DEF Arrives, TypeOK
<1>3. CASE Killed
  BY <1>3 DEF Killed, TypeOK
<1>4. CASE UNCHANGED <<last, unrecorded>>
  BY <1>4 DEF TypeOK
<1>5. \/ UNCHANGED <<last, unrecorded>> \/ PublishReady \/ Killed
      \/ \E d \in Dirs : \E file \in Payload(d) \cup {Ready} : Arrives(d, file)
  BY DEF Next, StartScan, Scan, Popup, Environment, FetchList, FetchFails, SaveState, ReadHidden,
         FetchPost, PostFails, WriteFile, DownloadFails, SaveLedger, Release, Tell, TellFails,
         Recover, RecoverFails, Conclude, FinishScan, ClickMute, WriteMute, ClickBlock,
         ToggleBoard, SaveForm, SaveSettings, DeleteBoard, DropState, ListChanges, PostChanges,
         Collect, bundles
<1> QED BY <1>1, <1>2, <1>3, <1>4, <1>5

\* Neither the popup nor the environment reaches into a scan.
LEMMA Aside ==
  ASSUME Popup \/ Environment
  PROVE  /\ pc' = pc /\ mem' = mem /\ ledger' = ledger /\ health' = health
         /\ recovered' = recovered
<1>1. CASE Popup
  BY <1>1 DEF Popup, ClickMute, ClickBlock, ToggleBoard, SaveForm, DeleteBoard, SaveSettings,
              WriteMute, DropState, bundles
<1>2. CASE Environment
  BY <1>2 DEF Environment, ListChanges, PostChanges, Arrives, Collect, bundles
<1> QED BY <1>1, <1>2

LEMMA TypeStep == TypeOK /\ [Next]_vars => TypeOK'
<1>1. ASSUME TypeOK, Next
      PROVE  TypeOK'
  <2>1. ScanTypes'
    <3>1. CASE StartScan \/ Scan \/ Killed
      BY <1>1, <3>1, ScanTypeStep
    <3>2. CASE Popup \/ Environment
      BY <1>1, <3>2, Aside DEF TypeOK, ScanTypes, InHand, Archiving
    <3> QED BY <1>1, <3>1, <3>2 DEF Next
  <2> QED BY <1>1, <2>1, BoundStep, BoardStep, FileTypeStep, OwedStep, LastStep
       DEF TypeOK, ScanTypes, FileTypes
<1>2. ASSUME TypeOK, UNCHANGED vars
      PROVE  TypeOK'
  <2>1. /\ UNCHANGED <<page, detail, board, telegram, ledger, health, inbox, late, pc, mem>>
        /\ UNCHANGED <<owed, published, taken, last, unrecorded, recovered>>
        /\ UNCHANGED <<faults, changes, clicks>>
    BY <1>2 DEF vars, world, config, files, bounds, bundles
  <2> QED BY <1>2, <2>1 DEF TypeOK, InHand, Archiving
<1> QED BY <1>1, <1>2

\* Storage, Downloads and the local variables of a scan have their types, and a bundle is in
\* hand exactly while its downloads run.
\* (background.js, archiver.js: what chrome.storage and a scan hold)
THEOREM TypesHold == Spec => []TypeOK
<1> QED BY TypesBegin, TypeStep, PTL DEF Spec

-----------------------------------------------------------------------------
(***************************************************************************)
(* A marker stands in a complete bundle.                                   *)
(*                                                                         *)
(* What is still to be downloaded is in the hand of the scan, and a marker *)
(* that is still under way was asked for when nothing was missing.  A      *)
(* bundle leaves the claim when it is taken under a running download.      *)
(***************************************************************************)
WholeWhenMarked ==
  \A d \in Dirs \ taken : <<d, Ready>> \in late => Payload(d) \subseteq inbox[d].files

RestInHand ==
  pc = "write" /\ mem.bundle \notin taken
    => Payload(mem.bundle) \subseteq inbox[mem.bundle].files \cup Range(mem.left)

MarkerInv == ReadyIsComplete /\ WholeWhenMarked /\ RestInHand

\* A step that leaves Downloads alone, and takes up a bundle only with all its files.
LEMMA MarkerKept ==
  ASSUME TypeOK, MarkerInv, UNCHANGED <<inbox, late, taken>>,
         \/ pc' # "write"
         \/ UNCHANGED <<pc, mem>>
         \/ Payload(mem'.bundle) \subseteq Range(mem'.left)
  PROVE  MarkerInv'
<1>1. RestInHand'
  BY DEF MarkerInv, RestInHand
<1>2. ReadyIsComplete' /\ WholeWhenMarked'
  BY DEF MarkerInv, ReadyIsComplete, WholeWhenMarked
<1> QED BY <1>1, <1>2 DEF MarkerInv

LEMMA MarkerOfWrite ==
  ASSUME TypeOK, MarkerInv, Writes
  PROVE  MarkerInv'
<1> DEFINE d == mem.bundle
           file == Head(mem.left)
<1>1. d \in Dirs /\ mem.left \in Seq(Parts) /\ mem.left # <<>> /\ pc = "write"
  BY DEF Writes, WriteFile, TypeOK, InHand, PayloadThere
<1>2. file \in Files /\ Range(mem.left) = {file} \cup Range(Tail(mem.left))
  BY <1>1, First, Names
<1>3. FileTypes
  BY DEF TypeOK, FileTypes
<1>4. inbox' = [inbox EXCEPT ![d].files = @ \cup {file}]
  BY DEF Writes
<1>5. mem'.bundle = d /\ mem'.left = Tail(mem.left) /\ late' = late /\ taken' = taken
  BY DEF Writes, WriteFile, TypeOK, IsWork
<1> HIDE DEF d, file
<1>6. /\ inbox'[d].files = inbox[d].files \cup {file} /\ inbox'[d].ready = inbox[d].ready
      /\ \A e \in Dirs \ {d} : inbox'[e] = inbox[e]
  BY <1>1, <1>2, <1>3, <1>4, AddsFile
<1>7. RestInHand'
  BY <1>1, <1>2, <1>5, <1>6 DEF MarkerInv, RestInHand, d
<1>8. ReadyIsComplete'
  BY <1>5, <1>6 DEF MarkerInv, ReadyIsComplete
<1>9. WholeWhenMarked'
  BY <1>5, <1>6 DEF MarkerInv, WholeWhenMarked
<1> QED BY <1>7, <1>8, <1>9 DEF MarkerInv

LEMMA MarkerOfGivingUp ==
  ASSUME TypeOK, MarkerInv, GivesUp
  PROVE  MarkerInv'
<1> DEFINE d == mem.bundle
           file == IF PayloadThere THEN Ready ELSE Head(mem.left)
<1>1. d \in Dirs /\ mem.left \in Seq(Parts) /\ pc = "write" /\ pc' # "write"
  BY DEF GivesUp, TypeOK, InHand
<1>2. late' \subseteq late \cup {<<d, file>>} /\ inbox' = inbox /\ taken' = taken
  BY DEF GivesUp, UnderWay
<1>3. file = Ready /\ d \notin taken => Payload(d) \subseteq inbox[d].files
  <2>1. CASE PayloadThere
    <3>1. Range(mem.left) = {}
      BY <2>1 DEF PayloadThere, Range
    <3> QED BY <1>1, <3>1 DEF MarkerInv, RestInHand
  <2>2. CASE ~PayloadThere
    <3>1. mem.left # <<>> /\ file = Head(mem.left)
      BY <2>2 DEF PayloadThere
    <3>2. file \in Parts
      BY <1>1, <3>1, First
    <3> QED BY <3>2, Names
  <2> QED BY <2>1, <2>2
<1> HIDE DEF d, file
<1>4. WholeWhenMarked'
  <2> SUFFICES ASSUME NEW e \in Dirs, e \notin taken, <<e, Ready>> \in late'
               PROVE  Payload(e) \subseteq inbox[e].files
    BY <1>2 DEF WholeWhenMarked
  <2>1. CASE <<e, Ready>> \in late
    BY <2>1 DEF MarkerInv, WholeWhenMarked
  <2>2. CASE <<e, Ready>> = <<d, file>>
    BY <1>3, <2>2
  <2> QED BY <1>2, <2>1, <2>2
<1>5. ReadyIsComplete'
  BY <1>2 DEF MarkerInv, ReadyIsComplete
<1>6. RestInHand'
  BY <1>1 DEF RestInHand
<1> QED BY <1>4, <1>5, <1>6 DEF MarkerInv

LEMMA MarkerOfPublishing ==
  ASSUME TypeOK, MarkerInv, Publishes
  PROVE  MarkerInv'
<1> DEFINE d == mem.bundle
<1>1. d \in Dirs /\ mem.left = <<>> /\ pc = "write" /\ pc' = "post"
  BY DEF Publishes, PublishReady, TypeOK, InHand, Goto, PayloadThere
<1>2. inbox' = [inbox EXCEPT ![d].ready = TRUE] /\ late' = late /\ taken' = taken
  BY DEF Publishes
<1>3. d \notin taken => Payload(d) \subseteq inbox[d].files
  <2>1. Range(mem.left) = {}
    BY <1>1 DEF Range
  <2> QED BY <1>1, <2>1 DEF MarkerInv, RestInHand
<1>4. FileTypes
  BY DEF TypeOK, FileTypes
<1> HIDE DEF d
<1>5. inbox'[d].files = inbox[d].files /\ \A e \in Dirs \ {d} : inbox'[e] = inbox[e]
  BY <1>1, <1>2, <1>4, Marks
<1>6. WholeWhenMarked' /\ ReadyIsComplete'
  BY <1>2, <1>3, <1>5 DEF MarkerInv, WholeWhenMarked, ReadyIsComplete
<1>7. RestInHand'
  BY <1>1 DEF RestInHand
<1> QED BY <1>6, <1>7 DEF MarkerInv

LEMMA MarkerOfCollecting ==
  ASSUME TypeOK, MarkerInv, NEW d \in Dirs, Collect(d)
  PROVE  MarkerInv'
<1>1. inbox' = [inbox EXCEPT ![d] = [files |-> {}, ready |-> FALSE]] /\ late' = late
  BY DEF Collect
<1>2. taken' = IF mem.bundle = d \/ \E x \in late : x[1] = d THEN taken \cup {d} ELSE taken
  BY DEF Collect
<1>3. pc' = pc /\ mem' = mem
  BY DEF Collect
<1>4. ~inbox'[d].ready /\ \A e \in Dirs \ {d} : inbox'[e] = inbox[e]
  BY <1>1 DEF TypeOK
<1>5. taken \subseteq taken'
  BY <1>2
<1>6. mem.bundle = d => d \in taken'
  BY <1>2
<1>7. <<d, Ready>> \in late => d \in taken'
  <2>1. <<d, Ready>>[1] = d
    OBVIOUS
  <2> QED BY <1>2, <2>1
<1>8. ReadyIsComplete'
  BY <1>4, <1>5 DEF MarkerInv, ReadyIsComplete
<1>9. WholeWhenMarked'
  BY <1>1, <1>4, <1>5, <1>7 DEF MarkerInv, WholeWhenMarked
<1>10. RestInHand'
  BY <1>3, <1>4, <1>5, <1>6 DEF MarkerInv, RestInHand, TypeOK, InHand
<1> QED BY <1>8, <1>9, <1>10 DEF MarkerInv

LEMMA MarkerOfArriving ==
  ASSUME TypeOK, MarkerInv, NEW d \in Dirs, NEW file \in Payload(d) \cup {Ready},
         Arrives(d, file)
  PROVE  MarkerInv'
<1>1. /\ <<d, file>> \in late /\ late' = late \ {<<d, file>>} /\ taken' = taken
      /\ pc' = pc /\ mem' = mem
  BY DEF Arrives
<1>2. FileTypes
  BY DEF TypeOK, FileTypes
<1>3. /\ inbox[d].files \subseteq inbox'[d].files
      /\ inbox'[d].ready => inbox[d].ready \/ file = Ready
      /\ \A e \in Dirs \ {d} : inbox'[e] = inbox[e]
  <2>1. CASE file = Ready
    <3>1. inbox' = [inbox EXCEPT ![d].ready = TRUE]
      BY <2>1 DEF Arrives
    <3> QED BY <1>2, <2>1, <3>1, Marks
  <2>2. CASE file # Ready
    <3>1. inbox' = [inbox EXCEPT ![d].files = @ \cup {file}] /\ file \in Files
      BY <2>2, Names DEF Arrives
    <3> QED BY <1>2, <3>1, AddsFile
  <2> QED BY <2>1, <2>2
<1>4. file = Ready /\ d \notin taken => Payload(d) \subseteq inbox[d].files
  BY <1>1 DEF MarkerInv, WholeWhenMarked
<1>5. ReadyIsComplete'
  BY <1>1, <1>3, <1>4 DEF MarkerInv, ReadyIsComplete
<1>6. WholeWhenMarked'
  BY <1>1, <1>3 DEF MarkerInv, WholeWhenMarked
<1>7. RestInHand'
  <2>1. CASE mem.bundle = d
    BY <1>1, <1>3, <2>1 DEF MarkerInv, RestInHand
  <2>2. CASE mem.bundle # d
    BY <1>1, <1>3, <2>2 DEF MarkerInv, RestInHand, TypeOK, InHand
  <2> QED BY <2>1, <2>2
<1> QED BY <1>5, <1>6, <1>7 DEF MarkerInv

\* A bundle comes into the hand of the scan with everything it is made of.
LEMMA Begins ==
  ASSUME TypeOK, FetchPost, pc' = "write"
  PROVE  Payload(mem'.bundle) \subseteq Range(mem'.left)
<1> DEFINE d == <<Head(mem.todo), detail[Head(mem.todo)]>>
<1>1. mem' = [mem EXCEPT !.bundle = d, !.left = Downloads(d[2])] /\ d \in Dirs
  BY DEF FetchPost, Downloads, TypeOK, Dirs
<1> HIDE DEF d
<1>2. mem'.bundle = d /\ mem'.left = Downloads(d[2])
  BY <1>1 DEF TypeOK, IsWork
<1> QED BY <1>1, <1>2, DownloadsArePayload

LEMMA MarkerStep ==
  ASSUME TypeOK, MarkerInv, [Next]_vars
  PROVE  MarkerInv'
<1>1. CASE Next
  <2>1. CASE Leaves
    BY <2>1, MarkerKept, Begins DEF Leaves
  <2>2. CASE \E d \in Dirs : \E file \in Payload(d) \cup {Ready} : Arrives(d, file)
    BY <2>2, MarkerOfArriving
  <2> QED BY <1>1, <2>1, <2>2, Touching, MarkerOfWrite, MarkerOfGivingUp, MarkerOfPublishing,
              MarkerOfCollecting DEF Touches
<1>2. CASE UNCHANGED vars
  BY <1>2, MarkerKept DEF vars, files, bundles
<1> QED BY <1>1, <1>2

\* A bundle that carries its marker has its page, its manifest and every attachment, unless
\* it was taken while a download into it was still under way.
\* (archiver.js: archivePosts writes the marker last, downloadAndWait)
THEOREM MarkersStandOnWholeBundles == Spec => []ReadyIsComplete
<1>1. Init => MarkerInv
  BY DEF Init, MarkerInv, ReadyIsComplete, WholeWhenMarked, RestInHand
<1>2. MarkerInv => ReadyIsComplete
  BY DEF MarkerInv
<1> QED BY <1>1, <1>2, MarkerStep, TypesHold, PTL DEF Spec

-----------------------------------------------------------------------------
(***************************************************************************)
(* What the ledger says was delivered has been published.                  *)
(***************************************************************************)
WasPublished(l) ==
  \A p \in Posts : l[p] # None => \E d \in published : d[1] = p /\ DeliveryKey(d[2]) = l[p]

LedgerInv == WasPublished(ledger) /\ (Archiving => WasPublished(mem.ledger))

\* The ledger that a step leaves in storage and in memory.
LedgerEffect ==
  /\ \/ ledger' = ledger
     \/ Archiving /\ ledger' = Kept(mem.ledger)
  /\ \/ pc' \notin {"post", "write"}
     \/ Archiving /\ mem'.ledger = mem.ledger
     \/ mem'.ledger = ledger
     \/ /\ pc = "write" /\ mem.bundle \in published'
        /\ mem'.ledger = [mem.ledger EXCEPT ![mem.bundle[1]] = DeliveryKey(mem.bundle[2])]

LEMMA PublishedGrows ==
  ASSUME Next
  PROVE  published \subseteq published'
BY Touching DEF Touches, Leaves, Writes, GivesUp, Publishes, Collect, Arrives

LEMMA LedgerEffects ==
  ASSUME TypeOK, Next
  PROVE  LedgerEffect
<1>1. CASE StartScan \/ FetchList \/ SaveState \/ Release
  BY <1>1 DEF StartScan, FetchList, SaveState, Release, Goto, LedgerEffect
<1>2. CASE Recover \/ RecoverFails \/ Conclude \/ FinishScan \/ Killed
  BY <1>2 DEF Recover, RecoverFails, Conclude, FinishScan, Killed, Goto, LedgerEffect
<1>3. CASE \E c \in Codes : FetchFails(c)
  BY <1>3 DEF FetchFails, Failed, Goto, LedgerEffect
<1>4. CASE \E p \in Posts : Tell(p) \/ TellFails(p)
  BY <1>4 DEF Tell, TellFails, LedgerEffect
<1>5. CASE SaveLedger
  BY <1>5 DEF SaveLedger, Goto, LedgerEffect, Archiving
<1>6. CASE ReadHidden
  <2>1. ledger' = ledger
    BY <1>6 DEF ReadHidden
  <2>2. pc' = "save" \/ mem'.ledger = ledger
    BY <1>6 DEF ReadHidden, Failed, Goto, TypeOK, IsWork
  <2> QED BY <2>1, <2>2 DEF LedgerEffect
<1>7. CASE FetchPost \/ PostFails \/ WriteFile \/ DownloadFails
  <2>1. ledger' = ledger /\ Archiving
    BY <1>7 DEF FetchPost, PostFails, WriteFile, DownloadFails, Archiving
  <2>2. mem'.ledger = mem.ledger
    BY <1>7 DEF FetchPost, PostFails, WriteFile, DownloadFails, NextPost, TypeOK, IsWork
  <2> QED BY <2>1, <2>2 DEF LedgerEffect
<1>8. CASE PublishReady
  <2>1. ledger' = ledger /\ pc = "write" /\ mem.bundle \in published'
    BY <1>8 DEF PublishReady
  <2>2. mem'.ledger = [mem.ledger EXCEPT ![mem.bundle[1]] = DeliveryKey(mem.bundle[2])]
    BY <1>8 DEF PublishReady, TypeOK, IsWork
  <2> QED BY <2>1, <2>2 DEF LedgerEffect
<1>9. CASE Popup \/ Environment
  BY <1>9, Aside DEF LedgerEffect, Archiving
<1> QED BY <1>1, <1>2, <1>3, <1>4, <1>5, <1>6, <1>7, <1>8, <1>9 DEF Next, Scan

LEMMA LedgerStep ==
  ASSUME TypeOK, LedgerInv, [Next]_vars
  PROVE  LedgerInv'
<1>1. CASE Next
  <2>1. LedgerEffect /\ published \subseteq published' /\ published' \subseteq Dirs
    BY <1>1, LedgerEffects, PublishedGrows, FileTypeStep DEF FileTypes
  <2> DEFINE Out(l) == \A p \in Posts : l[p] # None =>
                         \E d \in published' : d[1] = p /\ DeliveryKey(d[2]) = l[p]
  <2>2. Out(ledger) /\ (Archiving => Out(mem.ledger))
    BY <2>1 DEF LedgerInv, WasPublished
  <2>3. Out(Kept(mem.ledger)) \/ ~Archiving
    BY <2>2 DEF Kept
  <2>4. ASSUME pc = "write", mem.bundle \in published',
               mem'.ledger = [mem.ledger EXCEPT ![mem.bundle[1]] = DeliveryKey(mem.bundle[2])]
        PROVE  Out(mem'.ledger)
    <3>1. mem.ledger \in [Posts -> Keys] /\ mem.bundle[1] \in Posts
      BY <2>1, <2>4, Names DEF TypeOK, InHand, Archiving
    <3>2. \A p \in Posts \ {mem.bundle[1]} : mem'.ledger[p] = mem.ledger[p]
      BY <2>4, <3>1
    <3>3. mem'.ledger[mem.bundle[1]] = DeliveryKey(mem.bundle[2])
      BY <2>4, <3>1
    <3> QED BY <2>2, <2>4, <3>2, <3>3 DEF Archiving
  <2>5. Out(ledger')
    BY <2>1, <2>2, <2>3 DEF LedgerEffect
  <2>6. Archiving' => Out(mem'.ledger)
    BY <2>1, <2>2, <2>4 DEF LedgerEffect, Archiving
  <2> QED BY <2>5, <2>6 DEF LedgerInv, WasPublished
<1>2. CASE UNCHANGED vars
  BY <1>2 DEF vars, bundles, LedgerInv, WasPublished, Archiving
<1> QED BY <1>1, <1>2

\* What the ledger says was delivered has been published: no crash, failed download or
\* eviction makes the extension skip a page that the core never got.
\* (archiver.js: archivePosts and its delivery ledger)
THEOREM NothingUnsentIsSkipped == Spec => []LedgerIsPublished
<1>1. Init => LedgerInv
  BY DEF Init, LedgerInv, WasPublished, Archiving
<1>2. LedgerInv => LedgerIsPublished
  BY DEF LedgerInv, WasPublished, LedgerIsPublished
<1> QED BY <1>1, <1>2, LedgerStep, TypesHold, PTL DEF Spec

-----------------------------------------------------------------------------
(***************************************************************************)
(* What is owed is remembered.                                             *)
(*                                                                         *)
(* Before the scan saves its state, and after it has told or restored, the *)
(* stored list alone covers what is owed.  In between, the answered posts  *)
(* of the scan cover the rest; once it tells of them, those it has told of *)
(* are no longer needed, unless a failure has ordered the restoration.     *)
(***************************************************************************)
OwedInv ==
  /\ mem.done \subseteq mem.prev
  /\ pc = "fetch" => mem.done = {}
  /\ pc \in {"idle", "fetch", "remember", "save"} => owed \subseteq pending
  /\ owed \subseteq pending \cup mem.done
  /\ pc \in {"tell", "conclude"} /\ ~mem.handoff => owed \subseteq pending \cup mem.tell
  /\ pc = "conclude" => mem.tell = {}

\* A step that leaves the lists of the scan alone and stays on its side of the scan.
LEMMA OwedKept ==
  ASSUME TypeOK, OwedInv, UNCHANGED <<pending, owed>>,
         mem'.done = mem.done, mem'.prev = mem.prev, pc' \notin {"tell", "conclude", "fetch"},
         pc' \in {"idle", "remember", "save"} => pc \in {"idle", "fetch", "remember", "save"}
  PROVE  OwedInv'
BY DEF OwedInv

LEMMA OwedOfScan ==
  ASSUME TypeOK, OwedInv, StartScan \/ Scan \/ Killed
  PROVE  OwedInv'
<1> USE DEF Goto
<1>1. CASE StartScan
  <2>1. Begun.done = {} /\ Begun.prev = {}
    BY DEF Begun, NoWork
  <2> QED BY <1>1, <2>1 DEF StartScan, OwedInv, Idle
<1>2. CASE FetchList
  <2>1. ASSUME NEW rows, Analyzed(rows)
        PROVE  mem'.done \subseteq pending /\ mem'.prev = pending
    BY <2>1 DEF Analyzed, TypeOK, IsWork
  <2>2. mem'.done \subseteq mem'.prev
    BY <1>2, <2>1 DEF FetchList
  <2> QED BY <1>2, <2>2 DEF FetchList, OwedInv
<1>3. ASSUME NEW c \in Codes, FetchFails(c)
      PROVE  OwedInv'
  <2>1. mem'.done = mem.done /\ mem'.prev = mem.prev
    BY <1>3 DEF FetchFails, Failed, TypeOK, IsWork
  <2> QED BY <1>3, <2>1, OwedKept DEF FetchFails, Failed
<1>4. CASE SaveState
  <2>1. mem'.done = mem.done /\ mem'.prev = mem.prev
    BY <1>4 DEF SaveState, TypeOK, IsWork
  <2>2. owed' \subseteq pending' \cup mem.done
    BY <1>4 DEF SaveState, OwedInv
  <2> QED BY <1>4, <2>1, <2>2 DEF SaveState, OwedInv
<1>5. CASE ReadHidden
  <2>1. mem'.done = mem.done /\ mem'.prev = mem.prev
    BY <1>5 DEF ReadHidden, Failed, TypeOK, IsWork
  <2>2. CASE pc' = "save" /\ owed' = owed \ mem.done
    BY <1>5, <2>1, <2>2 DEF ReadHidden, OwedInv
  <2>3. CASE pc' = "post" /\ owed' = owed
    BY <1>5, <2>1, <2>3 DEF ReadHidden, OwedInv
  <2> QED BY <1>5, <2>2, <2>3 DEF ReadHidden, Failed
<1>6. CASE FetchPost \/ PostFails \/ WriteFile \/ DownloadFails
  <2>1. mem'.done = mem.done /\ mem'.prev = mem.prev
    BY <1>6 DEF FetchPost, PostFails, WriteFile, DownloadFails, NextPost, TypeOK, IsWork
  <2>2. pc' \in {"post", "write"} /\ UNCHANGED <<pending, owed>>
    BY <1>6 DEF FetchPost, PostFails, WriteFile, DownloadFails
  <2> QED BY <2>1, <2>2, OwedKept
<1>7. CASE PublishReady
  <2>1. mem'.done = mem.done /\ mem'.prev = mem.prev
    BY <1>7 DEF PublishReady, TypeOK, IsWork
  <2> QED BY <1>7, <2>1, OwedKept DEF PublishReady
<1>8. CASE SaveLedger
  BY <1>8, OwedKept DEF SaveLedger
<1>9. CASE Release
  <2>1. mem'.done = mem.done /\ mem'.prev = mem.prev /\ mem'.tell = mem.done \cap Posts
    BY <1>9 DEF Release, TypeOK, IsWork
  <2> QED BY <1>9, <2>1 DEF Release, OwedInv, TypeOK
<1>10. ASSUME NEW p \in Posts, Tell(p)
       PROVE  OwedInv'
  <2>1. /\ mem'.done = mem.done /\ mem'.prev = mem.prev /\ mem'.tell = mem.tell \ {p}
        /\ mem'.handoff = mem.handoff
    BY <1>10 DEF Tell, TypeOK, IsWork
  <2> QED BY <1>10, <2>1 DEF Tell, OwedInv
<1>11. ASSUME NEW p \in Posts, TellFails(p)
       PROVE  OwedInv'
  <2>1. mem'.done = mem.done /\ mem'.prev = mem.prev /\ mem'.handoff
    BY <1>11 DEF TellFails, TypeOK, IsWork
  <2> QED BY <1>11, <2>1 DEF TellFails, OwedInv
<1>12. CASE Recover
  BY <1>12 DEF Recover, OwedInv
<1>13. CASE RecoverFails
  <2>1. /\ mem'.done = mem.done /\ mem'.prev = mem.prev /\ mem'.handoff
        /\ mem'.tell = mem.tell
    BY <1>13 DEF RecoverFails, HandoffFailed, TypeOK, IsWork
  <2> QED BY <1>13, <2>1 DEF RecoverFails, OwedInv
<1>14. CASE Conclude
  <2>1. mem'.done = mem.done /\ mem'.prev = mem.prev /\ pc' = "save" /\ mem.tell = {}
    BY <1>14 DEF Conclude, TypeOK, IsWork, OwedInv
  <2>2. CASE mem.handoff
    <3>1. pending' = mem.prev /\ owed' = owed \ (pending \ mem.prev)
      BY <1>14, <2>2 DEF Conclude, Restored
    <3> QED BY <2>1, <3>1 DEF OwedInv
  <2>3. CASE ~mem.handoff
    <3>1. pending' = pending /\ owed' = owed
      BY <1>14, <2>3 DEF Conclude
    <3>2. pc \in {"tell", "conclude"}
      BY <1>14 DEF Conclude
    <3> QED BY <2>1, <2>3, <3>1, <3>2 DEF OwedInv
  <2> QED BY <2>2, <2>3
<1>15. CASE FinishScan
  <2>1. NoWork.done = {} /\ NoWork.prev = {}
    BY DEF NoWork
  <2> QED BY <1>15, <2>1 DEF FinishScan, OwedInv
<1>16. CASE Killed
  <2>1. NoWork.done = {} /\ NoWork.prev = {}
    BY DEF NoWork
  <2> QED BY <1>16, <2>1 DEF Killed, OwedInv
<1> QED BY <1>1, <1>2, <1>3, <1>4, <1>5, <1>6, <1>7, <1>8, <1>9, <1>10, <1>11, <1>12, <1>13,
          <1>14, <1>15, <1>16 DEF Scan

LEMMA OwedStepInv ==
  ASSUME TypeOK, OwedInv, [Next]_vars
  PROVE  OwedInv'
<1>1. CASE UNCHANGED <<pending, owed, pc, mem>>
  BY <1>1 DEF OwedInv
<1>2. CASE DropState
  BY <1>2 DEF DropState, OwedInv
<1>3. CASE Popup \/ Environment
  BY <1>1, <1>2, <1>3, Aside
     DEF Popup, ClickMute, ClickBlock, ToggleBoard, SaveForm, DeleteBoard, SaveSettings, WriteMute,
         Environment, ListChanges, PostChanges, Arrives, Collect
<1>4. CASE UNCHANGED vars
  BY <1>1, <1>4 DEF vars
<1> QED BY <1>3, <1>4, OwedOfScan DEF Next

\* An open post is remembered until its completion has been published, also when an
\* observation cannot be delivered, when the worker dies and when posts are muted or the
\* board is deleted meanwhile.
\* (background.js: scanBoard, scanAllBoards and its handoffFailed)
THEOREM OpenPostsAreRemembered == Spec => []PendingIsNotForgotten
<1>1. Init => OwedInv
  BY DEF Init, OwedInv, NoWork
<1>2. OwedInv => PendingIsNotForgotten
  BY DEF OwedInv, PendingIsNotForgotten, Idle
<1> QED BY <1>1, <1>2, OwedStepInv, TypesHold, PTL DEF Spec

-----------------------------------------------------------------------------
(***************************************************************************)
(* The error of a board is cleared only by a scan that told the recovery.  *)
(***************************************************************************)
HealthInv ==
  /\ pc \notin {"idle", "save"} => mem.health = health
  /\ pc = "conclude" => recovered \/ mem.handoff
  /\ pc = "save" => mem.health # None \/ health = None \/ recovered

LEMMA HealthKept ==
  ASSUME HealthInv, health' = health, mem'.health = mem.health,
         pc \notin {"idle", "save"}, pc' \notin {"idle", "save", "conclude"}
  PROVE  HealthInv'
BY DEF HealthInv

LEMMA HealthOfScan ==
  ASSUME TypeOK, HealthInv, StartScan \/ Scan \/ Killed
  PROVE  HealthInv' /\ (health # None /\ health' = None => recovered)
<1> USE DEF Goto
<1>1. CASE StartScan
  <2>1. Begun.health = health
    BY DEF Begun, NoWork
  <2> QED BY <1>1, <2>1 DEF StartScan, HealthInv
<1>2. CASE FetchList
  <2>1. ASSUME NEW rows, Analyzed(rows)
        PROVE  mem'.health = mem.health
    BY <2>1 DEF Analyzed, TypeOK, IsWork
  <2>2. mem'.health = mem.health
    BY <1>2, <2>1 DEF FetchList
  <2> QED BY <1>2, <2>2, HealthKept DEF FetchList
<1>3. ASSUME NEW c \in Codes, FetchFails(c)
      PROVE  HealthInv' /\ health' = health
  <2>1. mem'.health = c /\ c # None
    BY <1>3, Names DEF FetchFails, Failed, TypeOK, IsWork, Errors
  <2> QED BY <1>3, <2>1 DEF FetchFails, Failed, HealthInv
<1>4. CASE SaveState \/ WriteFile \/ SaveLedger \/ Release
  <2>1. mem'.health = mem.health
    BY <1>4 DEF SaveState, WriteFile, SaveLedger, Release, TypeOK, IsWork
  <2> QED BY <1>4, <2>1, HealthKept DEF SaveState, WriteFile, SaveLedger, Release
<1>5. CASE ReadHidden
  <2>1. health' = health /\ pc = "hidden"
    BY <1>5 DEF ReadHidden
  <2>2. \/ pc' = "save" /\ mem'.health = "poll_error"
        \/ pc' = "post" /\ mem'.health = mem.health
    BY <1>5 DEF ReadHidden, Failed, TypeOK, IsWork
  <2>3. "poll_error" # None
    BY Names DEF Errors, Codes
  <2> QED BY <2>1, <2>2, <2>3, HealthKept DEF HealthInv
<1>6. CASE FetchPost \/ PostFails \/ DownloadFails \/ PublishReady
  <2>1. mem'.health = mem.health
    BY <1>6 DEF FetchPost, PostFails, DownloadFails, PublishReady, NextPost, TypeOK, IsWork
  <2>2. pc \in {"post", "write"} /\ pc' \in {"post", "write"} /\ health' = health
    BY <1>6 DEF FetchPost, PostFails, DownloadFails, PublishReady
  <2> QED BY <2>1, <2>2, HealthKept
<1>7. ASSUME NEW p \in Posts, Tell(p) \/ TellFails(p)
      PROVE  HealthInv' /\ health' = health
  <2>1. mem'.health = mem.health
    BY <1>7 DEF Tell, TellFails, TypeOK, IsWork
  <2> QED BY <1>7, <2>1, HealthKept DEF Tell, TellFails
<1>8. CASE Recover
  BY <1>8 DEF Recover, HealthInv
<1>9. CASE RecoverFails
  <2>1. mem'.health = mem.health /\ mem'.handoff
    BY <1>9 DEF RecoverFails, HandoffFailed, TypeOK, IsWork
  <2> QED BY <1>9, <2>1 DEF RecoverFails, HealthInv
<1>10. CASE Conclude
  <2>1. CASE mem.handoff
    <3>1. mem'.health = "observation_delivery_failed"
      BY <1>10, <2>1 DEF Conclude, TypeOK, IsWork
    <3>2. mem'.health # None
      BY <3>1, Names DEF Errors
    <3> QED BY <1>10, <3>2 DEF Conclude, HealthInv
  <2>2. CASE ~mem.handoff
    BY <1>10, <2>2 DEF Conclude, HealthInv
  <2> QED BY <2>1, <2>2
<1>11. CASE FinishScan
  <2>1. NoWork.health = None
    BY DEF NoWork
  <2> QED BY <1>11, <2>1 DEF FinishScan, HealthInv
<1>12. CASE Killed
  BY <1>12 DEF Killed, HealthInv
<1> QED BY <1>1, <1>2, <1>3, <1>4, <1>5, <1>6, <1>7, <1>8, <1>9, <1>10, <1>11, <1>12 DEF Scan

LEMMA HealthStep ==
  ASSUME TypeOK, HealthInv, [Next]_vars
  PROVE  HealthInv' /\ (health # None /\ health' = None => recovered)
<1>1. CASE Popup \/ Environment
  BY <1>1, Aside DEF HealthInv
<1>2. CASE UNCHANGED vars
  BY <1>2 DEF vars, HealthInv
<1> QED BY <1>1, <1>2, HealthOfScan DEF Next

\* The error of the board is cleared only by a scan that published the recovery.
\* (background.js: scanAllBoards, source_recovered)
THEOREM RecoveriesAreTold == Spec => RecoveryIsTold
<1>1. Init => HealthInv
  BY DEF Init, HealthInv
<1>2. TypeOK /\ HealthInv /\ [Next]_vars => [health # None /\ health' = None => recovered]_vars
  BY HealthStep
<1> QED BY <1>1, <1>2, HealthStep, TypesHold, PTL DEF Spec, RecoveryIsTold

-----------------------------------------------------------------------------
(***************************************************************************)
(* A page is published again only where the ledger is full, or has not     *)
(* learned of the last time.                                               *)
(*                                                                         *)
(* What was published last is in the ledger that counts, the one in memory *)
(* while a scan archives, or went unrecorded, or KEEP posts with a higher  *)
(* number are in the stored one.  Those are the ones an eviction keeps, so *)
(* once there are as many, there are as many after every later scan.       *)
(***************************************************************************)
Less == {x \in Nat \X Nat : x[1] < x[2]}

LEMMA Smallest ==
  ASSUME NEW T \in SUBSET Nat, T # {}
  PROVE  \E n \in T : \A k \in T : n <= k
<1>1. IsWellFoundedOn(Less, Nat)
  BY NatLessThanWellFounded DEF OpToRel, Less
<1>2. PICK n \in T : \A k \in T : ~(<<k, n>> \in Less)
  BY <1>1, WFMin
<1>3. ASSUME NEW k \in T PROVE n <= k
  <2>1. k \in Nat /\ n \in Nat /\ ~(<<k, n>> \in Less)
    BY <1>2
  <2>2. ~(k < n)
    BY <2>1 DEF Less
  <2> QED BY <2>1, <2>2
<1> QED BY <1>3

LEMMA Topmost ==
  ASSUME NEW S \in SUBSET Nat, IsFiniteSet(S), S # {}
  PROVE  \E q \in S : \A r \in S : r <= q
<1> DEFINE Above(q) == {r \in S : r > q}
           Sizes == {Cardinality(Above(q)) : q \in S}
<1>1. \A q \in S : IsFiniteSet(Above(q)) /\ Cardinality(Above(q)) \in Nat
  <2> TAKE q \in S
  <2>1. Above(q) \in SUBSET S
    OBVIOUS
  <2> HIDE DEF Above
  <2> QED BY <2>1, FS_Subset, FS_CardinalityType
<1>2. ASSUME NEW q \in S, NEW r \in Above(q)
      PROVE  Cardinality(Above(r)) < Cardinality(Above(q))
  <2>1. Above(r) \in SUBSET Above(q) /\ r \notin Above(r) /\ r \in S
    <3>1. r \in S /\ r > q /\ q \in Nat /\ r \in Nat
      OBVIOUS
    <3>2. \A t \in S : t > r => t > q
      BY <3>1
    <3>3. ~(r > r)
      BY <3>1
    <3> QED BY <3>1, <3>2, <3>3
  <2>2. IsFiniteSet(Above(q)) /\ Cardinality(Above(q)) \in Nat /\ Cardinality(Above(r)) \in Nat
    BY <1>1, <2>1
  <2> HIDE DEF Above
  <2>3. /\ Cardinality(Above(r)) <= Cardinality(Above(q))
        /\ Cardinality(Above(q)) = Cardinality(Above(r)) => Above(q) = Above(r)
    BY <2>1, <2>2, FS_Subset
  <2> QED BY <1>2, <2>1, <2>2, <2>3
<1>3. Sizes \in SUBSET Nat /\ Sizes # {}
  BY <1>1
<1>4. PICK n \in Sizes : \A m \in Sizes : n <= m
  BY <1>3, Smallest
<1>5. PICK q \in S : n = Cardinality(Above(q))
  BY <1>4
<1>6. ASSUME NEW r \in S, r > q
      PROVE  FALSE
  <2>1. r \in Above(q)
    BY <1>6
  <2>2. Cardinality(Above(r)) \in Sizes
    BY <1>6
  <2>3. Cardinality(Above(r)) < Cardinality(Above(q))
    BY <1>2, <2>1
  <2> HIDE DEF Above, Sizes
  <2> QED BY <1>1, <1>4, <1>5, <1>6, <2>2, <2>3
<1> QED BY <1>6

\* Of a set of numbers that has at least k, the topmost k are at least k.
LEMMA TopmostAreEnough ==
  ASSUME NEW S \in SUBSET Nat, IsFiniteSet(S), NEW k \in Nat, Cardinality(S) >= k
  PROVE  Cardinality({q \in S : Cardinality({r \in S : r > q}) < k}) >= k
<1> DEFINE Above(q) == {r \in S : r > q}
           T == {q \in S : Cardinality(Above(q)) < k}
<1>1. CASE S \ T = {}
  <2>1. T = S
    BY <1>1
  <2> QED BY <2>1
<1>2. CASE S \ T # {}
  <2>1. IsFiniteSet(S \ T) /\ IsFiniteSet(T)
    BY FS_Subset
  <2>2. PICK q \in S \ T : \A r \in S \ T : r <= q
    BY <1>2, <2>1, Topmost
  <2>3. Above(q) \in SUBSET T
    <3>1. \A r \in S \ T : ~(r > q)
      BY <2>2
    <3> HIDE DEF T
    <3> QED BY <3>1
  <2>4. Above(q) \in SUBSET S
    OBVIOUS
  <2>5. IsFiniteSet(Above(q))
    BY <2>4, FS_Subset
  <2>6. Cardinality(Above(q)) \in Nat /\ Cardinality(T) \in Nat
    BY <2>1, <2>5, FS_CardinalityType
  <2>7. ~(Cardinality(Above(q)) < k)
    BY <2>2
  <2> HIDE DEF Above, T
  <2>8. Cardinality(Above(q)) <= Cardinality(T)
    BY <2>1, <2>3, FS_Subset
  <2>9. Cardinality(T) >= k
    BY <2>6, <2>7, <2>8
  <2> QED BY <2>9 DEF T, Above
<1> QED BY <1>1, <1>2

Higher(l, p) == {q \in Posts : q > p /\ l[q] # None}
Crowded(l, p) == Cardinality(Higher(l, p)) >= Keep

LEMMA HigherFacts ==
  ASSUME NEW l, NEW p \in Posts
  PROVE  /\ Higher(l, p) \in SUBSET Nat /\ IsFiniteSet(Higher(l, p))
         /\ Cardinality(Higher(l, p)) \in Nat
<1>1. Higher(l, p) \in SUBSET Posts /\ Posts \subseteq Nat /\ IsFiniteSet(Posts)
  BY BoardAssumption DEF Higher
<1>2. IsFiniteSet(Higher(l, p))
  BY <1>1, FS_Subset
<1> QED BY <1>1, <1>2, FS_CardinalityType

LEMMA StaysCrowded ==
  ASSUME NEW l, NEW p \in Posts, Crowded(l, p)
  PROVE  Crowded(Kept(l), p)
<1> DEFINE S == Higher(l, p)
<1>1. S \in SUBSET Nat /\ IsFiniteSet(S) /\ Cardinality(S) >= Keep /\ Keep \in Nat
  BY HigherFacts, BoardAssumption DEF Crowded
<1>2. \A q \in S : {r \in S : r > q} = {r \in Posts : r > q /\ l[r] # None}
  BY BoardAssumption DEF Higher
<1>3. Higher(Kept(l), p) = {q \in S : Cardinality({r \in S : r > q}) < Keep}
  <2>1. \A q \in Posts : Kept(l)[q] # None <=>
          l[q] # None /\ Cardinality({r \in Posts : r > q /\ l[r] # None}) < Keep
    BY DEF Kept
  <2>2. \A q \in Posts : q \in Higher(Kept(l), p) <=> q > p /\ Kept(l)[q] # None
    BY DEF Higher
  <2>3. \A q \in Posts : q \in S <=> q > p /\ l[q] # None
    BY DEF Higher
  <2>4. Higher(Kept(l), p) \subseteq Posts /\ S \subseteq Posts
    BY DEF Higher
  <2> HIDE DEF S
  <2> QED BY <1>2, <2>1, <2>2, <2>3, <2>4
<1> HIDE DEF S
<1> QED BY <1>1, <1>3, TopmostAreEnough DEF Crowded

LEMMA MoreCrowded ==
  ASSUME NEW l, NEW k, NEW p \in Posts, Crowded(l, p),
         \A q \in Posts : l[q] # None => k[q] # None
  PROVE  Crowded(k, p)
<1>1. Higher(l, p) \in SUBSET Higher(k, p)
  BY DEF Higher
<1>2. Cardinality(Higher(l, p)) <= Cardinality(Higher(k, p))
  BY <1>1, HigherFacts, FS_Subset
<1> QED BY <1>2, HigherFacts, BoardAssumption DEF Crowded

\* The ledger that counts.
Counts(p) == IF Archiving THEN mem.ledger[p] ELSE ledger[p]

LastCounts ==
  \A p \in Posts :
    last[p] # None => Counts(p) = last[p] \/ p \in unrecorded \/ Crowded(ledger, p)

OnceInv ==
  /\ LastCounts
  /\ Archiving => \A q \in Posts : ledger[q] # None => mem.ledger[q] # None
  /\ Archiving /\ ~mem.saved => mem.ledger = ledger
  /\ pc = "write" => mem.ledger[mem.bundle[1]] # DeliveryKey(mem.bundle[2])

\* A step that leaves the ledgers alone.
LEMMA OnceKept ==
  ASSUME OnceInv, ledger' = ledger, last' = last, unrecorded' = unrecorded,
         Archiving' <=> Archiving,
         Archiving => mem'.ledger = mem.ledger /\ mem'.saved = mem.saved,
         \/ pc' # "write"
         \/ pc = "write" /\ mem'.bundle = mem.bundle
         \/ mem'.ledger[mem'.bundle[1]] # DeliveryKey(mem'.bundle[2])
  PROVE  OnceInv'
<1>1. \A p \in Posts : Counts(p)' = Counts(p)
  BY DEF Counts
<1>2. LastCounts'
  BY <1>1 DEF OnceInv, LastCounts, Crowded, Higher
<1>3. Archiving' => \A q \in Posts : ledger'[q] # None => mem'.ledger[q] # None
  BY DEF OnceInv
<1>4. Archiving' /\ ~mem'.saved => mem'.ledger = ledger'
  BY DEF OnceInv
<1>5. pc' = "write" => mem'.ledger[mem'.bundle[1]] # DeliveryKey(mem'.bundle[2])
  BY DEF OnceInv, Archiving
<1> QED BY <1>2, <1>3, <1>4, <1>5 DEF OnceInv, Archiving

LEMMA OnceOfPublishing ==
  ASSUME TypeOK, OnceInv, PublishReady
  PROVE  OnceInv'
<1> DEFINE p == mem.bundle[1]
           k == DeliveryKey(mem.bundle[2])
<1>1. p \in Posts /\ k # None /\ Archiving /\ pc' = "post" /\ ledger' = ledger
  BY Names DEF PublishReady, TypeOK, InHand, Archiving, Goto
<1>2. /\ mem'.ledger = [mem.ledger EXCEPT ![p] = k] /\ mem'.saved = TRUE
      /\ last' = [last EXCEPT ![p] = k] /\ unrecorded' = unrecorded \ {p}
  BY DEF PublishReady, TypeOK, IsWork
<1>3. mem.ledger \in [Posts -> Keys] /\ last \in [Posts -> Keys]
  BY <1>1 DEF TypeOK, InHand
<1> HIDE DEF p, k
<1>4. /\ mem'.ledger[p] = k /\ last'[p] = k
      /\ \A q \in Posts \ {p} : mem'.ledger[q] = mem.ledger[q] /\ last'[q] = last[q]
  BY <1>1, <1>2, <1>3
<1>5. \A q \in Posts : ledger[q] # None => mem'.ledger[q] # None
  BY <1>1, <1>4 DEF OnceInv
<1>6. Archiving'
  BY <1>1 DEF Archiving
<1>7. LastCounts'
  BY <1>1, <1>2, <1>4, <1>6 DEF OnceInv, LastCounts, Counts, Crowded, Higher
<1> QED BY <1>1, <1>2, <1>5, <1>7 DEF OnceInv

\* A marker that comes late is what was published last, and goes unrecorded unless the ledger
\* has the page already.
LEMMA OnceOfArriving ==
  ASSUME TypeOK, OnceInv, NEW d \in Dirs, NEW file \in Payload(d) \cup {Ready}, Arrives(d, file)
  PROVE  OnceInv'
<1>1. pc' = pc /\ mem' = mem /\ ledger' = ledger
  BY DEF Arrives
<1>2. CASE file # Ready
  <2>1. last' = last /\ unrecorded' = unrecorded
    BY <1>2 DEF Arrives
  <2> QED BY <1>1, <2>1, OnceKept DEF Archiving
<1>3. CASE file = Ready
  <2> DEFINE p == d[1]
             k == DeliveryKey(d[2])
  <2>1. p \in Posts
    BY Names
  <2>2. /\ last' = [last EXCEPT ![p] = k]
        /\ unrecorded' = IF AtWork[p] = k THEN unrecorded \ {p} ELSE unrecorded \cup {p}
    BY <1>3 DEF Arrives
  <2>3. last \in [Posts -> Keys]
    BY DEF TypeOK
  <2> HIDE DEF p, k
  <2>4. last'[p] = k /\ \A q \in Posts \ {p} : last'[q] = last[q]
    BY <2>1, <2>2, <2>3
  <2>5. \A q \in Posts : Counts(q) = AtWork[q]
    BY DEF Counts, AtWork, Archiving
  <2>6. \A q \in Posts : Counts(q)' = Counts(q) /\ (Crowded(ledger, q)' <=> Crowded(ledger, q))
    BY <1>1 DEF Counts, Archiving, Crowded, Higher
  <2>7. p \in unrecorded' \/ Counts(p) = k
    BY <2>1, <2>2, <2>5
  <2>8. \A q \in Posts \ {p} : q \in unrecorded' <=> q \in unrecorded
    BY <2>2
  <2>9. LastCounts'
    BY <1>1, <2>1, <2>4, <2>6, <2>7, <2>8 DEF OnceInv, LastCounts
  <2> QED BY <1>1, <2>9 DEF OnceInv, Archiving
<1> QED BY <1>2, <1>3

LEMMA OnceOfSaving ==
  ASSUME TypeOK, OnceInv, SaveLedger
  PROVE  OnceInv'
<1>1. /\ Archiving /\ ~Archiving' /\ last' = last /\ unrecorded' = unrecorded
      /\ ledger' = IF mem.saved THEN Kept(mem.ledger) ELSE ledger
  BY DEF SaveLedger, Archiving, Goto, bundles
<1>2. ASSUME NEW p \in Posts, last[p] # None, p \notin unrecorded, mem.saved
      PROVE  ledger'[p] = last[p] \/ Crowded(ledger', p)
  <2>1. ledger' = Kept(mem.ledger)
    BY <1>1, <1>2
  <2>2. CASE Crowded(mem.ledger, p)
    BY <2>1, <2>2, StaysCrowded
  <2>3. CASE ~Crowded(mem.ledger, p)
    <3>1. mem.ledger[p] = last[p]
      BY <1>1, <1>2, <2>3, MoreCrowded DEF OnceInv, LastCounts, Counts
    <3>2. Cardinality({q \in Posts : q > p /\ mem.ledger[q] # None}) < Keep
      <4>1. Cardinality(Higher(mem.ledger, p)) \in Nat /\ Keep \in Nat
        BY HigherFacts, BoardAssumption
      <4>2. Cardinality(Higher(mem.ledger, p)) < Keep
        BY <2>3, <4>1 DEF Crowded
      <4> QED BY <4>2 DEF Higher
    <3>3. Kept(mem.ledger)[p] = mem.ledger[p]
      BY <3>2 DEF Kept
    <3> QED BY <2>1, <3>1, <3>3
  <2> QED BY <2>2, <2>3
<1>3. ASSUME NEW p \in Posts, last[p] # None, p \notin unrecorded, ~mem.saved
      PROVE  ledger'[p] = last[p] \/ Crowded(ledger', p)
  BY <1>1, <1>3 DEF OnceInv, LastCounts, Counts
<1>4. LastCounts'
  <2> SUFFICES ASSUME NEW p \in Posts, last[p] # None, p \notin unrecorded
               PROVE  ledger'[p] = last[p] \/ Crowded(ledger', p)
    BY <1>1 DEF LastCounts, Counts, Crowded, Higher
  <2> QED BY <1>2, <1>3
<1> QED BY <1>1, <1>4 DEF OnceInv, Archiving

LEMMA OnceStep ==
  ASSUME TypeOK, OnceInv, [Next]_vars
  PROVE  OnceInv'
<1> USE DEF Goto
<1>1. CASE StartScan \/ FetchList \/ SaveState \/ Release
  BY <1>1, OnceKept DEF StartScan, FetchList, SaveState, Release, Archiving, bundles, Idle
<1>2. CASE Recover \/ RecoverFails \/ Conclude \/ FinishScan
  BY <1>2, OnceKept DEF Recover, RecoverFails, Conclude, FinishScan, Archiving, bundles
<1>3. CASE \E c \in Codes : FetchFails(c)
  BY <1>3, OnceKept DEF FetchFails, Failed, Archiving, bundles
<1>4. CASE \E p \in Posts : Tell(p) \/ TellFails(p)
  BY <1>4, OnceKept DEF Tell, TellFails, Archiving, bundles
<1>5. CASE Killed
  <2>1. /\ ledger' = ledger /\ last' = last /\ ~Archiving' /\ pc' # "write"
        /\ unrecorded' = unrecorded \cup {p \in Posts : AtWork[p] # ledger[p]}
    BY <1>5 DEF Killed, Archiving
  <2>2. ASSUME NEW p \in Posts, p \notin unrecorded'
        PROVE  p \notin unrecorded /\ Counts(p) = ledger[p]
    BY <2>1, <2>2 DEF Counts, AtWork, Archiving
  <2>3. \A p \in Posts : Counts(p)' = ledger[p]
    BY <2>1 DEF Counts
  <2>4. LastCounts'
    BY <2>1, <2>2, <2>3 DEF OnceInv, LastCounts, Crowded, Higher
  <2> QED BY <2>1, <2>4 DEF OnceInv
<1>6. CASE ReadHidden
  <2>1. pc = "hidden" /\ ledger' = ledger /\ last' = last /\ unrecorded' = unrecorded
    BY <1>6 DEF ReadHidden, bundles
  <2>2. CASE pc' = "save"
    BY <2>1, <2>2, OnceKept DEF Archiving
  <2>3. CASE pc' = "post" /\ mem'.ledger = ledger
    <3>1. LastCounts'
      BY <2>1, <2>3 DEF OnceInv, LastCounts, Counts, Archiving, Crowded, Higher
    <3> QED BY <2>1, <2>3, <3>1 DEF OnceInv
  <2>4. pc' = "save" \/ (pc' = "post" /\ mem'.ledger = ledger)
    BY <1>6 DEF ReadHidden, Failed, TypeOK, IsWork
  <2> QED BY <2>2, <2>3, <2>4
<1>7. CASE FetchPost
  <2>1. pc = "post" /\ ledger' = ledger /\ last' = last /\ unrecorded' = unrecorded
    BY <1>7 DEF FetchPost, bundles
  <2>2. mem'.ledger = mem.ledger /\ mem'.saved = mem.saved
    BY <1>7 DEF FetchPost, NextPost, TypeOK, IsWork
  <2>3. CASE pc' = "write"
    <3> DEFINE d == <<Head(mem.todo), detail[Head(mem.todo)]>>
    <3>1. /\ mem' = [mem EXCEPT !.bundle = d, !.left = Downloads(d[2])]
          /\ mem.ledger[d[1]] # DeliveryKey(d[2])
      BY <1>7, <2>1, <2>3 DEF FetchPost, Delivered, Downloads
    <3> HIDE DEF d
    <3>2. mem'.bundle = d
      BY <3>1 DEF TypeOK, IsWork
    <3> QED BY <2>1, <2>2, <2>3, <3>1, <3>2, OnceKept DEF Archiving
  <2>4. CASE pc' = "post"
    BY <2>1, <2>2, <2>4, OnceKept DEF Archiving
  <2> QED BY <1>7, <2>1, <2>3, <2>4 DEF FetchPost
<1>8. CASE PostFails \/ WriteFile \/ DownloadFails
  <2>1. /\ Archiving /\ Archiving' /\ ledger' = ledger
        /\ last' = last /\ unrecorded' = unrecorded
        /\ pc' = "post" \/ (pc = "write" /\ mem'.bundle = mem.bundle)
    BY <1>8 DEF PostFails, WriteFile, DownloadFails, Archiving, bundles, TypeOK, IsWork
  <2>2. mem'.ledger = mem.ledger /\ mem'.saved = mem.saved
    BY <1>8 DEF PostFails, WriteFile, DownloadFails, NextPost, TypeOK, IsWork
  <2> QED BY <2>1, <2>2, OnceKept
<1>9. CASE \E d \in Dirs : \E file \in Payload(d) \cup {Ready} : Arrives(d, file)
  BY <1>9, OnceOfArriving
<1>10. CASE (Popup \/ Environment) /\ UNCHANGED <<last, unrecorded>>
  BY <1>10, Aside, OnceKept DEF Archiving
<1>11. CASE UNCHANGED vars
  BY <1>11, OnceKept DEF vars, bundles, Archiving
<1>12. Popup \/ Environment =>
         \/ UNCHANGED <<last, unrecorded>>
         \/ \E d \in Dirs : \E file \in Payload(d) \cup {Ready} : Arrives(d, file)
  BY DEF Popup, Environment, ClickMute, ClickBlock, ToggleBoard, SaveForm, DeleteBoard,
         SaveSettings, WriteMute, DropState, ListChanges, PostChanges, Collect, bundles
<1> QED BY <1>1, <1>2, <1>3, <1>4, <1>5, <1>6, <1>7, <1>8, <1>9, <1>10, <1>11, <1>12,
          OnceOfPublishing, OnceOfSaving DEF Next, Scan

\* A scan publishes the page that was published last only where KEEP or more posts with a
\* higher number are in the ledger, or where the ledger never learned of the last time: the
\* marker came late, or the worker was stopped before it saved the ledger.
\* (archiver.js: the ledger, KEEP and deliveryContent)
THEOREM PagesAreDeliveredOnce == Spec => DeliveredOnce
<1> DEFINE Once == \A p \in Posts :
                     Delivers(p) /\ last[p] = DeliveryKey(mem.bundle[2]) /\ p \notin unrecorded
                       => Cardinality({q \in Posts : q > p /\ ledger[q] # None}) >= Keep
<1>1. Init => OnceInv
  BY DEF Init, OnceInv, LastCounts, Archiving
<1>2. ASSUME TypeOK, OnceInv
      PROVE  Once
  <2> SUFFICES ASSUME NEW p \in Posts, Delivers(p), last[p] = DeliveryKey(mem.bundle[2]),
                      p \notin unrecorded
               PROVE  Crowded(ledger, p)
    BY DEF Crowded, Higher
  <2>1. pc = "write" /\ mem.bundle[1] = p /\ mem.bundle \in Dirs
    <3>1. pc = "write" /\ mem.bundle[1] = p
      BY DEF Delivers
    <3> QED BY <1>2, <3>1 DEF TypeOK, InHand
  <2>2. last[p] # None
    BY <2>1, Names
  <2>3. mem.ledger[p] # last[p]
    BY <1>2, <2>1 DEF OnceInv
  <2> QED BY <1>2, <2>1, <2>2, <2>3 DEF OnceInv, LastCounts, Counts, Archiving
<1>3. TypeOK /\ OnceInv => [Once]_vars
  BY <1>2
<1> QED BY <1>1, <1>3, OnceStep, TypesHold, PTL DEF Spec, DeliveredOnce
=============================================================================
