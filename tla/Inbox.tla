-------------------------------- MODULE Inbox --------------------------------
(***************************************************************************)
(* From the Downloads directory into the Core: automation/inbox and        *)
(* inbox_runner.                                                           *)
(*                                                                         *)
(* The browser leaves bundles (captured posts and observations of a        *)
(* source) in Downloads, each complete once its _READY marker is there.    *)
(* Runners accept them: validate, claim, copy, publish with one rename,    *)
(* remove the source, release the claim, and hand the accepted copy over.  *)
(* A runner may die between any two steps; it starts again with the next   *)
(* pass.  Nothing but a pass of a runner ever looks into Downloads.        *)
(*                                                                         *)
(* A claim is a locked file.  Its name is removed after the lock has been  *)
(* given back, so a runner that had opened the file may lock it although   *)
(* it has no name any more, while another creates and locks a new one: the *)
(* model has the files a name has led to (inodes) and does not assume that *)
(* claims exclude each other.                                              *)
(***************************************************************************)
EXTENDS Naturals, FiniteSets

CONSTANTS
  Runners,        \* processes of inbox_runner
  Bundles,        \* directories that appear in Downloads
  Observations,   \* those that are observations of a source
  IdOf,           \* bundle -> capture_id or observation_id
  ContentOf,      \* bundle -> its declared files
  TaskOf,         \* bundle -> the task it captures, or reports as completed
  None,           \* nothing accepted; an observation without a task
  MaxFaults       \* bound: crashes, failed copies and failed removals

Ids      == {IdOf[b] : b \in Bundles}
Contents == {ContentOf[b] : b \in Bundles}
Tasks    == {TaskOf[b] : b \in Bundles} \ {None}
Inodes   == 1..(Cardinality(Runners) + 1)

ASSUME InboxAssumption ==
  /\ Observations \subseteq Bundles
  /\ IsFiniteSet(Runners)
  /\ None \notin Contents
  /\ \A b \in Bundles \ Observations : TaskOf[b] # None
  /\ MaxFaults \in Nat

VARIABLES
  source,         \* the bundle in Downloads
  inbox,          \* id -> the accepted content
  name,           \* id -> the inode its claim file has, 0 if there is none
  tasks,          \* tasks the pipeline has stored
  recorded,       \* observations in the event log
  pc, mem,        \* control point and local variables of every runner
  faults

vars == <<source, inbox, name, tasks, recorded, pc, mem, faults>>

Sources == {"absent", "whole", "partial", "gone"}
Points  == {"idle", "claim", "lock", "look", "copy", "publish", "remove", "removing",
            "unlock", "unlink", "handover"}
Locked  == {"look", "copy", "publish", "remove", "removing", "unlock"}
Work    == [bundle : Bundles \cup {None}, inode : Inodes \cup {0}, accepted : BOOLEAN]

TypeOK ==
  /\ source \in [Bundles -> Sources]
  /\ inbox \in [Ids -> Contents \cup {None}]
  /\ name \in [Ids -> Inodes \cup {0}]
  /\ tasks \subseteq Tasks
  /\ recorded \subseteq Observations
  /\ pc \in [Runners -> Points]
  /\ mem \in [Runners -> Work]
  /\ faults \in 0..MaxFaults

NoWork == [bundle |-> None, inode |-> 0, accepted |-> FALSE]

Init ==
  /\ source = [b \in Bundles |-> "absent"]
  /\ inbox = [i \in Ids |-> None]
  /\ name = [i \in Ids |-> 0]
  /\ tasks = {} /\ recorded = {}
  /\ pc = [r \in Runners |-> "idle"]
  /\ mem = [r \in Runners |-> NoWork]
  /\ faults = 0

Goto(r, p) == pc' = [pc EXCEPT ![r] = p]
Leave(r)   == Goto(r, "idle") /\ mem' = [mem EXCEPT ![r] = NoWork]
Id(r)      == IdOf[mem[r].bundle]
Content(r) == ContentOf[mem[r].bundle]

\* The browser writes the marker last.
Deliver(b) ==
  /\ source[b] = "absent"
  /\ source' = [source EXCEPT ![b] = "whole"]
  /\ UNCHANGED <<inbox, name, tasks, recorded, pc, mem, faults>>

(***************************************************************************)
(* accept_completed_download, accept_source_observation.                   *)
(***************************************************************************)
\* A bundle that is not complete is left alone.
Pick(r, b) ==
  /\ pc[r] = "idle"
  /\ source[b] = "whole"
  /\ Goto(r, "claim")
  /\ mem' = [mem EXCEPT ![r] = [NoWork EXCEPT !.bundle = b]]
  /\ UNCHANGED <<source, inbox, name, tasks, recorded, faults>>

\* The claim file is opened, and created if it has no name.
FreshInode(i) ==
  CHOOSE n \in Inodes : \A r \in Runners : ~(mem[r].inode = n /\ Id(r) = i)

\* mutant: created exclusively, so that a claim file left behind refuses everybody
OpenExclusive(r) ==
  /\ pc[r] = "claim"
  /\ IF name[Id(r)] = 0
     THEN LET n == FreshInode(Id(r)) IN
          /\ name' = [name EXCEPT ![Id(r)] = n]
          /\ mem' = [mem EXCEPT ![r].inode = n]
          /\ Goto(r, "lock")
     ELSE Leave(r) /\ UNCHANGED name
  /\ UNCHANGED <<source, inbox, tasks, recorded, faults>>

OpenClaim(r) ==
  /\ pc[r] = "claim"
  /\ LET n == IF name[Id(r)] = 0 THEN FreshInode(Id(r)) ELSE name[Id(r)] IN
     /\ name' = [name EXCEPT ![Id(r)] = n]
     /\ mem' = [mem EXCEPT ![r].inode = n]
  /\ Goto(r, "lock")
  /\ UNCHANGED <<source, inbox, tasks, recorded, faults>>

\* flock, without waiting.
LockFree(r) ==
  \A q \in Runners :
    ~(q # r /\ pc[q] \in Locked /\ Id(q) = Id(r) /\ mem[q].inode = mem[r].inode)

TryLock(r) ==
  /\ pc[r] = "lock"
  /\ IF LockFree(r) THEN Goto(r, "look") /\ UNCHANGED mem ELSE Leave(r)
  /\ UNCHANGED <<source, inbox, name, tasks, recorded, faults>>

\* What is there already must be the same, file by file.
\* (mutant: the id is enough)
IdIsAccepted(r) == inbox[Id(r)] # None

SameAsAccepted(r) == source[mem[r].bundle] = "whole" /\ inbox[Id(r)] = Content(r)

Look(r) ==
  /\ pc[r] = "look"
  /\ Goto(r, IF inbox[Id(r)] = None THEN "copy"
             ELSE IF SameAsAccepted(r) THEN "remove" ELSE "unlock")
  /\ UNCHANGED <<source, inbox, name, tasks, recorded, mem, faults>>

\* The copy is validated and compared with the source again; it may also fail.
Copy(r) ==
  /\ pc[r] = "copy"
  /\ Goto(r, IF source[mem[r].bundle] = "whole" THEN "publish" ELSE "unlock")
  /\ UNCHANGED <<source, inbox, name, tasks, recorded, mem, faults>>

FailCopy(r) ==
  /\ pc[r] = "copy"
  /\ faults < MaxFaults
  /\ faults' = faults + 1
  /\ Goto(r, "unlock")
  /\ UNCHANGED <<source, inbox, name, tasks, recorded, mem>>

\* os.replace: the name of a directory that is not empty cannot be taken.
\* (mutant: the copy replaces what is there)
AlwaysReplaceable(r) == TRUE

Replaceable(r) == inbox[Id(r)] = None

Publish(r) ==
  /\ pc[r] = "publish"
  /\ IF Replaceable(r)
     THEN inbox' = [inbox EXCEPT ![Id(r)] = Content(r)] /\ Goto(r, "remove")
     ELSE Goto(r, "unlock") /\ UNCHANGED inbox
  /\ UNCHANGED <<source, name, tasks, recorded, mem, faults>>

\* rmtree removes file by file, and gives up at the first file it cannot remove: one that
\* somebody else has removed, or one that is held open.  Nobody hears of it (_remove_tree), so
\* the copy is handed over although the source is still there, whole or in part.
BeginRemove(r) ==
  /\ pc[r] = "remove"
  /\ source' = [source EXCEPT ![mem[r].bundle] = IF @ = "whole" THEN "partial" ELSE @]
  /\ mem' = [mem EXCEPT ![r].accepted = TRUE]
  /\ Goto(r, "removing")
  /\ UNCHANGED <<inbox, name, tasks, recorded, faults>>

AlsoRemoving(r) ==
  \E q \in Runners : q # r /\ pc[q] = "removing" /\ mem[q].bundle = mem[r].bundle

EndRemove(r) ==
  /\ pc[r] = "removing"
  /\ \/ source' = [source EXCEPT ![mem[r].bundle] = "gone"]
     \/ AlsoRemoving(r) /\ UNCHANGED source
  /\ Goto(r, "unlock")
  /\ UNCHANGED <<inbox, name, tasks, recorded, mem, faults>>

FailRemove(r) ==
  /\ pc[r] \in {"remove", "removing"}
  /\ faults < MaxFaults
  /\ faults' = faults + 1
  /\ mem' = [mem EXCEPT ![r].accepted = TRUE]
  /\ Goto(r, "unlock")
  /\ UNCHANGED <<source, inbox, name, tasks, recorded>>

\* _release_claim: the lock first, the name (whichever file it is of by now) later.
Unlock(r) ==
  /\ pc[r] = "unlock"
  /\ Goto(r, "unlink")
  /\ UNCHANGED <<source, inbox, name, tasks, recorded, mem, faults>>

Unlink(r) ==
  /\ pc[r] = "unlink"
  /\ name' = [name EXCEPT ![Id(r)] = 0]
  /\ IF mem[r].accepted
     THEN Goto(r, "handover") /\ mem' = [mem EXCEPT ![r].inode = 0]
     ELSE Leave(r)
  /\ UNCHANGED <<source, inbox, tasks, recorded, faults>>

(***************************************************************************)
(* process_inbox: the pipeline, or ingest_source_observation.              *)
(***************************************************************************)
\* The pipeline stores the task, or fails.
RunPipeline(r) ==
  /\ pc[r] = "handover" /\ mem[r].bundle \notin Observations
  /\ \/ tasks' = tasks \cup {TaskOf[mem[r].bundle]}
     \/ UNCHANGED tasks
  /\ Leave(r)
  /\ UNCHANGED <<source, inbox, name, recorded, faults>>

\* A completion is bound to a stored task; an error or a recovery needs none.
Recordable(b) == TaskOf[b] = None \/ TaskOf[b] \in tasks

Ingest(r) ==
  /\ pc[r] = "handover" /\ mem[r].bundle \in Observations
  /\ recorded' = IF Recordable(mem[r].bundle) THEN recorded \cup {mem[r].bundle} ELSE recorded
  /\ Leave(r)
  /\ UNCHANGED <<source, inbox, name, tasks, faults>>

Crash(r) ==
  /\ pc[r] # "idle"
  /\ faults < MaxFaults
  /\ faults' = faults + 1
  /\ Leave(r)
  /\ UNCHANGED <<source, inbox, name, tasks, recorded>>

-----------------------------------------------------------------------------
Accept(r) ==
  \/ OpenClaim(r) \/ TryLock(r) \/ Look(r) \/ Copy(r) \/ Publish(r)
  \/ BeginRemove(r) \/ EndRemove(r) \/ Unlock(r) \/ Unlink(r)

HandOver(r) == RunPipeline(r) \/ Ingest(r)

Next ==
  \/ \E b \in Bundles : Deliver(b)
  \/ \E r \in Runners :
       \/ \E b \in Bundles : Pick(r, b)
       \/ Accept(r) \/ FailCopy(r) \/ FailRemove(r) \/ HandOver(r) \/ Crash(r)

Spec == Init /\ [][Next]_vars

\* A runner goes on, and every pass turns to every bundle it can accept.  With MaxFaults
\* this also says that a copy and a removal succeed in the end.
Fairness ==
  \A r \in Runners : WF_vars(Accept(r) \/ HandOver(r)) /\ \A b \in Bundles : SF_vars(Pick(r, b))

FairSpec == Spec /\ Fairness

-----------------------------------------------------------------------------
\* Whatever runners do at the same time and wherever they die, a bundle is removed
\* from Downloads only when exactly its content has been accepted.
NothingIsLost ==
  \A b \in Bundles : source[b] \in {"partial", "gone"} => inbox[IdOf[b]] = ContentOf[b]

\* What is handed over to the pipeline or the event log as this bundle is this bundle,
\* also when another one with the same id was accepted at the same time.
HandedOverIsTheBundle ==
  \A r \in Runners : pc[r] = "handover" => inbox[Id(r)] = Content(r)

\* An accepted bundle never changes ("conflicting duplicate is not overwritten",
\* test_inbox.py:102), even while two runners hold a claim of its id.
AcceptedNeverChanges == [][\A i \in Ids : inbox[i] # None => inbox'[i] = inbox[i]]_inbox

\* A bundle whose removal has begun counts as taken; claims and copies are not seen.
Seen == [b \in Bundles |-> IF source[b] \in {"partial", "gone"} THEN "taken" ELSE source[b]]

A == INSTANCE Acceptance WITH source <- Seen

\* Runners that overlap, are refused, die and fail to remove accept every bundle as if in one
\* step, and take away and hand over only what is accepted ("Atomically accept one complete
\* extension bundle", accept_completed_download, inbox.py:197).  A bundle that cannot be
\* removed is handed over all the same, and again with each pass.
AcceptedAtOnce == A!Spec

\* A complete bundle leaves Downloads in the end, unless another one with its id and
\* other content has been accepted or waits beside it: neither a claim file left by a
\* dead runner nor one that others open and unlink keeps it there for ever.  A file that
\* can never be removed would: removals fail MaxFaults times at most.
Rivalled(b) ==
  \/ inbox[IdOf[b]] \notin {None, ContentOf[b]}
  \/ \E d \in Bundles :
       IdOf[d] = IdOf[b] /\ ContentOf[d] # ContentOf[b] /\ source[d] = "whole"

WholeIsTaken ==
  \A b \in Bundles : source[b] = "whole" ~> source[b] # "whole" \/ Rivalled(b)
=============================================================================
