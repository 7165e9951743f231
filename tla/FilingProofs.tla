---------------------------- MODULE FilingProofs ----------------------------
(***************************************************************************)
(* Proofs about Inbox, for any number of runners, bundles and faults, and  *)
(* about Preparation, for any number of processes, versions and edits: in  *)
(* both, what a process has put into a shared directory stays.             *)
(*                                                                         *)
(* Nothing is said of who has a claim of a bundle: the arguments rest on   *)
(* the rename, which takes only a free name, and on the comparison with    *)
(* what is there.  So they hold although two runners may have a claim of   *)
(* one id.                                                                 *)
(*                                                                         *)
(* What a preparation concludes is proved for any attachment, recipe,      *)
(* project and query.  Its operators go through their data in recursive    *)
(* functions and in folds; a fact about every stage of one is proved by    *)
(* its first counterexample, and that there is such a function at all by   *)
(* the first stage without one.                                            *)
(***************************************************************************)
EXTENDS Inbox, Preparation, FiniteSetTheorems, WellFoundedInduction, TLAPS

\* A runner that is busy is busy with a bundle.
BusyInv == \A r \in Runners : pc[r] # "idle" => mem[r].bundle \in Bundles
TypeInv == TypeOK /\ BusyInv

-----------------------------------------------------------------------------
\* There is always a file that nobody has open: one more than there are runners.
LEMMA FreshExists ==
  ASSUME TypeOK, NEW i
  PROVE  FreshInode(i) \in Inodes
<1> DEFINE Open == {mem[r].inode : r \in Runners}
           f == [r \in Runners |-> mem[r].inode]
<1>1. IsFiniteSet(Open) /\ Cardinality(Open) <= Cardinality(Runners)
  <2>1. f \in Surjection(Runners, Open)
    BY DEF Surjection
  <2> QED
    BY <2>1, FS_Surjection, InboxAssumption
<1>2. Cardinality(Runners) \in Nat
  BY FS_CardinalityType, InboxAssumption
<1>3. Cardinality(Inodes) = Cardinality(Runners) + 1
  BY <1>2, FS_Interval DEF Inodes
<1>4. ~ (Inodes \subseteq Open)
  <2> SUFFICES ASSUME Inodes \subseteq Open
               PROVE  FALSE
    OBVIOUS
  <2>1. Cardinality(Inodes) <= Cardinality(Open)
    BY <1>1, FS_Subset
  <2>2. Cardinality(Open) \in Nat
    BY <1>1, FS_CardinalityType
  <2> QED
    BY <1>1, <1>2, <1>3, <2>1, <2>2
<1>5. PICK n \in Inodes : n \notin Open
  BY <1>4
<1>6. \A r \in Runners : ~(mem[r].inode = n /\ Id(r) = i)
  BY <1>5
<1> QED
  BY <1>6 DEF FreshInode

\* What a step does to one runner and leaves to the others.
LEMMA MoveTypes ==
  ASSUME TypeInv, NEW r \in Runners, NEW p \in Points, NEW m \in Work,
         pc' = [pc EXCEPT ![r] = p], mem' = [mem EXCEPT ![r] = m],
         p # "idle" => m.bundle \in Bundles
  PROVE  /\ pc' \in [Runners -> Points]
         /\ mem' \in [Runners -> Work]
         /\ BusyInv'
BY DEF TypeInv, TypeOK, BusyInv

LEMMA LeaveTypes ==
  ASSUME TypeInv, NEW r \in Runners, Leave(r)
  PROVE  /\ pc' \in [Runners -> Points]
         /\ mem' \in [Runners -> Work]
         /\ BusyInv'
<1>1. NoWork \in Work /\ "idle" \in Points
  BY DEF NoWork, Work, Points
<1> QED
  BY <1>1, MoveTypes DEF Leave, Goto

LEMMA GotoTypes ==
  ASSUME TypeInv, NEW r \in Runners, NEW p \in Points, Goto(r, p), mem' = mem, pc[r] # "idle"
  PROVE  /\ pc' \in [Runners -> Points]
         /\ mem' \in [Runners -> Work]
         /\ BusyInv'
BY DEF TypeInv, TypeOK, BusyInv, Goto

LEMMA Types ==
  ASSUME TypeInv, [Next]_vars
  PROVE  TypeInv'
<1> DEFINE Moved == pc' \in [Runners -> Points] /\ mem' \in [Runners -> Work] /\ BusyInv'
<1> USE DEF TypeInv
<1>1. ASSUME NEW b \in Bundles, Deliver(b)
      PROVE  TypeInv'
  BY <1>1 DEF Deliver, TypeOK, BusyInv, Sources
<1>2. ASSUME NEW r \in Runners, NEW b \in Bundles, Pick(r, b)
      PROVE  TypeInv'
  <2> DEFINE m == [NoWork EXCEPT !.bundle = b]
  <2>1. m \in Work /\ m.bundle \in Bundles /\ "claim" \in Points
    BY DEF NoWork, Work, Points
  <2>2. Moved
    <3> HIDE DEF m
    <3> QED  BY <1>2, <2>1, MoveTypes DEF Pick, Goto, m
  <2> QED
    BY <1>2, <2>2 DEF Pick, TypeOK
<1>3. ASSUME NEW r \in Runners, OpenClaim(r)
      PROVE  TypeInv'
  <2> DEFINE n == IF name[Id(r)] = 0 THEN FreshInode(Id(r)) ELSE name[Id(r)]
             m == [mem[r] EXCEPT !.inode = n]
  <2>1. mem[r].bundle \in Bundles /\ Id(r) \in Ids
    BY <1>3 DEF OpenClaim, BusyInv, Id, Ids
  <2>2. n \in Inodes
    BY <2>1, FreshExists DEF TypeOK
  <2>3. m \in Work /\ m.bundle \in Bundles
    <3> HIDE DEF n
    <3> QED  BY <2>1, <2>2 DEF TypeOK, Work
  <2>4. pc' = [pc EXCEPT ![r] = "lock"] /\ mem' = [mem EXCEPT ![r] = m] /\ "lock" \in Points
    BY <1>3 DEF OpenClaim, Goto, Points
  <2>5. Moved
    <3> HIDE DEF m
    <3> QED  BY <2>3, <2>4, MoveTypes
  <2>6. name' \in [Ids -> Inodes \cup {0}]
    <3>1. name' = [name EXCEPT ![Id(r)] = n]
      BY <1>3 DEF OpenClaim
    <3> HIDE DEF n
    <3> QED  BY <2>1, <2>2, <3>1 DEF TypeOK
  <2> QED
    BY <1>3, <2>5, <2>6 DEF OpenClaim, TypeOK
<1>4. ASSUME NEW r \in Runners, TryLock(r)
      PROVE  TypeInv'
  <2>1. Moved
    <3>1. CASE LockFree(r)
      BY <1>4, <3>1, GotoTypes DEF TryLock, Points
    <3>2. CASE ~LockFree(r)
      BY <1>4, <3>2, LeaveTypes DEF TryLock
    <3> QED  BY <3>1, <3>2
  <2> QED
    BY <1>4, <2>1 DEF TryLock, TypeOK
<1>5. ASSUME NEW r \in Runners, Look(r) \/ Copy(r) \/ FailCopy(r) \/ Unlock(r)
      PROVE  TypeInv'
  <2>1. PICK p \in Points : Goto(r, p)
    BY <1>5 DEF Look, Copy, FailCopy, Unlock, Points
  <2>2. Moved
    BY <1>5, <2>1, GotoTypes DEF Look, Copy, FailCopy, Unlock
  <2>3. faults' \in 0..MaxFaults
    BY <1>5, InboxAssumption DEF Look, Copy, FailCopy, Unlock, TypeOK
  <2> QED
    BY <1>5, <2>2, <2>3 DEF Look, Copy, FailCopy, Unlock, TypeOK
<1>6. ASSUME NEW r \in Runners, Publish(r)
      PROVE  TypeInv'
  <2>1. PICK p \in Points : Goto(r, p)
    BY <1>6 DEF Publish, Points
  <2>2. Moved
    BY <1>6, <2>1, GotoTypes DEF Publish
  <2>3. mem[r].bundle \in Bundles
    BY <1>6 DEF Publish, BusyInv
  <2>4. Id(r) \in Ids /\ Content(r) \in Contents
    BY <2>3 DEF Id, Ids, Content, Contents
  <2>5. inbox' \in [Ids -> Contents \cup {None}]
    BY <1>6, <2>4 DEF Publish, TypeOK
  <2> QED
    BY <1>6, <2>2, <2>5 DEF Publish, TypeOK
<1>7. ASSUME NEW r \in Runners, BeginRemove(r)
      PROVE  TypeInv'
  <2> DEFINE m == [mem[r] EXCEPT !.accepted = TRUE]
  <2>1. m \in Work /\ m.bundle \in Bundles /\ "removing" \in Points
    BY <1>7 DEF BeginRemove, BusyInv, TypeOK, Work, Points
  <2>2. pc' = [pc EXCEPT ![r] = "removing"] /\ mem' = [mem EXCEPT ![r] = m]
    BY <1>7 DEF BeginRemove, Goto
  <2>3. Moved
    <3> HIDE DEF m
    <3> QED  BY <2>1, <2>2, MoveTypes
  <2>4. source' \in [Bundles -> Sources]
    BY <1>7 DEF BeginRemove, TypeOK, Sources
  <2> QED
    BY <1>7, <2>3, <2>4 DEF BeginRemove, TypeOK
<1>8. ASSUME NEW r \in Runners, EndRemove(r)
      PROVE  TypeInv'
  <2>1. Moved
    BY <1>8, GotoTypes DEF EndRemove, Points
  <2>2. source' \in [Bundles -> Sources]
    BY <1>8 DEF EndRemove, TypeOK, Sources
  <2> QED
    BY <1>8, <2>1, <2>2 DEF EndRemove, TypeOK
<1>9. ASSUME NEW r \in Runners, Unlink(r)
      PROVE  TypeInv'
  <2>1. mem[r].bundle \in Bundles
    BY <1>9 DEF Unlink, BusyInv
  <2>2. Moved
    <3>1. CASE mem[r].accepted
      <4> DEFINE m == [mem[r] EXCEPT !.inode = 0]
      <4>1. m \in Work /\ m.bundle \in Bundles /\ "handover" \in Points
        BY <2>1 DEF TypeOK, Work, Points
      <4>2. pc' = [pc EXCEPT ![r] = "handover"] /\ mem' = [mem EXCEPT ![r] = m]
        BY <1>9, <3>1 DEF Unlink, Goto
      <4> HIDE DEF m
      <4> QED  BY <4>1, <4>2, MoveTypes
    <3>2. CASE ~mem[r].accepted
      BY <1>9, <3>2, LeaveTypes DEF Unlink
    <3> QED  BY <3>1, <3>2
  <2>3. name' \in [Ids -> Inodes \cup {0}]
    BY <1>9 DEF Unlink, TypeOK
  <2> QED
    BY <1>9, <2>2, <2>3 DEF Unlink, TypeOK
<1>10. ASSUME NEW r \in Runners, HandOver(r)
       PROVE  TypeInv'
  <2>1. mem[r].bundle \in Bundles
    BY <1>10 DEF HandOver, RunPipeline, Ingest, BusyInv
  <2>2. Moved
    BY <1>10, LeaveTypes DEF HandOver, RunPipeline, Ingest
  <2>3. tasks' \subseteq Tasks
    BY <1>10, <2>1, InboxAssumption DEF HandOver, RunPipeline, Ingest, Tasks, TypeOK
  <2>4. recorded' \subseteq Observations
    BY <1>10 DEF HandOver, RunPipeline, Ingest, TypeOK
  <2> QED
    BY <1>10, <2>2, <2>3, <2>4 DEF HandOver, RunPipeline, Ingest, TypeOK
<1>11. ASSUME NEW r \in Runners, Crash(r)
       PROVE  TypeInv'
  <2>1. Moved
    BY <1>11, LeaveTypes DEF Crash
  <2>2. faults' \in 0..MaxFaults
    BY <1>11, InboxAssumption DEF Crash, TypeOK
  <2> QED
    BY <1>11, <2>1, <2>2 DEF Crash, TypeOK
<1>12. ASSUME NEW r \in Runners, FailRemove(r)
       PROVE  TypeInv'
  <2> DEFINE m == [mem[r] EXCEPT !.accepted = TRUE]
  <2>1. m \in Work /\ m.bundle \in Bundles /\ "unlock" \in Points
    BY <1>12 DEF FailRemove, BusyInv, TypeOK, Work, Points
  <2>2. pc' = [pc EXCEPT ![r] = "unlock"] /\ mem' = [mem EXCEPT ![r] = m]
    BY <1>12 DEF FailRemove, Goto
  <2>3. Moved
    <3> HIDE DEF m
    <3> QED  BY <2>1, <2>2, MoveTypes
  <2>4. faults' \in 0..MaxFaults
    BY <1>12, InboxAssumption DEF FailRemove, TypeOK
  <2> QED
    BY <1>12, <2>3, <2>4 DEF FailRemove, TypeOK
<1>13. CASE UNCHANGED vars
  BY <1>13 DEF vars, TypeOK, BusyInv
<1> QED
  BY <1>1, <1>2, <1>3, <1>4, <1>5, <1>6, <1>7, <1>8, <1>9, <1>10, <1>11, <1>12, <1>13
     DEF Next, Accept

LEMMA InitTypes == Init => TypeInv
BY InboxAssumption DEF Init, TypeInv, TypeOK, BusyInv, NoWork, Work, Points, Sources

\* Every file, every bundle and the work of every runner keep their types (the checks
\* and early returns of accept_completed_download and ingest_source_observation).
THEOREM TypeCorrect == Spec => []TypeOK
<1>1. TypeInv => TypeOK
  BY DEF TypeInv
<1> QED
  BY InitTypes, Types, <1>1, PTL DEF Spec
-----------------------------------------------------------------------------
\* What a runner that goes on to remove the source or to hand over has found or left
\* in the inbox is its own bundle.
Settled(m, p, I) ==
  /\ p = "idle" => m = NoWork
  /\ p \in {"remove", "removing"} \/ m.accepted => I[IdOf[m.bundle]] = ContentOf[m.bundle]
  /\ p = "handover" => m.accepted

SettledInv == \A r \in Runners : Settled(mem[r], pc[r], inbox)
Inv == TypeInv /\ SettledInv /\ NothingIsLost

\* Only a rename changes the inbox, and it takes only a free name.
LEMMA InboxKeeps ==
  ASSUME TypeInv, [Next]_vars
  PROVE  \A i \in Ids : inbox[i] # None => inbox'[i] = inbox[i]
<1>1. ASSUME NEW r \in Runners, Publish(r), Replaceable(r)
      PROVE  \A i \in Ids : inbox[i] # None => inbox'[i] = inbox[i]
  BY <1>1 DEF Publish, Replaceable, TypeInv, TypeOK
<1>2. ASSUME NEW r \in Runners, Publish(r), ~Replaceable(r)
      PROVE  inbox' = inbox
  BY <1>2 DEF Publish
<1>3. ASSUME NEW r \in Runners, Accept(r) \/ FailCopy(r), ~Publish(r)
      PROVE  inbox' = inbox
  BY <1>3 DEF Accept, OpenClaim, TryLock, Look, Copy, FailCopy, BeginRemove, EndRemove,
     Unlock, Unlink
<1>4. ASSUME NEW r \in Runners,
             FailRemove(r) \/ HandOver(r) \/ Crash(r) \/ (\E b \in Bundles : Pick(r, b))
      PROVE  inbox' = inbox
  BY <1>4 DEF FailRemove, HandOver, RunPipeline, Ingest, Crash, Pick
<1>5. ASSUME NEW b \in Bundles, Deliver(b)
      PROVE  inbox' = inbox
  BY <1>5 DEF Deliver
<1>6. CASE UNCHANGED vars
  BY <1>6 DEF vars
<1> QED
  BY <1>1, <1>2, <1>3, <1>4, <1>5, <1>6 DEF Next

\* An accepted bundle stays: what was true of it remains true.
LEMMA ContentStays ==
  ASSUME TypeInv, [Next]_vars, NEW b \in Bundles, inbox[IdOf[b]] = ContentOf[b]
  PROVE  inbox'[IdOf[b]] = ContentOf[b]
<1>1. IdOf[b] \in Ids /\ ContentOf[b] # None
  BY InboxAssumption DEF Ids, Contents
<1> QED
  BY <1>1, InboxKeeps

\* A step of one runner leaves the others settled.
LEMMA OthersSettled ==
  ASSUME Inv, [Next]_vars, NEW r \in Runners, NEW p \in Points, NEW m \in Work,
         pc' = [pc EXCEPT ![r] = p], mem' = [mem EXCEPT ![r] = m],
         Settled(m, p, inbox')
  PROVE  SettledInv'
<1> SUFFICES ASSUME NEW q \in Runners
             PROVE  Settled(mem'[q], pc'[q], inbox')
  BY DEF SettledInv
<1>1. CASE q = r
  BY <1>1 DEF Inv, TypeInv, TypeOK
<1>2. CASE q # r
  <2>1. mem'[q] = mem[q] /\ pc'[q] = pc[q]
    BY <1>2 DEF Inv, TypeInv, TypeOK
  <2>2. Settled(mem[q], pc[q], inbox)
    BY DEF Inv, SettledInv
  <2>3. CASE pc[q] = "idle"
    BY <2>1, <2>2, <2>3 DEF Settled, NoWork
  <2>4. CASE pc[q] # "idle"
    <3>1. mem[q].bundle \in Bundles
      BY <2>4 DEF Inv, TypeInv, BusyInv
    <3>2. inbox[IdOf[mem[q].bundle]] = ContentOf[mem[q].bundle]
          => inbox'[IdOf[mem[q].bundle]] = ContentOf[mem[q].bundle]
      BY <3>1, ContentStays DEF Inv
    <3> QED
      BY <2>1, <2>2, <3>2 DEF Settled
  <2> QED  BY <2>3, <2>4
<1> QED
  BY <1>1, <1>2

LEMMA LeaveSettled ==
  ASSUME Inv, [Next]_vars, NEW r \in Runners, Leave(r)
  PROVE  SettledInv'
<1>1. NoWork \in Work /\ "idle" \in Points /\ Settled(NoWork, "idle", inbox')
  BY DEF NoWork, Work, Points, Settled
<1> QED
  BY <1>1, OthersSettled DEF Leave, Goto

\* A runner that only moves stays settled if it does not begin to remove or hand over.
LEMMA GotoSettled ==
  ASSUME Inv, [Next]_vars, NEW r \in Runners, NEW p \in Points, Goto(r, p), mem' = mem,
         pc[r] # "idle", p \notin {"idle", "handover"},
         p \in {"remove", "removing"} => inbox'[Id(r)] = Content(r)
  PROVE  SettledInv'
<1> DEFINE m == mem[r]
<1>1. m \in Work /\ m.bundle \in Bundles /\ mem' = [mem EXCEPT ![r] = m]
  BY DEF Inv, TypeInv, TypeOK, BusyInv
<1>2. Settled(m, pc[r], inbox)
  BY DEF Inv, SettledInv
<1>3. m.accepted => inbox'[IdOf[m.bundle]] = ContentOf[m.bundle]
  BY <1>1, <1>2, ContentStays DEF Settled, Inv
<1>4. Settled(m, p, inbox')
  BY <1>3 DEF Settled, Id, Content
<1> HIDE DEF m
<1> QED
  BY <1>1, <1>4, OthersSettled DEF Goto

LEMMA SettledStep ==
  ASSUME Inv, [Next]_vars
  PROVE  SettledInv'
<1> USE DEF Points
<1>1. ASSUME NEW b \in Bundles, Deliver(b)
      PROVE  SettledInv'
  BY <1>1 DEF Deliver, Inv, SettledInv, Settled
<1>2. ASSUME NEW r \in Runners, NEW b \in Bundles, Pick(r, b)
      PROVE  SettledInv'
  <2> DEFINE m == [NoWork EXCEPT !.bundle = b]
  <2>1. m \in Work /\ ~m.accepted
    BY DEF NoWork, Work
  <2>2. Settled(m, "claim", inbox')
    BY <2>1 DEF Settled
  <2>3. pc' = [pc EXCEPT ![r] = "claim"] /\ mem' = [mem EXCEPT ![r] = m]
    BY <1>2 DEF Pick, Goto
  <2> HIDE DEF m
  <2> QED
    BY <2>1, <2>2, <2>3, OthersSettled
<1>3. ASSUME NEW r \in Runners, OpenClaim(r)
      PROVE  SettledInv'
  <2>1. PICK n \in Inodes : mem' = [mem EXCEPT ![r].inode = n]
    <3>1. Id(r) \in Ids
      BY <1>3 DEF OpenClaim, Inv, TypeInv, BusyInv, Id, Ids
    <3>2. FreshInode(Id(r)) \in Inodes
      BY FreshExists DEF Inv, TypeInv
    <3> QED
      BY <1>3, <3>1, <3>2 DEF OpenClaim, Inv, TypeInv, TypeOK
  <2> DEFINE m == [mem[r] EXCEPT !.inode = n]
  <2>2. m \in Work /\ m.bundle = mem[r].bundle /\ m.accepted = mem[r].accepted
    BY DEF Inv, TypeInv, TypeOK, Work
  <2>3. mem[r].bundle \in Bundles /\ Settled(mem[r], "claim", inbox)
    BY <1>3 DEF OpenClaim, Inv, TypeInv, BusyInv, SettledInv
  <2>4. inbox' = inbox /\ pc' = [pc EXCEPT ![r] = "lock"] /\ mem' = [mem EXCEPT ![r] = m]
    BY <1>3, <2>1 DEF OpenClaim, Goto
  <2>5. Settled(m, "lock", inbox')
    BY <2>2, <2>3, <2>4 DEF Settled
  <2> HIDE DEF m
  <2> QED
    BY <2>2, <2>4, <2>5, OthersSettled
<1>4. ASSUME NEW r \in Runners, TryLock(r)
      PROVE  SettledInv'
  <2>1. CASE LockFree(r)
    BY <1>4, <2>1, GotoSettled DEF TryLock
  <2>2. CASE ~LockFree(r)
    BY <1>4, <2>2, LeaveSettled DEF TryLock
  <2> QED  BY <2>1, <2>2
<1>5. ASSUME NEW r \in Runners, Look(r)
      PROVE  SettledInv'
  <2>1. CASE inbox[Id(r)] # None /\ SameAsAccepted(r)
    BY <1>5, <2>1, GotoSettled DEF Look, SameAsAccepted
  <2>2. CASE inbox[Id(r)] = None
    BY <1>5, <2>2, GotoSettled DEF Look
  <2>3. CASE inbox[Id(r)] # None /\ ~SameAsAccepted(r)
    BY <1>5, <2>3, GotoSettled DEF Look
  <2> QED  BY <2>1, <2>2, <2>3
<1>6. ASSUME NEW r \in Runners, Copy(r) \/ FailCopy(r)
      PROVE  SettledInv'
  <2>1. CASE Copy(r) /\ source[mem[r].bundle] = "whole"
    BY <2>1, GotoSettled DEF Copy
  <2>2. CASE FailCopy(r) \/ (Copy(r) /\ source[mem[r].bundle] # "whole")
    BY <2>2, GotoSettled DEF Copy, FailCopy
  <2> QED  BY <1>6, <2>1, <2>2
<1>7. ASSUME NEW r \in Runners, Publish(r)
      PROVE  SettledInv'
  <2>1. Id(r) \in Ids
    BY <1>7 DEF Publish, Inv, TypeInv, BusyInv, Id, Ids
  <2>2. CASE Replaceable(r)
    <3>1. inbox'[Id(r)] = Content(r)
      BY <1>7, <2>1, <2>2 DEF Publish, Inv, TypeInv, TypeOK
    <3> QED
      BY <1>7, <2>2, <3>1, GotoSettled DEF Publish
  <2>3. CASE ~Replaceable(r)
    BY <1>7, <2>3, GotoSettled DEF Publish
  <2> QED  BY <2>2, <2>3
<1>8. ASSUME NEW r \in Runners, BeginRemove(r)
      PROVE  SettledInv'
  <2> DEFINE m == [mem[r] EXCEPT !.accepted = TRUE]
  <2>1. m \in Work /\ m.bundle = mem[r].bundle
    BY DEF Inv, TypeInv, TypeOK, Work
  <2>2. Settled(mem[r], "remove", inbox)
    BY <1>8 DEF BeginRemove, Inv, SettledInv
  <2>3. inbox' = inbox /\ pc' = [pc EXCEPT ![r] = "removing"] /\ mem' = [mem EXCEPT ![r] = m]
    BY <1>8 DEF BeginRemove, Goto
  <2>4. Settled(m, "removing", inbox')
    BY <2>1, <2>2, <2>3 DEF Settled
  <2> HIDE DEF m
  <2> QED
    BY <2>1, <2>3, <2>4, OthersSettled
<1>9. ASSUME NEW r \in Runners, EndRemove(r) \/ Unlock(r)
      PROVE  SettledInv'
  <2>1. CASE EndRemove(r)
    BY <2>1, GotoSettled DEF EndRemove
  <2>2. CASE Unlock(r)
    BY <2>2, GotoSettled DEF Unlock
  <2> QED  BY <1>9, <2>1, <2>2
<1>10. ASSUME NEW r \in Runners, Unlink(r)
       PROVE  SettledInv'
  <2>1. CASE mem[r].accepted
    <3> DEFINE m == [mem[r] EXCEPT !.inode = 0]
    <3>1. m \in Work /\ m.bundle = mem[r].bundle /\ m.accepted
      BY <2>1 DEF Inv, TypeInv, TypeOK, Work
    <3>2. Settled(mem[r], "unlink", inbox)
      BY <1>10 DEF Unlink, Inv, SettledInv
    <3>3. inbox' = inbox /\ pc' = [pc EXCEPT ![r] = "handover"] /\ mem' = [mem EXCEPT ![r] = m]
      BY <1>10, <2>1 DEF Unlink, Goto
    <3>4. Settled(m, "handover", inbox')
      BY <2>1, <3>1, <3>2, <3>3 DEF Settled
    <3> HIDE DEF m
    <3> QED
      BY <3>1, <3>3, <3>4, OthersSettled
  <2>2. CASE ~mem[r].accepted
    BY <1>10, <2>2, LeaveSettled DEF Unlink
  <2> QED  BY <2>1, <2>2
<1>11. ASSUME NEW r \in Runners, HandOver(r) \/ Crash(r)
       PROVE  SettledInv'
  BY <1>11, LeaveSettled DEF HandOver, RunPipeline, Ingest, Crash
<1>12. ASSUME NEW r \in Runners, FailRemove(r)
       PROVE  SettledInv'
  <2> DEFINE m == [mem[r] EXCEPT !.accepted = TRUE]
  <2>1. m \in Work /\ m.bundle = mem[r].bundle
    BY DEF Inv, TypeInv, TypeOK, Work
  <2>2. Settled(mem[r], pc[r], inbox) /\ pc[r] \in {"remove", "removing"}
    BY <1>12 DEF FailRemove, Inv, SettledInv
  <2>3. inbox' = inbox /\ pc' = [pc EXCEPT ![r] = "unlock"] /\ mem' = [mem EXCEPT ![r] = m]
    BY <1>12 DEF FailRemove, Goto
  <2>4. Settled(m, "unlock", inbox')
    BY <2>1, <2>2, <2>3 DEF Settled
  <2> HIDE DEF m
  <2> QED
    BY <2>1, <2>3, <2>4, OthersSettled
<1>13. CASE UNCHANGED vars
  BY <1>13 DEF vars, Inv, SettledInv, Settled
<1> QED
  BY <1>1, <1>2, <1>3, <1>4, <1>5, <1>6, <1>7, <1>8, <1>9, <1>10, <1>11, <1>12, <1>13
     DEF Next, Accept

\* A source is only ever removed by a runner that is about to, and was settled before.
LEMMA LossStep ==
  ASSUME Inv, [Next]_vars
  PROVE  NothingIsLost'
<1> DEFINE Removed == {"partial", "gone"}
<1> SUFFICES ASSUME NEW b \in Bundles, source'[b] \in Removed
             PROVE  inbox'[IdOf[b]] = ContentOf[b]
  BY DEF NothingIsLost
<1>1. CASE source[b] \in Removed
  <2>1. inbox[IdOf[b]] = ContentOf[b]
    BY <1>1 DEF Inv, NothingIsLost
  <2> QED
    BY <2>1, ContentStays DEF Inv
<1>2. CASE source[b] \notin Removed
  <2>1. PICK r \in Runners : BeginRemove(r) \/ EndRemove(r)
    <3>1. source' # source
      BY <1>2
    <3>2. ASSUME NEW d \in Bundles, Deliver(d)
          PROVE  FALSE
      BY <1>2, <3>2 DEF Deliver, Inv, TypeInv, TypeOK
    <3> QED
      BY <3>1, <3>2 DEF Next, vars, Accept, HandOver, Pick, OpenClaim, TryLock, Look, Copy,
         FailCopy, FailRemove, Publish, Unlock, Unlink, RunPipeline, Ingest, Crash
  <2>2. pc[r] \in {"remove", "removing"} /\ b = mem[r].bundle
    BY <1>2, <2>1 DEF BeginRemove, EndRemove, Inv, TypeInv, TypeOK
  <2>3. inbox[IdOf[b]] = ContentOf[b]
    BY <2>2 DEF Inv, SettledInv, Settled
  <2> QED
    BY <2>3, ContentStays DEF Inv
<1> QED
  BY <1>1, <1>2

LEMMA InvInit == Init => Inv
<1> SUFFICES ASSUME Init  PROVE  Inv
  OBVIOUS
<1>1. SettledInv
  BY DEF Init, SettledInv, Settled, NoWork
<1>2. NothingIsLost
  BY DEF Init, NothingIsLost
<1> QED
  BY <1>1, <1>2, InitTypes DEF Inv

LEMMA InvStep ==
  ASSUME Inv, [Next]_vars
  PROVE  Inv'
BY Types, SettledStep, LossStep DEF Inv

LEMMA InvHolds == Spec => []Inv
BY InvInit, InvStep, PTL DEF Spec

-----------------------------------------------------------------------------
\* Whatever runners do at the same time and wherever they die, a bundle is removed
\* from Downloads only when exactly its content has been accepted.
THEOREM NothingEverLost == Spec => []NothingIsLost
<1>1. Inv => NothingIsLost
  BY DEF Inv
<1> QED
  BY InvHolds, <1>1, PTL

\* What process_inbox hands over as a bundle is this bundle.
THEOREM HandsOverTheBundle == Spec => []HandedOverIsTheBundle
<1>1. Inv => HandedOverIsTheBundle
  BY DEF Inv, SettledInv, Settled, HandedOverIsTheBundle, Id, Content
<1> QED
  BY InvHolds, <1>1, PTL

\* An accepted bundle never changes, even while two runners hold a claim of its id.
THEOREM AcceptedStays == Spec => AcceptedNeverChanges
<1>1. TypeInv /\ [Next]_vars => [\A i \in Ids : inbox[i] # None => inbox'[i] = inbox[i]]_inbox
  BY InboxKeeps
<1>2. Spec => []TypeInv
  BY InitTypes, Types, PTL DEF Spec
<1> QED
  BY <1>1, <1>2, PTL DEF Spec, AcceptedNeverChanges
-----------------------------------------------------------------------------
(***************************************************************************)
(* The refinement of Acceptance.                                           *)
(***************************************************************************)
Taken == {"partial", "gone"}

\* A runner is busy with a bundle that has appeared.
SourceInv ==
  \A r \in Runners :
    /\ pc[r] # "idle" => source[mem[r].bundle] # "absent"
    /\ pc[r] = "removing" => source[mem[r].bundle] \in Taken

RefInv == Inv /\ SourceInv

\* Only the browser and a removal touch a source.
LEMMA SourceKept ==
  ASSUME NEW r \in Runners,
         \/ \E b \in Bundles : Pick(r, b)
         \/ Accept(r) /\ ~BeginRemove(r) /\ ~EndRemove(r)
         \/ FailCopy(r) \/ FailRemove(r) \/ HandOver(r) \/ Crash(r)
  PROVE  source' = source
BY DEF Pick, Accept, OpenClaim, TryLock, Look, Copy, FailCopy, FailRemove, Publish, Unlock, Unlink,
   HandOver, RunPipeline, Ingest, Crash

\* A source only ever grows older.
LEMMA SourceAges ==
  ASSUME RefInv, [Next]_vars, NEW b \in Bundles
  PROVE  /\ source[b] # "absent" => source'[b] # "absent"
         /\ source[b] \in Taken => source'[b] \in Taken
<1>1. ASSUME NEW d \in Bundles, Deliver(d)
      PROVE  /\ source[b] # "absent" => source'[b] # "absent"
             /\ source[b] \in Taken => source'[b] \in Taken
  BY <1>1 DEF Deliver, Taken, RefInv, Inv, TypeInv, TypeOK
<1>2. ASSUME NEW r \in Runners, BeginRemove(r) \/ EndRemove(r)
      PROVE  /\ source[b] # "absent" => source'[b] # "absent"
             /\ source[b] \in Taken => source'[b] \in Taken
  BY <1>2 DEF BeginRemove, EndRemove, Taken, RefInv, Inv, TypeInv, TypeOK
<1>3. CASE source' = source
  BY <1>3
<1> QED
  BY <1>1, <1>2, <1>3, SourceKept DEF Next, vars

LEMMA SourceStep ==
  ASSUME RefInv, [Next]_vars
  PROVE  SourceInv'
<1> DEFINE Good(q) == /\ pc'[q] # "idle" => source'[mem'[q].bundle] # "absent"
                      /\ pc'[q] = "removing" => source'[mem'[q].bundle] \in Taken
<1> SUFFICES ASSUME NEW q \in Runners
             PROVE  Good(q)
  BY DEF SourceInv
<1>0. pc \in [Runners -> Points] /\ mem \in [Runners -> Work] /\ source \in [Bundles -> Sources]
  BY DEF RefInv, Inv, TypeInv, TypeOK
<1>1. CASE pc'[q] = pc[q] /\ mem'[q] = mem[q]
  <2>1. CASE pc[q] = "idle"
    <3>1. mem[q] = NoWork
      BY <2>1 DEF RefInv, Inv, SettledInv, Settled
    <3> QED
      BY <1>1, <2>1, <3>1 DEF NoWork
  <2>2. CASE pc[q] # "idle"
    <3>1. mem[q].bundle \in Bundles
      BY <2>2 DEF RefInv, Inv, TypeInv, BusyInv
    <3> QED
      BY <1>1, <2>2, <3>1, SourceAges DEF RefInv, SourceInv
  <2> QED  BY <2>1, <2>2
<1>2. CASE pc'[q] = "idle" /\ mem'[q] = NoWork
  BY <1>2 DEF NoWork
<1>3. ASSUME NEW b \in Bundles, Pick(q, b)
      PROVE  Good(q)
  BY <1>0, <1>3 DEF Pick, Goto, NoWork, Work
<1>4. CASE BeginRemove(q)
  <2>1. mem[q].bundle \in Bundles /\ source[mem[q].bundle] # "absent"
    BY <1>4 DEF BeginRemove, RefInv, SourceInv, Inv, TypeInv, BusyInv
  <2>2. mem'[q].bundle = mem[q].bundle
    BY <1>0, <1>4 DEF BeginRemove, Work
  <2>3. source'[mem[q].bundle] \in {"partial", "gone"}
    BY <1>0, <1>4, <2>1 DEF BeginRemove, Sources
  <2> QED
    BY <2>2, <2>3 DEF Taken
\* The other steps keep the bundle of the runner.
<1>5. ASSUME pc[q] # "idle", mem'[q].bundle = mem[q].bundle, pc'[q] # "removing"
      PROVE  Good(q)
  <2>1. mem[q].bundle \in Bundles
    BY <1>5 DEF RefInv, Inv, TypeInv, BusyInv
  <2> QED
    BY <1>5, <2>1, SourceAges DEF RefInv, SourceInv
<1>6. CASE Accept(q) /\ ~BeginRemove(q)
  <2>1. CASE OpenClaim(q)
    BY <1>0, <1>5, <2>1 DEF OpenClaim, Goto, Work
  <2>2. CASE TryLock(q)
    BY <1>0, <1>2, <1>5, <2>2 DEF TryLock, Goto, Leave
  <2>3. CASE Look(q) \/ Copy(q) \/ Publish(q) \/ EndRemove(q) \/ Unlock(q)
    BY <1>0, <1>5, <2>3 DEF Look, Copy, Publish, EndRemove, Unlock, Goto
  <2>4. CASE Unlink(q)
    BY <1>0, <1>2, <1>5, <2>4 DEF Unlink, Goto, Leave, Work
  <2> QED
    BY <1>6, <2>1, <2>2, <2>3, <2>4 DEF Accept
<1>7. CASE FailCopy(q) \/ FailRemove(q) \/ HandOver(q) \/ Crash(q)
  <2>1. CASE FailRemove(q)
    BY <1>0, <1>5, <2>1 DEF FailRemove, Goto, Work
  <2> QED
    BY <1>0, <1>2, <1>5, <1>7, <2>1 DEF FailCopy, HandOver, RunPipeline, Ingest, Crash, Goto, Leave
<1>8. ASSUME NEW r \in Runners, r # q,
             \/ (\E b \in Bundles : Pick(r, b)) \/ Accept(r)
             \/ FailCopy(r) \/ FailRemove(r) \/ HandOver(r) \/ Crash(r)
      PROVE  Good(q)
  <2>1. pc'[q] = pc[q] /\ mem'[q] = mem[q]
    BY <1>0, <1>8 DEF Pick, Accept, OpenClaim, TryLock, Look, Copy, Publish, BeginRemove, EndRemove,
       Unlock, Unlink, FailCopy, FailRemove, HandOver, RunPipeline, Ingest, Crash, Goto, Leave
  <2> QED  BY <1>1, <2>1
<1>9. CASE (\E b \in Bundles : Deliver(b)) \/ UNCHANGED vars
  BY <1>1, <1>9 DEF Deliver, vars
<1> QED
  BY <1>3, <1>4, <1>6, <1>7, <1>8, <1>9 DEF Next

LEMMA RefInvHolds == Spec => []RefInv
<1>1. Init => SourceInv
  BY DEF Init, SourceInv, NoWork
<1> QED
  BY <1>1, InvInit, InvStep, SourceStep, PTL DEF Spec, RefInv

LEMMA AppearStep ==
  ASSUME RefInv, NEW b \in Bundles, Deliver(b)
  PROVE  A!Appear(b)
BY DEF Deliver, A!Appear, Seen, RefInv, Inv, TypeInv, TypeOK

\* The copy was compared with the source some time ago; the source is still whole when the copy
\* gets its name, or else the id would not be free.
LEMMA AcceptStep ==
  ASSUME RefInv, NEW r \in Runners, Publish(r), Replaceable(r)
  PROVE  A!Accept(mem[r].bundle) /\ mem[r].bundle \in Bundles
<1> DEFINE b == mem[r].bundle
<1>1. b \in Bundles /\ source[b] # "absent"
  BY DEF Publish, RefInv, SourceInv, Inv, TypeInv, BusyInv
<1>2. ContentOf[b] # None
  BY <1>1, InboxAssumption DEF Contents
<1>3. source[b] = "whole"
  BY <1>1, <1>2 DEF Replaceable, Id, RefInv, Inv, NothingIsLost, TypeInv, TypeOK, Sources
<1>4. Seen[b] = "whole" /\ Seen' = Seen
  BY <1>1, <1>3 DEF Publish, Seen
<1> QED
  BY <1>1, <1>4 DEF Publish, Replaceable, Id, Content, A!Accept

\* Only the first removal of a bundle takes it; the rest of its removal is not seen.
LEMMA TakeStep ==
  ASSUME RefInv, NEW r \in Runners, BeginRemove(r) \/ EndRemove(r)
  PROVE  UNCHANGED A!vars \/ (A!Take(mem[r].bundle) /\ mem[r].bundle \in Bundles)
<1> DEFINE b == mem[r].bundle
<1>1. b \in Bundles /\ source[b] # "absent" /\ source \in [Bundles -> Sources]
  BY DEF BeginRemove, EndRemove, RefInv, SourceInv, Inv, TypeInv, TypeOK, BusyInv
<1>2. CASE BeginRemove(r) /\ source[b] = "whole"
  <2>1. Seen' = [Seen EXCEPT ![b] = "taken"] /\ Seen[b] = "whole"
    BY <1>1, <1>2 DEF BeginRemove, Seen
  <2>2. A!Accepted(b)
    BY <1>2 DEF BeginRemove, RefInv, Inv, SettledInv, Settled, A!Accepted
  <2> QED
    BY <1>1, <1>2, <2>1, <2>2 DEF BeginRemove, A!Take
<1>3. CASE BeginRemove(r) /\ source[b] # "whole"
  <2>1. source' = source
    BY <1>1, <1>3 DEF BeginRemove
  <2> QED
    BY <1>3, <2>1 DEF BeginRemove, Seen, A!vars
<1>4. CASE EndRemove(r)
  <2>1. source[b] \in Taken
    BY <1>4 DEF EndRemove, RefInv, SourceInv
  <2>2. Seen' = Seen
    BY <1>1, <1>4, <2>1 DEF EndRemove, Seen, Taken
  <2> QED
    BY <1>4, <2>2 DEF EndRemove, A!vars
<1> QED
  BY <1>2, <1>3, <1>4

LEMMA HandOverStep ==
  ASSUME RefInv, NEW r \in Runners, HandOver(r)
  PROVE  UNCHANGED A!vars \/ (A!HandOver(mem[r].bundle) /\ mem[r].bundle \in Bundles)
<1> DEFINE b == mem[r].bundle
<1>1. b \in Bundles /\ pc[r] = "handover" /\ mem[r].accepted
  BY DEF HandOver, RunPipeline, Ingest, RefInv, Inv, TypeInv, BusyInv, SettledInv, Settled
<1>2. Seen[b] # "absent"
  BY <1>1 DEF RefInv, SourceInv, Seen
<1>3. A!Accepted(b)
  BY <1>1 DEF RefInv, Inv, SettledInv, Settled, A!Accepted
<1>4. Seen' = Seen /\ inbox' = inbox
  BY DEF HandOver, RunPipeline, Ingest, Seen
<1>5. CASE RunPipeline(r)
  BY <1>1, <1>2, <1>3, <1>4, <1>5 DEF RunPipeline, A!HandOver, A!vars
<1>6. CASE Ingest(r)
  <2>1. CASE Recordable(b)
    BY <1>1, <1>2, <1>3, <1>4, <1>6, <2>1 DEF Ingest, Recordable, A!HandOver
  <2>2. CASE ~Recordable(b)
    BY <1>4, <1>6, <2>2 DEF Ingest, A!vars
  <2> QED  BY <2>1, <2>2
<1> QED
  BY <1>5, <1>6 DEF HandOver

LEMMA UnseenStep ==
  ASSUME NEW r \in Runners,
         \/ \E b \in Bundles : Pick(r, b)
         \/ OpenClaim(r) \/ TryLock(r) \/ Look(r) \/ Copy(r) \/ Unlock(r) \/ Unlink(r)
         \/ Publish(r) /\ ~Replaceable(r)
         \/ FailCopy(r) \/ FailRemove(r) \/ Crash(r)
  PROVE  UNCHANGED A!vars
BY DEF Pick, OpenClaim, TryLock, Look, Copy, Publish, Unlock, Unlink, FailCopy, FailRemove, Crash,
   A!vars, Seen

\* accept_completed_download and accept_source_observation accept and take a bundle as if at once,
\* whatever runners do at the same time, wherever they die and whatever cannot be removed.
THEOREM ImplementsAcceptance == Spec => AcceptedAtOnce
<1>1. Init => A!Init
  BY DEF Init, A!Init, Seen, Ids
<1>2. ASSUME RefInv, [Next]_vars
      PROVE  [A!Next]_(A!vars)
  <2>1. CASE \E b \in Bundles : Deliver(b)
    BY <1>2, <2>1, AppearStep DEF A!Next
  <2>2. ASSUME NEW r \in Runners, Accept(r)
        PROVE  [A!Next]_(A!vars)
    <3>1. CASE Publish(r) /\ Replaceable(r)
      BY <1>2, <3>1, AcceptStep DEF A!Next
    <3>2. CASE BeginRemove(r) \/ EndRemove(r)
      BY <1>2, <3>2, TakeStep DEF A!Next
    <3> QED
      BY <2>2, <3>1, <3>2, UnseenStep DEF Accept
  <2>3. ASSUME NEW r \in Runners, HandOver(r)
        PROVE  [A!Next]_(A!vars)
    BY <1>2, <2>3, HandOverStep DEF A!Next
  <2>4. CASE UNCHANGED vars
    BY <2>4 DEF vars, A!vars, Seen
  <2> QED
    BY <1>2, <2>1, <2>2, <2>3, <2>4, UnseenStep DEF Next
<1> QED
  BY <1>1, <1>2, RefInvHolds, PTL DEF Spec, AcceptedAtOnce, A!Spec
-----------------------------------------------------------------------------
(***************************************************************************)
(* Preparation: types.  What is read, found and planned is data, of which  *)
(* nothing is assumed.                                                     *)
(***************************************************************************)
Declaration == [profile : Profiles, whole : BOOLEAN]

WorkTyped(w) ==
  w \in [job : Jobs \cup {"none"}, pc : States, recipe : {w.recipe}, profile : {w.profile},
         terms : {w.terms}, report : {w.report}, todo : {w.todo}, hits : {w.hits},
         candidates : {w.candidates}, result : {w.result}, place : Places \cup {Absent},
         verdict : {w.verdict}, edited : {w.edited}]

AllWorkTyped == work = [r \in Runs |-> work[r]] /\ \A r \in Runs : WorkTyped(work[r])
FilesTyped ==
  /\ registered \in Declaration \cup {Absent} /\ temporary \in Declaration \cup {Absent}
  /\ outputs = [p \in Places |-> outputs[p]]
  /\ \A p \in Places : outputs[p].state \in {"none", "partial", "whole"}
PreparationTypeOK == AllWorkTyped /\ FilesTyped

\* A process that has created the temporary file, and has not yet put it in place.
Registers(r) == work[r].pc = "replace" \/ (work[r].pc = "fill" /\ work[r].job = "register")

\* Every file that a process writes is its own: a report, an artifact, or the temporary file.
OwnFile(r) ==
  /\ work[r].job = "none" => work[r].pc = "new"
  /\ work[r].place # Absent =>
       /\ work[r].pc \in {"fill", "verify", "done"} /\ ~Registers(r)
       /\ outputs[work[r].place].state # "none"
       /\ \A q \in Runs \ {r} : work[q].place # work[r].place
  /\ work[r].pc = "fill" => work[r].place # Absent \/ work[r].job = "register"
  /\ Registers(r) => /\ temporary # Absent
                     /\ \A q \in Runs \ {r} : ~Registers(q)
  /\ work[r].pc = "replace" => temporary.whole
  /\ work[r].pc = "fill" /\ work[r].job = "register" => work[r].profile \in Profiles
  /\ work[r].place # Absent /\ work[r].pc \in {"verify", "done"} =>
       outputs[work[r].place] = [value |-> work[r].result, state |-> "whole"]
WholeInv == registered # Absent => registered.whole
PreparationInv == PreparationTypeOK /\ WholeInv /\ \A r \in Runs : OwnFile(r)

-----------------------------------------------------------------------------
\* Every set of numbers that is not empty has a least one.
Below == {x \in Nat \X Nat : x[1] < x[2]}

LEMMA LeastNumber ==
  ASSUME NEW T \in SUBSET Nat, T # {}
  PROVE  \E n \in T : \A k \in T : n <= k
<1>1. IsWellFoundedOn(Below, Nat)
  BY NatLessThanWellFounded DEF OpToRel, Below
<1>2. PICK n \in T : \A k \in T : ~(<<k, n>> \in Below)
  BY <1>1, WFMin
<1>3. ASSUME NEW k \in T PROVE n <= k
  <2>1. k \in Nat /\ n \in Nat /\ ~(<<k, n>> \in Below)
    BY <1>2
  <2>2. ~(k < n)
    BY <2>1 DEF Below
  <2> QED BY <2>1, <2>2
<1> QED BY <1>3

-----------------------------------------------------------------------------
(***************************************************************************)
(* What a step does to the work of the processes.                          *)
(***************************************************************************)
Same(q) ==
  /\ work'[q].job = work[q].job /\ work'[q].pc = work[q].pc /\ work'[q].place = work[q].place
  /\ work'[q].result = work[q].result /\ work'[q].profile = work[q].profile
Alone(r) == \A q \in Runs \ {r} : Same(q)

LEMMA OneWorks ==
  ASSUME AllWorkTyped, NEW r \in Runs, NEW w, WorkTyped(w), work' = [work EXCEPT ![r] = w]
  PROVE  AllWorkTyped' /\ Alone(r) /\ work'[r] = w
<1>1. work'[r] = w /\ \A q \in Runs \ {r} : work'[q] = work[q]
  BY DEF AllWorkTyped
<1>2. work' = [q \in Runs |-> work'[q]]
  BY DEF AllWorkTyped
<1>3. \A q \in Runs : WorkTyped(work[q])
  BY DEF AllWorkTyped
<1>4. \A q \in Runs : WorkTyped(work'[q])
  <2>1. ASSUME NEW q \in Runs
        PROVE  WorkTyped(work'[q])
    BY <1>1, <1>3
  <2> QED BY <2>1
<1>5. AllWorkTyped'
  BY <1>2, <1>4 DEF AllWorkTyped, WorkTyped
<1> QED BY <1>1, <1>5 DEF Alone, Same

LEMMA IdleShape ==
  ASSUME NEW job, NEW at, NEW w, w = [Idle EXCEPT !.job = job, !.pc = at]
  PROVE  w = [job |-> job, pc |-> at, recipe |-> Absent, profile |-> Absent, terms |-> {},
              report |-> "none", todo |-> <<>>, hits |-> <<>>, candidates |-> {},
              result |-> Absent, place |-> Absent, verdict |-> Absent, edited |-> FALSE]
BY DEF Idle

LEMMA IdleTyped ==
  ASSUME NEW job \in Jobs \cup {"none"}, NEW at \in States, NEW w,
         w = [job |-> job, pc |-> at, recipe |-> Absent, profile |-> Absent, terms |-> {},
              report |-> "none", todo |-> <<>>, hits |-> <<>>, candidates |-> {},
              result |-> Absent, place |-> Absent, verdict |-> Absent, edited |-> FALSE]
  PROVE  WorkTyped(w) /\ w.pc = at /\ w.place = Absent /\ w.job = job
<1>1. w.job = job /\ w.pc = at /\ w.place = Absent
  OBVIOUS
<1>3. WorkTyped(w)
  BY DEF WorkTyped
<1> QED BY <1>1, <1>3

\* A process that gives up, or dies.
LEMMA GivenUp ==
  ASSUME AllWorkTyped, NEW r \in Runs, NEW at \in {"failed", "dead"},
         work' = [work EXCEPT ![r] = [Idle EXCEPT !.job = work[r].job, !.pc = at]]
  PROVE  /\ AllWorkTyped' /\ Alone(r)
         /\ work'[r].pc = at /\ work'[r].place = Absent /\ work'[r].job = work[r].job
<1>1. work[r].job \in Jobs \cup {"none"}
  BY DEF AllWorkTyped, WorkTyped
<1> DEFINE w == [Idle EXCEPT !.job = work[r].job, !.pc = at]
<1>2. WorkTyped(w) /\ w.pc = at /\ w.place = Absent /\ w.job = work[r].job
  <2>1. at \in States
    BY DEF States, Ended
  <2>2. w = [job |-> work[r].job, pc |-> at, recipe |-> Absent, profile |-> Absent, terms |-> {},
             report |-> "none", todo |-> <<>>, hits |-> <<>>, candidates |-> {},
             result |-> Absent, place |-> Absent, verdict |-> Absent, edited |-> FALSE]
    BY IdleShape
  <2> HIDE DEF w
  <2> QED BY <1>1, <2>1, <2>2, IdleTyped
<1>3. work' = [work EXCEPT ![r] = w]
  OBVIOUS
<1> HIDE DEF w
<1> QED BY <1>2, <1>3, OneWorks

\* A step after which a process has no file of its own.
Placeless(r) ==
  /\ AllWorkTyped' /\ Alone(r)
  /\ work'[r].place = Absent /\ work'[r].job # "none"
  /\ work'[r].pc \in {"rows", "create", "verify", "digest", "discover", "search", "detail"} \cup Ended

LEMMA NoPlaceYet ==
  ASSUME AllWorkTyped, NEW r \in Runs, OwnFile(r),
         work[r].pc \notin {"new", "fill", "verify", "done"}
  PROVE  work[r].place = Absent /\ work[r].job # "none"
BY DEF OwnFile

LEMMA ReadRowsPlaceless ==
  ASSUME AllWorkTyped, NEW r \in Runs, OwnFile(r), ReadRows(r)
  PROVE  Placeless(r)
<1> DEFINE rows == Applied(work[r].recipe, sheet)
           at == IF rows.ok THEN "create" ELSE "failed"
           x == IF rows.ok THEN rows.rows ELSE Absent
           w == [work[r] EXCEPT !.pc = at, !.result = x]
<1>1. work' = [work EXCEPT ![r].pc = at, ![r].result = x] /\ work[r].pc = "rows"
  BY DEF ReadRows, Stands
<1>2. at \in {"create", "failed"} /\ at \in States
  BY DEF States, Ended
<1> HIDE DEF at, x
<1>3. WorkTyped(work[r]) /\ r \in DOMAIN work /\ work[r].place = Absent /\ work[r].job # "none"
  BY <1>1, NoPlaceYet DEF AllWorkTyped
<1>4. work' = [work EXCEPT ![r] = w]
  BY <1>1, <1>3
<1>5. WorkTyped(w) /\ w.pc = at /\ w.job # "none" /\ w.place = Absent
  BY <1>2, <1>3 DEF WorkTyped
<1> HIDE DEF w
<1> QED BY <1>2, <1>4, <1>5, OneWorks DEF Placeless, Ended

LEMMA NowPlaceless ==
  ASSUME AllWorkTyped, NEW r \in Runs, NEW w, WorkTyped(w), work' = [work EXCEPT ![r] = w],
         w.place = Absent, w.job # "none",
         w.pc \in {"rows", "create", "verify", "digest", "discover", "search", "detail"} \cup Ended
  PROVE  Placeless(r)
BY OneWorks DEF Placeless

LEMMA GivenUpPlaceless ==
  ASSUME AllWorkTyped, NEW r \in Runs, work[r].job # "none", NEW at \in {"failed", "dead"},
         work' = [work EXCEPT ![r] = [Idle EXCEPT !.job = work[r].job, !.pc = at]]
  PROVE  Placeless(r)
BY GivenUp DEF Placeless, Ended

\* The steps of an analysis.
LEMMA AnalysisPlaceless ==
  ASSUME AllWorkTyped, NEW r \in Runs, OwnFile(r),
         Digest(r) \/ Discover(r) \/ Search(r) \/ Rank(r) \/ Detail(r) \/ Conclude(r)
  PROVE  Placeless(r)
<1>1. work[r].pc \in {"digest", "discover", "search", "detail"}
  BY DEF Digest, Discover, Search, Rank, Detail, Conclude, Stands
<1>2. /\ WorkTyped(work[r]) /\ r \in DOMAIN work /\ work[r].place = Absent /\ work[r].job # "none"
      /\ {"discover", "search", "detail", "create", "verify", "done"} \subseteq States
  BY <1>1, NoPlaceYet DEF AllWorkTyped, States, Ended
<1>3. CASE Fail(r)
  BY <1>2, <1>3, GivenUpPlaceless DEF Fail
<1>4. ASSUME NEW at \in {"discover", "search", "detail", "create", "verify", "done"},
             NEW todo, NEW hits, NEW candidates, NEW result,
             work' = [work EXCEPT ![r] = [work[r] EXCEPT !.pc = at, !.todo = todo, !.hits = hits,
                                            !.candidates = candidates, !.result = result]]
      PROVE  Placeless(r)
  <2> DEFINE w == [work[r] EXCEPT !.pc = at, !.todo = todo, !.hits = hits,
                                  !.candidates = candidates, !.result = result]
  <2>1. WorkTyped(w) /\ w.pc = at /\ w.job # "none" /\ w.place = Absent
    BY <1>2 DEF WorkTyped
  <2>2. work' = [work EXCEPT ![r] = w]
    BY <1>4
  <2> HIDE DEF w
  <2> QED BY <2>1, <2>2, OneWorks DEF Placeless, Ended
<1>5. CASE Digest(r)
  <2>1. CASE work' = [work EXCEPT ![r].pc = "discover"]
    <3>1. work' = [work EXCEPT ![r] =
            [work[r] EXCEPT !.pc = "discover", !.todo = work[r].todo, !.hits = work[r].hits,
                            !.candidates = work[r].candidates, !.result = work[r].result]]
      BY <1>2, <2>1 DEF WorkTyped
    <3> QED BY <1>4, <3>1
  <2> QED BY <1>3, <1>5, <2>1 DEF Digest
<1>6. CASE Discover(r)
  <2> DEFINE paths == Discovered(work[r].profile, found)
  <2>1. CASE work' = [work EXCEPT ![r].pc = "search", ![r].todo = paths]
    <3> HIDE DEF paths
    <3>1. work' = [work EXCEPT ![r] =
            [work[r] EXCEPT !.pc = "search", !.todo = paths, !.hits = work[r].hits,
                            !.candidates = work[r].candidates, !.result = work[r].result]]
      BY <1>2, <2>1 DEF WorkTyped
    <3> QED BY <1>4, <3>1
  <2> QED BY <1>3, <1>6, <2>1 DEF Discover
<1>7. CASE Search(r)
  <2> DEFINE p == Head(work[r].todo)
             score == SearchScore(work[r].terms, p, found[p])
             x == Tail(work[r].todo)
             y == IF score > 0 THEN Scored(work[r].hits, p, score) ELSE work[r].hits
             w == [work[r] EXCEPT !.todo = x, !.hits = y]
  <2>1. work' = [work EXCEPT ![r].todo = x, ![r].hits = y] /\ work[r].pc = "search"
    BY <1>7 DEF Search, Stands
  <2> HIDE DEF x, y
  <2>2. work' = [work EXCEPT ![r] = w]
    BY <1>2, <2>1
  <2>3. WorkTyped(w) /\ w.pc = "search" /\ w.job # "none" /\ w.place = Absent
    BY <1>2, <2>1 DEF WorkTyped
  <2> HIDE DEF w
  <2> QED BY <2>2, <2>3, NowPlaceless
<1>8. CASE Rank(r)
  <2> DEFINE x == Best(work[r].hits)
  <2>1. work' = [work EXCEPT ![r].pc = "detail", ![r].todo = x, ![r].hits = <<>>]
    BY <1>8 DEF Rank
  <2> HIDE DEF x
  <2>2. work' = [work EXCEPT ![r] =
          [work[r] EXCEPT !.pc = "detail", !.todo = x, !.hits = <<>>,
                          !.candidates = work[r].candidates, !.result = work[r].result]]
    BY <1>2, <2>1 DEF WorkTyped
  <2> QED BY <1>4, <2>2
<1>9. CASE Detail(r)
  <2> DEFINE p == Head(work[r].todo)
             x == Tail(work[r].todo)
             y == IF found[p].kind \in {"text", "large"} THEN work[r].candidates \cup {p}
                  ELSE work[r].candidates
             w == [work[r] EXCEPT !.todo = x, !.candidates = y]
  <2>1. work' = [work EXCEPT ![r].todo = x, ![r].candidates = y] /\ work[r].pc = "detail"
    BY <1>9 DEF Detail, Stands
  <2> HIDE DEF x, y
  <2>2. work' = [work EXCEPT ![r] = w]
    BY <1>2, <2>1
  <2>3. WorkTyped(w) /\ w.pc = "detail" /\ w.job # "none" /\ w.place = Absent
    BY <1>2, <2>1 DEF WorkTyped
  <2> HIDE DEF w
  <2> QED BY <2>2, <2>3, NowPlaceless
<1>10. CASE Conclude(r)
  <2> DEFINE x == Plan(work[r].profile, work[r].terms, work[r].candidates, bases)
             at == IF work[r].report \in Formats THEN "create"
                   ELSE IF work[r].job = "analysis" THEN "verify" ELSE "done"
  <2>1. work' = [work EXCEPT ![r].result = x, ![r].candidates = {}, ![r].pc = at]
    BY <1>10 DEF Conclude
  <2>2. at \in {"create", "verify", "done"}
    OBVIOUS
  <2> HIDE DEF x, at
  <2>3. work' = [work EXCEPT ![r] =
          [work[r] EXCEPT !.pc = at, !.todo = work[r].todo, !.hits = work[r].hits,
                          !.candidates = {}, !.result = x]]
    BY <1>2, <2>1 DEF WorkTyped
  <2> QED BY <1>4, <2>2, <2>3
<1> QED BY <1>5, <1>6, <1>7, <1>8, <1>9, <1>10

\* The steps of a call that is started, or refused.
LEMMA BeginsPlaceless ==
  ASSUME AllWorkTyped, NEW r \in Runs, OwnFile(r),
         \/ \E recipe \in Recipes : BeginTable(r, recipe)
         \/ \E job \in MayDo[r], terms \in Queries, report \in {"none"} \cup Formats :
              BeginCode(r, job, terms, report)
  PROVE  Placeless(r)
<1>1. /\ WorkTyped(work[r]) /\ r \in DOMAIN work
      /\ {"rows", "failed", "digest", "discover"} \subseteq States
  BY DEF AllWorkTyped, States, Ended
<1>2. ASSUME NEW recipe \in Recipes, BeginTable(r, recipe)
      PROVE  Placeless(r)
  <2> DEFINE at == IF ValidTablePlan(recipe) THEN "rows" ELSE "failed"
             w == [work[r] EXCEPT !.job = "table", !.recipe = recipe, !.pc = at]
  <2>1. /\ work' = [work EXCEPT ![r].job = "table", ![r].recipe = recipe, ![r].pc = at]
        /\ work[r].place = Absent
    BY <1>2 DEF BeginTable, Unstarted, OwnFile
  <2>2. at \in {"rows", "failed"}
    OBVIOUS
  <2> HIDE DEF at
  <2>3. work' = [work EXCEPT ![r] = w]
    BY <1>1, <2>1
  <2>4. at \in States /\ "table" \in Jobs
    BY <1>1, <2>2 DEF Jobs
  <2>5. WorkTyped(w) /\ w.pc = at /\ w.job = "table" /\ w.place = Absent
    BY <1>1, <2>1, <2>4 DEF WorkTyped
  <2> HIDE DEF w
  <2> QED BY <2>2, <2>3, <2>5, NowPlaceless DEF Ended
<1>3. ASSUME NEW job, NEW terms, NEW report, BeginCode(r, job, terms, report)
      PROVE  Placeless(r)
  <2>1. job \in {"analysis", "prepare"} /\ job \in Jobs
    BY <1>3 DEF BeginCode, Jobs
  <2>2. CASE Loadable /\ terms # {}
    <3> DEFINE at == IF job = "analysis" THEN "digest" ELSE "discover"
               x == registered.profile
    <3>1. work' = [work EXCEPT ![r] = [Idle EXCEPT !.job = job, !.terms = terms, !.report = report,
                                         !.profile = x, !.pc = at]]
      BY <1>3, <2>2 DEF BeginCode
    <3>2. at \in {"digest", "discover"}
      OBVIOUS
    <3> HIDE DEF at, x
    <3>3. PICK w : w = [Idle EXCEPT !.job = job, !.terms = terms, !.report = report,
                                    !.profile = x, !.pc = at]
      OBVIOUS
    <3>4. w = [job |-> job, pc |-> at, recipe |-> Absent, profile |-> x, terms |-> terms,
               report |-> report, todo |-> <<>>, hits |-> <<>>, candidates |-> {},
               result |-> Absent, place |-> Absent, verdict |-> Absent, edited |-> FALSE]
      BY <3>3 DEF Idle
    <3>5. work' = [work EXCEPT ![r] = w]
      BY <3>1, <3>3
    <3>6. ASSUME NEW u,
                 u = [job |-> job, pc |-> at, recipe |-> Absent, profile |-> x, terms |-> terms,
                      report |-> report, todo |-> <<>>, hits |-> <<>>, candidates |-> {},
                      result |-> Absent, place |-> Absent, verdict |-> Absent, edited |-> FALSE]
          PROVE  WorkTyped(u) /\ u.pc = at /\ u.job # "none" /\ u.place = Absent
      BY <1>1, <2>1, <3>2, <3>6 DEF WorkTyped
    <3>7. WorkTyped(w) /\ w.pc = at /\ w.job # "none" /\ w.place = Absent
      BY <3>4, <3>6
    <3> QED BY <3>2, <3>5, <3>7, OneWorks DEF Placeless
  <2>3. CASE ~(Loadable /\ terms # {})
    <3>1. work' = [work EXCEPT ![r] = [Idle EXCEPT !.job = job, !.pc = "failed"]]
      BY <1>3, <2>3 DEF BeginCode
    <3>2. PICK w : w = [Idle EXCEPT !.job = job, !.pc = "failed"]
      OBVIOUS
    <3>3. WorkTyped(w) /\ w.pc = "failed" /\ w.place = Absent /\ w.job = job
      <4>1. w = [job |-> job, pc |-> "failed", recipe |-> Absent, profile |-> Absent, terms |-> {},
                 report |-> "none", todo |-> <<>>, hits |-> <<>>, candidates |-> {},
                 result |-> Absent, place |-> Absent, verdict |-> Absent, edited |-> FALSE]
        BY <3>2, IdleShape
      <4> QED BY <1>1, <2>1, <4>1, IdleTyped
    <3>4. work' = [work EXCEPT ![r] = w]
      BY <3>1, <3>2
    <3> QED BY <2>1, <3>3, <3>4, OneWorks DEF Placeless, Ended
  <2> QED BY <2>2, <2>3
<1> QED BY <1>2, <1>3

LEMMA PlacelessKeeps ==
  ASSUME PreparationInv, NEW r \in Runs, Placeless(r), UNCHANGED <<registry, outputs>>
  PROVE  PreparationInv'
<1>1. PreparationTypeOK'
  BY DEF PreparationInv, PreparationTypeOK, FilesTyped, Placeless, registry
<1>2. /\ work'[r].place = Absent /\ work'[r].job # "none" /\ ~(Registers(r)')
      /\ work'[r].pc \notin {"fill", "replace"}
  BY DEF Placeless, Registers, Ended
<1>3. ASSUME NEW q \in Runs PROVE OwnFile(q)'
  <2>1. CASE q = r
    BY <1>2, <2>1 DEF OwnFile
  <2>2. CASE q # r
    <3>1. \A s \in Runs \ {r} : Same(s) /\ (Registers(s)' <=> Registers(s))
      BY DEF Placeless, Alone, Same, Registers
    <3>2. OwnFile(q)
      BY DEF PreparationInv
    <3> QED BY <1>2, <2>2, <3>1, <3>2 DEF OwnFile, Same, registry
  <2> QED BY <2>1, <2>2
<1> QED BY <1>1, <1>3 DEF PreparationInv, WholeInv, registry

LEMMA VerifyKeeps ==
  ASSUME PreparationInv, NEW r \in Runs, Verify(r)
  PROVE  PreparationInv'
<1>1. AllWorkTyped /\ WorkTyped(work[r]) /\ r \in DOMAIN work /\ OwnFile(r) /\ work[r].pc = "verify"
  BY DEF PreparationInv, PreparationTypeOK, AllWorkTyped, Verify, Stands
<1>2. PICK v : work' = [work EXCEPT ![r].pc = "done", ![r].verdict = v]
  BY DEF Verify
<1>3. PICK u : u = [work[r] EXCEPT !.pc = "done", !.verdict = v]
  OBVIOUS
<1>4. /\ WorkTyped(u) /\ u.pc = "done" /\ u.job = work[r].job /\ u.place = work[r].place
      /\ u.result = work[r].result
  BY <1>1, <1>3 DEF WorkTyped, States, Ended
<1>5. work' = [work EXCEPT ![r] = u]
  BY <1>1, <1>2, <1>3
<1>6. AllWorkTyped' /\ Alone(r) /\ work'[r] = u
  BY <1>1, <1>4, <1>5, OneWorks
<1>7. UNCHANGED <<registry, outputs>>
  BY DEF Verify
<1>8. \A q \in Runs : work'[q].place = work[q].place /\ (Registers(q)' <=> Registers(q))
  BY <1>1, <1>4, <1>6 DEF Alone, Same, Registers
<1>9. ASSUME NEW q \in Runs PROVE OwnFile(q)'
  <2>1. OwnFile(q)
    BY DEF PreparationInv
  <2>2. CASE q = r
    BY <1>1, <1>4, <1>6, <1>7, <1>8, <2>2 DEF OwnFile, registry, Registers
  <2>3. CASE q # r
    BY <1>6, <1>7, <1>8, <2>1, <2>3 DEF OwnFile, Alone, Same, registry
  <2> QED BY <2>2, <2>3
<1> QED BY <1>6, <1>7, <1>9 DEF PreparationInv, PreparationTypeOK, FilesTyped, WholeInv, registry

LEMMA LeastFree ==
  ASSUME PreparationInv, NEW d \in Runs \cup Formats, Free(d) # {}
  PROVE  /\ <<d, Min(Free(d))>> \in Places /\ <<d, Min(Free(d))>> # Absent
         /\ outputs[<<d, Min(Free(d))>>].state = "none"
<1>1. Free(d) \in SUBSET Nat /\ Free(d) \subseteq 1..MaxVersion
  BY PreparationAssumption DEF Free
<1>2. \E n \in Free(d) : \A k \in Free(d) : n <= k
  BY <1>1, LeastNumber
<1>3. Min(Free(d)) \in Free(d)
  BY <1>2 DEF Min
<1>4. <<d, Min(Free(d))>> \in Places
  BY <1>1, <1>3 DEF Places
<1> QED BY <1>3, <1>4, PreparationAssumption DEF Free, Places

LEMMA CreateOutputKeeps ==
  ASSUME PreparationInv, NEW r \in Runs, CreateOutput(r)
  PROVE  PreparationInv'
<1>1. /\ AllWorkTyped /\ WorkTyped(work[r]) /\ r \in DOMAIN work /\ OwnFile(r)
      /\ work[r].pc = "create" /\ work[r].job # "register"
  BY DEF PreparationInv, PreparationTypeOK, AllWorkTyped, CreateOutput, Stands
<1>2. work[r].place = Absent /\ work[r].job # "none" /\ UNCHANGED registry
  BY <1>1, NoPlaceYet DEF CreateOutput
<1> DEFINE d == Series(r)
<1>4. CASE ~(d \in Runs \cup Formats /\ Free(d) # {})
  <2>1. Fail(r) /\ UNCHANGED outputs
    BY <1>4 DEF CreateOutput
  <2> QED BY <1>1, <1>2, <2>1, GivenUpPlaceless, PlacelessKeeps DEF Fail
<1>5. CASE d \in Runs \cup Formats /\ Free(d) # {}
  <2> DEFINE place == <<d, Min(Free(d))>>
  <2>1. place \in Places /\ place # Absent /\ outputs[place].state = "none"
    BY <1>5, LeastFree
  <2>2. /\ outputs' = [outputs EXCEPT ![place] = [value |-> Absent, state |-> "partial"]]
        /\ work' = [work EXCEPT ![r].pc = "fill", ![r].place = place]
    BY <1>5 DEF CreateOutput
  <2> HIDE DEF place, d
  <2>3. PICK u : u = [work[r] EXCEPT !.pc = "fill", !.place = place]
    OBVIOUS
  <2>4. /\ WorkTyped(u) /\ u.pc = "fill" /\ u.job = work[r].job /\ u.place = place
    BY <1>1, <2>1, <2>3 DEF WorkTyped, States
  <2>5. work' = [work EXCEPT ![r] = u]
    BY <1>1, <2>2, <2>3
  <2>6. AllWorkTyped' /\ Alone(r) /\ work'[r] = u
    BY <1>1, <2>4, <2>5, OneWorks
  <2>7. outputs = [p \in Places |-> outputs[p]]
    BY DEF PreparationInv, PreparationTypeOK, FilesTyped
  <2>8. /\ outputs'[place] = [value |-> Absent, state |-> "partial"]
        /\ outputs' = [p \in Places |-> outputs'[p]]
        /\ \A p \in Places \ {place} : outputs'[p] = outputs[p]
    BY <2>1, <2>2, <2>7
  <2>9. FilesTyped'
    BY <1>2, <2>1, <2>8 DEF PreparationInv, PreparationTypeOK, FilesTyped, registry
  <2>10. \A q \in Runs : Registers(q)' <=> Registers(q)
    BY <1>1, <2>4, <2>6 DEF Alone, Same, Registers
  <2>11. ASSUME NEW q \in Runs, work[q].place # Absent
         PROVE  work[q].place \in Places \ {place}
    <3>1. OwnFile(q) /\ WorkTyped(work[q])
      BY <1>1 DEF PreparationInv, AllWorkTyped
    <3> QED BY <2>1, <2>11, <3>1 DEF OwnFile, WorkTyped
  <2>12. ASSUME NEW q \in Runs PROVE OwnFile(q)'
    <3>1. OwnFile(q)
      BY DEF PreparationInv
    <3>2. CASE q = r
      <4>1. \A s \in Runs \ {r} : work'[s].place # place
        BY <2>1, <2>6, <2>11 DEF Alone, Same
      <4>2. work'[r].pc = "fill" /\ work'[r].place = place /\ work'[r].job = work[r].job
        BY <2>4, <2>6
      <4>3. ~(Registers(r)')
        BY <1>1, <2>10 DEF Registers
      <4>4. outputs'[place].state # "none"
        BY <2>8
      <4> QED BY <1>1, <1>2, <2>1, <3>2, <4>1, <4>2, <4>3, <4>4 DEF OwnFile, registry
    <3>3. CASE q # r
      <4>1. work'[q].place # Absent => outputs'[work'[q].place] = outputs[work[q].place]
        BY <2>6, <2>8, <2>11, <3>3 DEF Alone, Same
      <4>2. work'[q].place # Absent => \A s \in Runs \ {q} : work'[s].place # work'[q].place
        BY <2>4, <2>6, <2>11, <3>1, <3>3 DEF Alone, Same, OwnFile
      <4> QED BY <1>2, <2>6, <2>10, <3>1, <3>3, <4>1, <4>2 DEF OwnFile, Alone, Same, registry
    <3> QED BY <3>2, <3>3
  <2> QED BY <1>2, <2>6, <2>9, <2>12 DEF PreparationInv, PreparationTypeOK, WholeInv, registry
<1> QED BY <1>4, <1>5

LEMMA FillOutputKeeps ==
  ASSUME PreparationInv, NEW r \in Runs, FillOutput(r)
  PROVE  PreparationInv'
<1>1. /\ AllWorkTyped /\ WorkTyped(work[r]) /\ r \in DOMAIN work /\ OwnFile(r)
      /\ work[r].pc = "fill" /\ work[r].job # "register" /\ UNCHANGED registry
  BY DEF PreparationInv, PreparationTypeOK, AllWorkTyped, FillOutput, Stands
<1> DEFINE place == work[r].place
           at == IF work[r].job = "prepare" THEN "done" ELSE "verify"
<1>2. /\ place \in Places /\ place # Absent /\ work[r].job # "none"
      /\ \A q \in Runs \ {r} : work[q].place # place
  BY <1>1 DEF OwnFile, WorkTyped
<1>3. /\ outputs' = [outputs EXCEPT ![place] = [value |-> work[r].result, state |-> "whole"]]
      /\ work' = [work EXCEPT ![r].pc = at]
  BY DEF FillOutput
<1>4. at \in {"verify", "done"} /\ at \in States
  BY DEF States, Ended
<1> HIDE DEF at
<1>5. PICK u : u = [work[r] EXCEPT !.pc = at]
  OBVIOUS
<1>6. /\ WorkTyped(u) /\ u.pc = at /\ u.job = work[r].job /\ u.place = place
      /\ u.result = work[r].result
  BY <1>1, <1>4, <1>5 DEF WorkTyped
<1>7. work' = [work EXCEPT ![r] = u]
  BY <1>1, <1>3, <1>5
<1>8. AllWorkTyped' /\ Alone(r) /\ work'[r] = u
  BY <1>1, <1>6, <1>7, OneWorks
<1>9. outputs = [p \in Places |-> outputs[p]]
  BY DEF PreparationInv, PreparationTypeOK, FilesTyped
<1>10. /\ outputs'[place] = [value |-> work[r].result, state |-> "whole"]
       /\ outputs' = [p \in Places |-> outputs'[p]]
       /\ \A p \in Places \ {place} : outputs'[p] = outputs[p]
  BY <1>2, <1>3, <1>9
<1>11. FilesTyped'
  BY <1>1, <1>2, <1>10 DEF PreparationInv, PreparationTypeOK, FilesTyped, registry
<1>12. \A q \in Runs : Registers(q)' <=> Registers(q)
  BY <1>1, <1>4, <1>6, <1>8 DEF Alone, Same, Registers
<1>13. \A q \in Runs : work'[q].place = work[q].place
  BY <1>6, <1>8 DEF Alone, Same
<1>14. ASSUME NEW q \in Runs PROVE OwnFile(q)'
  <2>1. OwnFile(q) /\ WorkTyped(work[q])
    BY <1>1 DEF PreparationInv, AllWorkTyped
  <2>2. CASE q = r
    BY <1>1, <1>2, <1>4, <1>6, <1>8, <1>10, <1>12, <1>13, <2>2 DEF OwnFile, Registers
  <2>3. CASE q # r
    <3>1. work[q].place # Absent => outputs'[work[q].place] = outputs[work[q].place]
      BY <1>2, <1>10, <2>1, <2>3 DEF WorkTyped
    <3> QED BY <1>1, <1>8, <1>12, <1>13, <2>1, <2>3, <3>1 DEF OwnFile, Alone, Same, registry
  <2> QED BY <2>2, <2>3
<1> QED BY <1>1, <1>8, <1>11, <1>14 DEF PreparationInv, PreparationTypeOK, WholeInv, registry

LEMMA Declares ==
  ASSUME NEW p \in Profiles, NEW b \in BOOLEAN, NEW t, t = [profile |-> p, whole |-> b]
  PROVE  t \in Declaration /\ t # Absent
<1>1. t \in [profile : Profiles, whole : BOOLEAN]
  OBVIOUS
<1>2. Absent \notin [profile : Profiles, whole : BOOLEAN]
  BY PreparationAssumption
<1> QED BY <1>1, <1>2 DEF Declaration

LEMMA CreateTemporaryKeeps ==
  ASSUME PreparationInv, NEW r \in Runs, NEW profile \in Profiles, CreateTemporary(r, profile)
  PROVE  PreparationInv'
<1>1. /\ AllWorkTyped /\ WorkTyped(work[r]) /\ r \in DOMAIN work /\ OwnFile(r)
      /\ work[r].job = "none" /\ UNCHANGED <<registered, outputs>>
  BY DEF PreparationInv, PreparationTypeOK, AllWorkTyped, CreateTemporary, Unstarted
<1>2. work[r].pc = "new" /\ work[r].place = Absent /\ "register" \in Jobs
      /\ {"fill", "failed"} \subseteq States
  BY <1>1 DEF OwnFile, Jobs, States, Ended
<1>3. CASE WellFormed(profile) /\ temporary = Absent
  <2>1. /\ temporary' = [profile |-> profile, whole |-> FALSE]
        /\ work' = [work EXCEPT ![r].job = "register", ![r].profile = profile, ![r].pc = "fill"]
    BY <1>3 DEF CreateTemporary
  <2>2. PICK u : u = [work[r] EXCEPT !.job = "register", !.profile = profile, !.pc = "fill"]
    OBVIOUS
  <2>3. /\ WorkTyped(u) /\ u.pc = "fill" /\ u.job = "register" /\ u.profile = profile
        /\ u.place = Absent
    BY <1>1, <1>2, <2>2 DEF WorkTyped
  <2>4. work' = [work EXCEPT ![r] = u]
    BY <1>1, <2>1, <2>2
  <2>5. AllWorkTyped' /\ Alone(r) /\ work'[r] = u
    BY <1>1, <2>3, <2>4, OneWorks
  <2>6. temporary' \in Declaration /\ temporary' # Absent
    BY <2>1, Declares
  <2>7. \A q \in Runs \ {r} : ~Registers(q) /\ ~(Registers(q)')
    BY <1>3, <2>5 DEF PreparationInv, OwnFile, Alone, Same, Registers
  <2>8. ASSUME NEW q \in Runs PROVE OwnFile(q)'
    <3>1. OwnFile(q)
      BY DEF PreparationInv
    <3>2. CASE q = r
      BY <2>3, <2>5, <2>6, <2>7, <3>2 DEF OwnFile
    <3>3. CASE q # r
      BY <1>1, <2>3, <2>5, <2>7, <3>1, <3>3 DEF OwnFile, Alone, Same, Registers
    <3> QED BY <3>2, <3>3
  <2> QED
    BY <1>1, <2>5, <2>6, <2>8 DEF PreparationInv, PreparationTypeOK, FilesTyped, WholeInv
<1>4. CASE ~(WellFormed(profile) /\ temporary = Absent)
  <2>1. work' = [work EXCEPT ![r].job = "register", ![r].pc = "failed"] /\ UNCHANGED temporary
    BY <1>4 DEF CreateTemporary
  <2>2. PICK u : u = [work[r] EXCEPT !.job = "register", !.pc = "failed"]
    OBVIOUS
  <2>3. WorkTyped(u) /\ u.pc = "failed" /\ u.job = "register" /\ u.place = Absent
    BY <1>1, <1>2, <2>2 DEF WorkTyped
  <2>4. work' = [work EXCEPT ![r] = u]
    BY <1>1, <2>1, <2>2
  <2>5. Placeless(r)
    BY <1>1, <2>3, <2>4, NowPlaceless DEF Ended
  <2> QED BY <1>1, <2>1, <2>5, PlacelessKeeps DEF registry
<1> QED BY <1>3, <1>4

LEMMA FillTemporaryKeeps ==
  ASSUME PreparationInv, NEW r \in Runs, FillTemporary(r)
  PROVE  PreparationInv'
<1>1. /\ AllWorkTyped /\ WorkTyped(work[r]) /\ r \in DOMAIN work /\ OwnFile(r)
      /\ work[r].pc = "fill" /\ work[r].job = "register" /\ UNCHANGED <<registered, outputs>>
  BY DEF PreparationInv, PreparationTypeOK, AllWorkTyped, FillTemporary, Stands
<1>2. /\ Registers(r) /\ work[r].place = Absent /\ work[r].profile \in Profiles
      /\ \A q \in Runs \ {r} : ~Registers(q)
  BY <1>1 DEF OwnFile, Registers
<1>3. /\ temporary' = [profile |-> work[r].profile, whole |-> TRUE]
      /\ work' = [work EXCEPT ![r].pc = "replace"]
  BY DEF FillTemporary
<1>4. temporary' \in Declaration /\ temporary' # Absent /\ temporary'.whole
  <2>1. temporary'.whole
    BY <1>3
  <2> QED BY <1>2, <1>3, <2>1, Declares
<1>5. PICK u : u = [work[r] EXCEPT !.pc = "replace"]
  OBVIOUS
<1>6. WorkTyped(u) /\ u.pc = "replace" /\ u.job = "register" /\ u.place = Absent
  BY <1>1, <1>2, <1>5 DEF WorkTyped, States
<1>7. work' = [work EXCEPT ![r] = u]
  BY <1>1, <1>3, <1>5
<1>8. AllWorkTyped' /\ Alone(r) /\ work'[r] = u
  BY <1>1, <1>6, <1>7, OneWorks
<1>9. \A q \in Runs \ {r} : ~(Registers(q)')
  BY <1>2, <1>8 DEF Alone, Same, Registers
<1>10. ASSUME NEW q \in Runs PROVE OwnFile(q)'
  <2>1. OwnFile(q)
    BY DEF PreparationInv
  <2>2. CASE q = r
    BY <1>4, <1>6, <1>8, <1>9, <2>2 DEF OwnFile
  <2>3. CASE q # r
    BY <1>1, <1>2, <1>6, <1>8, <1>9, <2>1, <2>3 DEF OwnFile, Alone, Same, Registers
  <2> QED BY <2>2, <2>3
<1> QED
  BY <1>1, <1>4, <1>8, <1>10 DEF PreparationInv, PreparationTypeOK, FilesTyped, WholeInv

\* An edit, or a new registration, under processes that are at work.
LEMMA DisturbedKeeps ==
  ASSUME AllWorkTyped, NEW self, NEW q \in Runs
  PROVE  /\ WorkTyped(Disturbed(self)[q])
         /\ \A u \in {Disturbed(self)[q]} :
              /\ u.job = work[q].job /\ u.pc = work[q].pc /\ u.place = work[q].place
              /\ u.result = work[q].result /\ u.profile = work[q].profile
<1>1. WorkTyped(work[q])
  BY DEF AllWorkTyped
<1>2. CASE q # self /\ ~Unstarted(q)
  <2>1. PICK u : u = [work[q] EXCEPT !.edited = TRUE]
    OBVIOUS
  <2>2. /\ WorkTyped(u) /\ u.job = work[q].job /\ u.pc = work[q].pc /\ u.place = work[q].place
        /\ u.result = work[q].result /\ u.profile = work[q].profile
    BY <1>1, <2>1 DEF WorkTyped
  <2>3. Disturbed(self)[q] = u
    BY <1>2, <2>1 DEF Disturbed
  <2> QED BY <2>2, <2>3
<1>3. CASE ~(q # self /\ ~Unstarted(q))
  <2>1. Disturbed(self)[q] = work[q]
    BY <1>3 DEF Disturbed
  <2> QED BY <1>1, <2>1
<1> QED BY <1>2, <1>3

LEMMA ReplaceKeeps ==
  ASSUME PreparationInv, NEW r \in Runs, ReplaceRegistered(r)
  PROVE  PreparationInv'
<1>1. /\ AllWorkTyped /\ WorkTyped(work[r]) /\ OwnFile(r)
      /\ work[r].pc = "replace" /\ UNCHANGED outputs
  BY DEF PreparationInv, PreparationTypeOK, AllWorkTyped, ReplaceRegistered, Stands
<1>2. /\ Registers(r) /\ work[r].place = Absent /\ work[r].job # "none"
      /\ temporary # Absent /\ temporary.whole /\ \A q \in Runs \ {r} : ~Registers(q)
  BY <1>1 DEF OwnFile, Registers
<1>3. /\ registered' = temporary /\ temporary' = Absent
      /\ work' = [Disturbed(r) EXCEPT ![r].pc = "done"]
  BY DEF ReplaceRegistered
<1>4. r \in DOMAIN Disturbed(r) /\ Disturbed(r)[r] = work[r]
  BY DEF Disturbed
<1>5. PICK u : u = [work[r] EXCEPT !.pc = "done"]
  OBVIOUS
<1>6. WorkTyped(u) /\ u.pc = "done" /\ u.job = work[r].job /\ u.place = Absent
  BY <1>1, <1>2, <1>5 DEF WorkTyped, States, Ended
<1>7. work' = [Disturbed(r) EXCEPT ![r] = u]
  BY <1>3, <1>4, <1>5
<1>8. /\ work' = [q \in Runs |-> work'[q]] /\ work'[r] = u
      /\ \A q \in Runs \ {r} : work'[q] = Disturbed(r)[q]
  BY <1>7 DEF Disturbed
<1>9. Alone(r)
  BY <1>1, <1>8, DisturbedKeeps DEF Alone, Same
<1>10. AllWorkTyped'
  <2>1. \A q \in Runs : WorkTyped(work'[q])
    BY <1>1, <1>6, <1>8, DisturbedKeeps
  <2> QED BY <1>8, <2>1 DEF AllWorkTyped, WorkTyped
<1>11. \A q \in Runs : ~(Registers(q)') /\ work'[q].place = work[q].place
  BY <1>2, <1>6, <1>8, <1>9 DEF Alone, Same, Registers
<1>12. ASSUME NEW q \in Runs PROVE OwnFile(q)'
  <2>1. OwnFile(q)
    BY DEF PreparationInv
  <2>2. CASE q = r
    BY <1>2, <1>6, <1>8, <1>11, <2>2 DEF OwnFile
  <2>3. CASE q # r
    BY <1>1, <1>2, <1>9, <1>11, <2>1, <2>3 DEF OwnFile, Alone, Same, Registers
  <2> QED BY <2>2, <2>3
<1>13. FilesTyped'
  BY <1>1, <1>3 DEF PreparationInv, PreparationTypeOK, FilesTyped
<1> QED
  BY <1>2, <1>3, <1>10, <1>12, <1>13 DEF PreparationInv, PreparationTypeOK, WholeInv

LEMMA EditKeeps ==
  ASSUME PreparationInv, Edit
  PROVE  PreparationInv'
<1>1. AllWorkTyped /\ work' = Disturbed(Absent) /\ UNCHANGED <<registry, outputs>>
  BY DEF PreparationInv, PreparationTypeOK, Edit
<1>2. AllWorkTyped' /\ \A q \in Runs : Same(q)
  <2>1. \A q \in Runs : WorkTyped(work'[q]) /\ Same(q)
    BY <1>1, DisturbedKeeps DEF Same
  <2>2. work' = [q \in Runs |-> work'[q]]
    BY <1>1 DEF Disturbed
  <2> QED BY <2>1, <2>2 DEF AllWorkTyped, WorkTyped
<1>3. \A q \in Runs : Registers(q)' <=> Registers(q)
  BY <1>2 DEF Same, Registers
<1>4. ASSUME NEW q \in Runs PROVE OwnFile(q)'
  <2>1. OwnFile(q)
    BY DEF PreparationInv
  <2> QED BY <1>1, <1>2, <1>3, <2>1 DEF OwnFile, Same, registry
<1> QED BY <1>1, <1>2, <1>4 DEF PreparationInv, PreparationTypeOK, FilesTyped, WholeInv, registry

LEMMA StopKeeps ==
  ASSUME PreparationInv, NEW r \in Runs, Stop(r)
  PROVE  PreparationInv'
<1>1. /\ AllWorkTyped /\ work[r].job # "none" /\ UNCHANGED <<registry, outputs>>
      /\ work' = [work EXCEPT ![r] = [Idle EXCEPT !.job = work[r].job, !.pc = "dead"]]
  BY DEF PreparationInv, PreparationTypeOK, Stop, Unstarted
<1> QED BY <1>1, GivenUpPlaceless, PlacelessKeeps

LEMMA PreparationStarts ==
  PreparationInit => PreparationInv
<1> SUFFICES ASSUME PreparationInit PROVE PreparationInv
  OBVIOUS
<1>1. PICK w : w = [Idle EXCEPT !.job = "none", !.pc = "new"]
  OBVIOUS
<1>2. w = Idle
  BY <1>1 DEF Idle
<1>3. WorkTyped(w) /\ w.pc = "new" /\ w.place = Absent /\ w.job = "none"
  <2>1. "new" \in States
    BY DEF States
  <2>2. w = [job |-> "none", pc |-> "new", recipe |-> Absent, profile |-> Absent, terms |-> {},
             report |-> "none", todo |-> <<>>, hits |-> <<>>, candidates |-> {},
             result |-> Absent, place |-> Absent, verdict |-> Absent, edited |-> FALSE]
    BY <1>1, IdleShape
  <2> QED BY <2>1, <2>2, IdleTyped
<1>4. work = [q \in Runs |-> w]
  BY <1>2 DEF PreparationInit
<1>5. AllWorkTyped
  <2>1. \A q \in Runs : work[q] = w
    BY <1>4
  <2>2. work = [q \in Runs |-> work[q]]
    BY <1>4
  <2> QED BY <1>3, <2>1, <2>2 DEF AllWorkTyped, WorkTyped
<1>6. \A q \in Runs : OwnFile(q)
  BY <1>3, <1>4 DEF OwnFile, Registers
<1>7. FilesTyped /\ WholeInv
  <2>1. registered \in {Absent} \cup {[profile |-> p, whole |-> TRUE] : p \in Profiles}
    BY DEF PreparationInit
  <2>2. registered \in Declaration \cup {Absent} /\ WholeInv
    <3>1. CASE registered = Absent
      BY <3>1 DEF WholeInv
    <3>2. CASE registered # Absent
      <4>1. PICK p \in Profiles : registered = [profile |-> p, whole |-> TRUE]
        BY <2>1, <3>2
      <4>2. registered.whole
        BY <4>1
      <4> QED BY <4>1, <4>2, Declares DEF WholeInv
    <3> QED BY <3>1, <3>2
  <2>3. temporary = Absent /\ outputs = [p \in Places |-> NoFile]
    BY DEF PreparationInit
  <2>4. \A p \in Places : outputs[p] = NoFile
    BY <2>3
  <2>5. NoFile.state = "none"
    BY DEF NoFile
  <2> QED BY <2>2, <2>3, <2>4, <2>5 DEF FilesTyped
<1> QED BY <1>5, <1>6, <1>7 DEF PreparationInv, PreparationTypeOK

\* The steps of all processes, and of the people who edit.
LEMMA PreparationSteps ==
  PreparationInv /\ [PreparationNext]_preparationVars => PreparationInv'
<1> SUFFICES ASSUME PreparationInv, [PreparationNext]_preparationVars PROVE PreparationInv'
  OBVIOUS
<1>1. AllWorkTyped
  BY DEF PreparationInv, PreparationTypeOK
<1>2. ASSUME NEW r \in Runs,
             \/ \E recipe \in Recipes : BeginTable(r, recipe)
             \/ \E job \in MayDo[r], terms \in Queries, report \in {"none"} \cup Formats :
                  BeginCode(r, job, terms, report)
      PROVE  PreparationInv'
  <2>1. UNCHANGED <<registry, outputs>>
    BY <1>2 DEF BeginTable, BeginCode
  <2>2. OwnFile(r)
    BY DEF PreparationInv
  <2> QED BY <1>1, <1>2, <2>1, <2>2, BeginsPlaceless, PlacelessKeeps
<1>3. ASSUME NEW r \in Runs, ReadRows(r) PROVE PreparationInv'
  <2>1. UNCHANGED <<registry, outputs>> /\ OwnFile(r)
    BY <1>3 DEF ReadRows, PreparationInv
  <2> QED BY <1>1, <1>3, <2>1, ReadRowsPlaceless, PlacelessKeeps
<1>4. ASSUME NEW r \in Runs,
             Digest(r) \/ Discover(r) \/ Search(r) \/ Rank(r) \/ Detail(r) \/ Conclude(r)
      PROVE  PreparationInv'
  <2>1. UNCHANGED <<registry, outputs>> /\ OwnFile(r)
    BY <1>4 DEF Digest, Discover, Search, Rank, Detail, Conclude, PreparationInv
  <2> QED BY <1>1, <1>4, <2>1, AnalysisPlaceless, PlacelessKeeps
<1>5. ASSUME NEW r \in Runs, NEW profile \in Profiles, CreateTemporary(r, profile)
      PROVE  PreparationInv'
  BY <1>5, CreateTemporaryKeeps
<1>6. ASSUME NEW r \in Runs,
             \/ CreateOutput(r) \/ FillOutput(r) \/ Verify(r)
             \/ FillTemporary(r) \/ ReplaceRegistered(r) \/ Stop(r)
      PROVE  PreparationInv'
  BY <1>6, CreateOutputKeeps, FillOutputKeeps, VerifyKeeps, FillTemporaryKeeps, ReplaceKeeps,
     StopKeeps
<1>7. CASE EditSheet \/ EditPath \/ EditDatabase
  BY <1>7, EditKeeps DEF EditSheet, EditPath, EditDatabase
<1>8. CASE UNCHANGED preparationVars
  BY <1>8 DEF preparationVars, PreparationInv, PreparationTypeOK, AllWorkTyped, WorkTyped,
     FilesTyped, WholeInv, OwnFile, Registers, registry
<1> QED BY <1>2, <1>3, <1>4, <1>5, <1>6, <1>7, <1>8 DEF PreparationNext

\* Processes, stored profiles and reports are always what the declarations say.
THEOREM PreparationTypesHold == PreparationSpec => []PreparationTypeOK
<1>1. PreparationInv => PreparationTypeOK
  BY DEF PreparationInv
<1> QED BY <1>1, PreparationStarts, PreparationSteps, PTL DEF PreparationSpec

\* The stored profile is always a whole one, and a file that a process has returned keeps what it
\* returned, whatever other processes create, overwrite, fail in or die of, for any number of
\* processes, versions and edits.
THEOREM FiledFilesAreKept == PreparationSpec => []FiledIsKept
<1>1. PreparationInv => FiledIsKept
  BY DEF PreparationInv, WholeInv, OwnFile, FiledIsKept
<1> QED BY <1>1, PreparationStarts, PreparationSteps, PTL DEF PreparationSpec

-----------------------------------------------------------------------------
(***************************************************************************)
(* Finite orders, maxima and recursion.                                    *)
(***************************************************************************)
\* What Max returns of a set of numbers below a bound.
LEMMA MaxFacts ==
  ASSUME NEW N \in Nat, NEW S \in SUBSET (0..N), S # {}
  PROVE  Max(S) \in S /\ \A k \in S : k <= Max(S)
<1> DEFINE T == {k \in Nat : \A n \in S : n <= k}
<1>1. T \in SUBSET Nat /\ N \in T
  OBVIOUS
<1> HIDE DEF T
<1>2. PICK k \in T : \A j \in T : k <= j
  BY <1>1, LeastNumber
<1> USE DEF T
<1>3. k \in Nat /\ \A n \in S : n \in Nat /\ n <= k
  BY <1>2
<1>4. k \in S
  <2> SUFFICES ASSUME k \notin S PROVE FALSE
    OBVIOUS
  <2>1. \A n \in S : n < k
    BY <1>3
  <2>2. PICK m \in S : TRUE
    OBVIOUS
  <2>3. k - 1 \in Nat /\ \A n \in S : n <= k - 1
    <3>1. m \in Nat /\ m < k
      BY <1>3, <2>1
    <3> QED BY <1>3, <2>1, <3>1
  <2>4. k - 1 \in T
    BY <2>3
  <2> QED BY <1>2, <1>3, <2>4
<1>5. \E x \in S : \A y \in S : x >= y
  BY <1>3, <1>4
<1>6. Max(S) \in S /\ \A y \in S : Max(S) >= y
  BY <1>5 DEF Max
<1> QED BY <1>3, <1>6

\* Finitely many numbers have a bound.
Bounded(f, k) == \E N \in Nat : \A i \in 1..k : f[i] <= N

LEMMA BoundExists ==
  ASSUME NEW n \in Nat, NEW f \in [1..n -> Nat]
  PROVE  Bounded(f, n)
<1> DEFINE F == {k \in Nat : k <= n /\ ~Bounded(f, k)}
<1> SUFFICES ASSUME F # {} PROVE FALSE
  OBVIOUS
<1>1. PICK k \in F : \A j \in F : k <= j
  BY LeastNumber
<1>2. k \in Nat /\ k <= n /\ ~Bounded(f, k)
  OBVIOUS
<1>3. k # 0
  <2>1. \A i \in 1..0 : f[i] <= 0
    OBVIOUS
  <2>2. Bounded(f, 0)
    BY <2>1 DEF Bounded
  <2> QED BY <1>2, <2>2
<1>4. k - 1 \in Nat /\ k - 1 <= n /\ k \in 1..n
  BY <1>2, <1>3
<1>5. Bounded(f, k - 1)
  BY <1>1, <1>2, <1>4
<1>6. PICK N \in Nat : \A i \in 1..(k - 1) : f[i] <= N
  BY <1>5 DEF Bounded
<1>7. f[k] \in Nat
  BY <1>4
<1>8. PICK M \in Nat : M >= N /\ M >= f[k]
  <2>1. CASE N >= f[k]
    BY <2>1
  <2>2. CASE N < f[k]
    BY <1>7, <2>2
  <2> QED BY <1>7, <2>1, <2>2
<1>9. ASSUME NEW i \in 1..k PROVE f[i] <= M
  <2>1. CASE i = k
    BY <1>8, <2>1
  <2>2. CASE i # k
    <3>1. i \in 1..(k - 1) /\ i \in 1..n
      BY <1>2, <2>2
    <3>2. f[i] \in Nat /\ f[i] <= N
      BY <1>6, <3>1
    <3> QED BY <1>7, <1>8, <3>2
  <2> QED BY <2>1, <2>2
<1>10. Bounded(f, k)
  BY <1>9 DEF Bounded
<1> QED BY <1>2, <1>10

\* A recursion of n steps has a solution: step i takes t to G[i][t].
Chain(f, n, base, G) == f = [i \in 0..n |-> IF i = 0 THEN base ELSE G[i][f[i - 1]]]

LEMMA ChainExists ==
  ASSUME NEW T, NEW base \in T, NEW n \in Nat, NEW G \in [1..n -> [T -> T]]
  PROVE  \E f \in [0..n -> T] : Chain(f, n, base, G)
<1> DEFINE F == {k \in Nat : k <= n /\ ~\E f \in [0..k -> T] : Chain(f, k, base, G)}
<1> SUFFICES ASSUME F # {} PROVE FALSE
  OBVIOUS
<1>1. PICK k \in F : \A j \in F : k <= j
  BY LeastNumber
<1>2. k # 0
  <2> DEFINE f == [i \in 0..0 |-> base]
  <2>1. f \in [0..0 -> T] /\ Chain(f, 0, base, G)
    BY DEF Chain
  <2> QED BY <2>1
<1>3. k - 1 \in Nat /\ k - 1 \notin F /\ k - 1 <= n /\ k \in 1..n
  BY <1>1, <1>2
<1>4. PICK f \in [0..(k - 1) -> T] : Chain(f, k - 1, base, G)
  BY <1>3
<1> DEFINE g == [i \in 0..k |-> IF i = k THEN G[k][f[k - 1]] ELSE f[i]]
<1>5. f[k - 1] \in T /\ G[k][f[k - 1]] \in T
  BY <1>3, <1>4
<1>6. g \in [0..k -> T]
  BY <1>3, <1>4, <1>5
<1>7. ASSUME NEW i \in 0..k PROVE g[i] = IF i = 0 THEN base ELSE G[i][g[i - 1]]
  <2>1. CASE i = k
    BY <1>2, <1>3, <2>1
  <2>2. CASE i # k
    <3>1. i \in 0..(k - 1) /\ g[i] = f[i]
      BY <1>3, <2>2
    <3>2. f[i] = IF i = 0 THEN base ELSE G[i][f[i - 1]]
      BY <1>4, <3>1 DEF Chain
    <3>3. i # 0 => g[i - 1] = f[i - 1]
      BY <3>1
    <3> QED BY <3>1, <3>2, <3>3
  <2> QED BY <2>1, <2>2
<1>8. Chain(g, k, base, G)
  BY <1>7 DEF Chain
<1> QED BY <1>1, <1>6, <1>8

\* A total order on S, as a set of pairs.
TotalOrder(S, R) ==
  /\ \A a \in S : <<a, a>> \notin R
  /\ \A a, b \in S : a # b => <<a, b>> \in R \/ <<b, a>> \in R
  /\ \A a, b, c \in S : <<a, b>> \in R /\ <<b, c>> \in R => <<a, c>> \in R
Arranges(e, S, n, R) ==
  e \in [1..n -> S] /\ \A i, j \in 1..n : i < j => <<e[i], e[j]>> \in R

LEMMA Extended ==
  ASSUME NEW S, NEW R, TotalOrder(S, R), NEW U \in SUBSET S, NEW m \in S, NEW n \in Nat, NEW e,
         Arranges(e, U, n, R), \A u \in U : <<u, m>> \in R
  PROVE  \E f : Arranges(f, U \cup {m}, n + 1, R)
<1> DEFINE f == [i \in 1..(n + 1) |-> IF i = n + 1 THEN m ELSE e[i]]
<1>1. f \in [1..(n + 1) -> U \cup {m}]
  BY DEF Arranges
<1>2. ASSUME NEW i \in 1..(n + 1), NEW j \in 1..(n + 1), i < j PROVE <<f[i], f[j]>> \in R
  <2>1. i \in 1..n /\ f[i] = e[i] /\ e[i] \in U
    BY <1>2 DEF Arranges
  <2>2. CASE j = n + 1
    BY <2>1, <2>2
  <2>3. CASE j # n + 1
    BY <1>2, <2>1, <2>3 DEF Arranges
  <2> QED BY <2>2, <2>3
<1> QED BY <1>1, <1>2 DEF Arranges

\* Places of an arrangement differ in what is there.
LEMMA ArrangedDistinct ==
  ASSUME NEW S, NEW R, TotalOrder(S, R), NEW U \in SUBSET S, NEW n \in Nat, NEW e, Arranges(e, U, n, R)
  PROVE  e \in Injection(1..n, U) /\ IsInjective(e)
<1>1. e \in [1..n -> U]
  BY DEF Arranges
<1>2. ASSUME NEW i \in 1..n, NEW j \in 1..n, i < j PROVE e[i] # e[j]
  <2>1. <<e[i], e[j]>> \in R /\ e[i] \in S
    BY <1>1, <1>2 DEF Arranges
  <2> QED BY <2>1 DEF TotalOrder
<1>3. ASSUME NEW i \in 1..n, NEW j \in 1..n, e[i] = e[j] PROVE i = j
  <2>1. i < j \/ j < i \/ i = j
    OBVIOUS
  <2> QED BY <1>2, <1>3, <2>1
<1> QED BY <1>1, <1>3 DEF Injection, IsInjective

LEMMA OrderExists ==
  ASSUME NEW S, IsFiniteSet(S), NEW R, TotalOrder(S, R)
  PROVE  \E e : Arranges(e, S, Cardinality(S), R)
<1> DEFINE F == {k \in Nat : \E U \in SUBSET S : Cardinality(U) = k /\ ~\E e : Arranges(e, U, k, R)}
<1> SUFFICES ASSUME ~\E e : Arranges(e, S, Cardinality(S), R) PROVE FALSE
  OBVIOUS
<1>1. Cardinality(S) \in F
  BY FS_CardinalityType
<1>2. PICK k \in F : \A j \in F : k <= j
  BY <1>1, LeastNumber
<1>3. PICK U \in SUBSET S : Cardinality(U) = k /\ ~\E e : Arranges(e, U, k, R)
  BY <1>2
<1>4. IsFiniteSet(U)
  BY FS_Subset
<1>5. k # 0
  <2> SUFFICES ASSUME k = 0 PROVE FALSE
    OBVIOUS
  <2>1. Arranges(<<>>, U, 0, R)
    BY DEF Arranges
  <2> QED BY <1>3, <2>1
<1>6. PICK x \in U : TRUE
  BY <1>3, <1>4, <1>5, FS_EmptySet
<1>7. ASSUME NEW y \in U
      PROVE  \E e : Arranges(e, U \ {y}, k - 1, R)
  <2>1. Cardinality(U \ {y}) = k - 1 /\ k - 1 \in Nat
    <3>1. k \in Nat /\ k # 0 /\ Cardinality(U) = k
      BY <1>2, <1>3, <1>5
    <3>2. Cardinality(U \ {y}) = Cardinality(U) - 1
      BY <1>4, FS_RemoveElement
    <3> QED BY <3>1, <3>2
  <2>2. k - 1 \notin F
    BY <1>2, <2>1
  <2> QED BY <2>1, <2>2
<1>8. ASSUME NEW m \in U, \A u \in U \ {m} : <<u, m>> \in R PROVE FALSE
  <2>1. PICK e : Arranges(e, U \ {m}, k - 1, R)
    BY <1>7
  <2>2. k - 1 \in Nat /\ (U \ {m}) \cup {m} = U /\ (k - 1) + 1 = k
    BY <1>2, <1>5
  <2>3. \E f : Arranges(f, (U \ {m}) \cup {m}, (k - 1) + 1, R)
    BY <1>8, <2>1, <2>2, Extended
  <2> QED BY <1>3, <2>2, <2>3
<1>9. PICK e : Arranges(e, U \ {x}, k - 1, R)
  BY <1>7
<1>10. CASE k = 1
  <2>1. U = {x}
    BY <1>3, <1>4, <1>10, FS_Singleton
  <2> QED BY <1>8, <2>1
<1>11. CASE k # 1
  <2>1. k - 1 \in Nat /\ k - 1 \in 1..(k - 1)
    BY <1>2, <1>5, <1>11
  <2> DEFINE l == e[k - 1]
  <2>2. l \in U \ {x}
    BY <1>9, <2>1 DEF Arranges
  <2>3. Cardinality(U \ {x}) = k - 1 /\ IsFiniteSet(U \ {x})
    BY <1>3, <1>4, FS_RemoveElement
  <2>4. \A y \in U \ {x} : \E i \in 1..(k - 1) : e[i] = y
    <3>1. e \in Injection(1..(k - 1), U \ {x})
      BY <1>9, <2>1, ArrangedDistinct
    <3>2. IsFiniteSet(1..(k - 1)) /\ Cardinality(1..(k - 1)) = k - 1
      BY <2>1, FS_Interval
    <3>3. e \in Surjection(1..(k - 1), U \ {x})
      BY <2>3, <3>1, <3>2, FS_Injection
    <3> QED BY <3>3 DEF Surjection
  <2>5. \A y \in U \ {x, l} : <<y, l>> \in R
    BY <1>9, <2>1, <2>4 DEF Arranges
  <2>6. CASE <<l, x>> \in R
    <3>1. \A u \in U \ {x} : <<u, x>> \in R
      BY <2>2, <2>5, <2>6 DEF TotalOrder
    <3> QED BY <1>8, <3>1
  <2>7. CASE <<l, x>> \notin R
    <3>1. <<x, l>> \in R
      BY <2>2, <2>7 DEF TotalOrder
    <3>2. \A u \in U \ {l} : <<u, l>> \in R
      BY <2>5, <3>1
    <3> QED BY <1>8, <2>2, <3>2
  <2> QED BY <2>6, <2>7
<1> QED BY <1>10, <1>11

\* An arrangement has every element, and once.
LEMMA ArrangedOnce ==
  ASSUME NEW S, IsFiniteSet(S), NEW R, TotalOrder(S, R), NEW e, Arranges(e, S, Cardinality(S), R)
  PROVE  /\ e \in [1..Cardinality(S) -> S] /\ Cardinality(S) \in Nat
         /\ IsInjective(e)
         /\ \A y \in S : \E i \in 1..Cardinality(S) : e[i] = y
<1>1. Cardinality(S) \in Nat
  BY FS_CardinalityType
<1>3. e \in Injection(1..Cardinality(S), S) /\ IsInjective(e)
  BY <1>1, ArrangedDistinct
<1>4. IsFiniteSet(1..Cardinality(S)) /\ Cardinality(1..Cardinality(S)) = Cardinality(S)
  BY <1>1, FS_Interval
<1>5. e \in Surjection(1..Cardinality(S), S)
  BY <1>3, <1>4, FS_Injection
<1> QED BY <1>1, <1>3, <1>5 DEF Surjection, Arranges

LEMMA SetToSeqFacts ==
  ASSUME NEW S, IsFiniteSet(S)
  PROVE  /\ SetToSeq(S) \in Seq(S) /\ IsInjective(SetToSeq(S))
         /\ \A x \in S : \E i \in DOMAIN SetToSeq(S) : SetToSeq(S)[i] = x
<1>1. Cardinality(S) \in Nat /\ ExistsBijection(1..Cardinality(S), S)
  BY FS_CardinalityType
<1>2. \E f \in [1..Cardinality(S) -> S] : IsInjective(f)
  BY <1>1 DEF ExistsBijection, Bijection, Injection, IsInjective
<1>3. SetToSeq(S) \in [1..Cardinality(S) -> S] /\ IsInjective(SetToSeq(S))
  BY <1>2 DEF SetToSeq
<1>4. SetToSeq(S) \in Injection(1..Cardinality(S), S)
  BY <1>3 DEF Injection, IsInjective
<1>5. IsFiniteSet(1..Cardinality(S)) /\ Cardinality(1..Cardinality(S)) = Cardinality(S)
  BY <1>1, FS_Interval
<1>6. SetToSeq(S) \in Surjection(1..Cardinality(S), S)
  BY <1>4, <1>5, FS_Injection
<1> QED BY <1>1, <1>3, <1>6 DEF Surjection

-----------------------------------------------------------------------------
(***************************************************************************)
(* Tables that are written and read.                                       *)
(***************************************************************************)
Tables == Seq(Seq(Cells))

LEMMA TableShape ==
  ASSUME NEW rows \in Tables
  PROVE  /\ Len(rows) \in Nat /\ DOMAIN rows = 1..Len(rows)
         /\ rows = [i \in DOMAIN rows |-> rows[i]]
         /\ \A i \in DOMAIN rows :
              /\ rows[i] \in Seq(Cells) /\ Len(rows[i]) \in Nat /\ DOMAIN rows[i] = 1..Len(rows[i])
              /\ rows[i] = [j \in DOMAIN rows[i] |-> rows[i][j]]
<1>1. Len(rows) \in Nat /\ DOMAIN rows = 1..Len(rows) /\ rows = [i \in DOMAIN rows |-> rows[i]]
  BY DEF Tables
<1>2. ASSUME NEW i \in DOMAIN rows
      PROVE  /\ rows[i] \in Seq(Cells) /\ Len(rows[i]) \in Nat /\ DOMAIN rows[i] = 1..Len(rows[i])
             /\ rows[i] = [j \in DOMAIN rows[i] |-> rows[i][j]]
  <2>1. rows[i] \in Seq(Cells)
    BY DEF Tables
  <2> QED BY <2>1
<1> QED BY <1>1, <1>2

LEMMA WidthFacts ==
  ASSUME NEW C, NEW rows \in Seq(Seq(C))
  PROVE  /\ Width(rows) \in Nat
         /\ \A i \in DOMAIN rows : Len(rows[i]) <= Width(rows)
         /\ Width(rows) = 0 \/ \E i \in DOMAIN rows : Len(rows[i]) = Width(rows)
<1> DEFINE n == Len(rows)
           f == [i \in 1..n |-> Len(rows[i])]
           S == {0} \cup {Len(rows[i]) : i \in DOMAIN rows}
<1>1. n \in Nat /\ DOMAIN rows = 1..n /\ \A i \in 1..n : Len(rows[i]) \in Nat
  OBVIOUS
<1>2. f \in [1..n -> Nat]
  BY <1>1
<1>3. PICK N \in Nat : \A i \in 1..n : f[i] <= N
  <2> HIDE DEF f
  <2> QED BY <1>1, <1>2, BoundExists DEF Bounded
<1>4. S \in SUBSET (0..N) /\ S # {}
  BY <1>1, <1>3
<1>5. Max(S) \in S /\ \A k \in S : k <= Max(S)
  <2> HIDE DEF S
  <2> QED BY <1>4, MaxFacts
<1>6. Width(rows) = Max(S)
  BY DEF Width
<1>7. Max(S) = 0 \/ \E i \in DOMAIN rows : Len(rows[i]) = Max(S)
  <2> DEFINE m == Max(S)
  <2>1. m \in S
    BY <1>5
  <2> HIDE DEF m
  <2>2. m = 0 \/ \E i \in DOMAIN rows : Len(rows[i]) = m
    BY <2>1
  <2> QED BY <2>2 DEF m
<1>8. \A i \in DOMAIN rows : Len(rows[i]) <= Max(S)
  <2>1. \A i \in DOMAIN rows : Len(rows[i]) \in S
    OBVIOUS
  <2> HIDE DEF S
  <2> QED BY <1>5, <2>1
<1>9. Max(S) \in Nat
  <2>1. \A k \in S : k \in Nat
    BY <1>4
  <2> HIDE DEF S
  <2> QED BY <1>5, <2>1
<1> HIDE DEF n, S
<1> QED BY <1>6, <1>7, <1>8, <1>9

LEMMA PaddedFacts ==
  ASSUME NEW rows \in Tables, NEW w \in Nat
  PROVE  /\ Padded(rows, w) \in Tables /\ Len(Padded(rows, w)) = Len(rows)
         /\ \A i \in DOMAIN rows : /\ Padded(rows, w)[i] = [j \in 1..w |-> At(rows[i], j)]
                                   /\ Len(Padded(rows, w)[i]) = w
<1>1. Len(rows) \in Nat /\ DOMAIN rows = 1..Len(rows) /\ \A i \in DOMAIN rows : rows[i] \in Seq(Cells)
  BY DEF Tables
<1>2. ASSUME NEW i \in DOMAIN rows, NEW j \in 1..w PROVE At(rows[i], j) \in Cells
  BY <1>1, CellAssumption DEF At
<1>3. ASSUME NEW i \in DOMAIN rows
      PROVE  [j \in 1..w |-> At(rows[i], j)] \in Seq(Cells) /\ Len([j \in 1..w |-> At(rows[i], j)]) = w
  BY <1>2
<1>4. Padded(rows, w) = [i \in 1..Len(rows) |-> [j \in 1..w |-> At(rows[i], j)]]
  BY <1>1 DEF Padded
<1>5. Padded(rows, w) \in Seq(Seq(Cells)) /\ Len(Padded(rows, w)) = Len(rows)
  BY <1>1, <1>3, <1>4
<1> QED BY <1>1, <1>3, <1>4, <1>5 DEF Tables

\* Padding leaves a table alone exactly if its rows have that width.
LEMMA PaddedSame ==
  ASSUME NEW rows \in Tables, NEW w \in Nat
  PROVE  Padded(rows, w) = rows <=> \A i \in DOMAIN rows : Len(rows[i]) = w
<1>1. /\ Len(rows) \in Nat /\ DOMAIN rows = 1..Len(rows) /\ \A i \in DOMAIN rows : rows[i] \in Seq(Cells)
      /\ rows = [i \in DOMAIN rows |-> rows[i]]
      /\ \A i \in DOMAIN rows : rows[i] = [j \in DOMAIN rows[i] |-> rows[i][j]]
  BY TableShape
<1>2. ASSUME Padded(rows, w) = rows, NEW i \in DOMAIN rows PROVE Len(rows[i]) = w
  <2>1. Len(Padded(rows, w)[i]) = w
    BY PaddedFacts
  <2> QED BY <1>2, <2>1
<1>3. ASSUME \A i \in DOMAIN rows : Len(rows[i]) = w PROVE Padded(rows, w) = rows
  <2>1. ASSUME NEW i \in DOMAIN rows PROVE [j \in 1..w |-> At(rows[i], j)] = rows[i]
    <3>1. Len(rows[i]) = w /\ rows[i] \in Seq(Cells) /\ DOMAIN rows[i] = 1..w
      BY <1>1, <1>3
    <3> QED BY <3>1 DEF At
  <2>2. Padded(rows, w) = [i \in DOMAIN rows |-> rows[i]]
    BY <2>1 DEF Padded
  <2> QED BY <1>1, <2>2
<1> QED BY <1>2, <1>3

LEMMA CellsFinite ==
  ASSUME NEW rows \in Tables
  PROVE  /\ IsFiniteSet(UNION {ToSet(rows[i]) : i \in DOMAIN rows})
         /\ UNION {ToSet(rows[i]) : i \in DOMAIN rows} \subseteq Cells
<1>1. /\ Len(rows) \in Nat /\ DOMAIN rows = 1..Len(rows) /\ \A i \in DOMAIN rows : rows[i] \in Seq(Cells)
      /\ rows = [i \in DOMAIN rows |-> rows[i]]
      /\ \A i \in DOMAIN rows : rows[i] = [j \in DOMAIN rows[i] |-> rows[i][j]]
  BY TableShape
<1> DEFINE K == {ToSet(rows[i]) : i \in DOMAIN rows}
           g == [i \in DOMAIN rows |-> ToSet(rows[i])]
<1>2. IsFiniteSet(K)
  <2>1. g \in Surjection(DOMAIN rows, K)
    BY DEF Surjection
  <2>2. IsFiniteSet(DOMAIN rows)
    <3>1. \A n \in Nat : IsFiniteSet(1..n)
      BY FS_Interval
    <3> QED BY <1>1, <3>1
  <2> HIDE DEF g, K
  <2> QED BY <2>1, <2>2, FS_Surjection
<1>3. ASSUME NEW i \in DOMAIN rows PROVE IsFiniteSet(ToSet(rows[i])) /\ ToSet(rows[i]) \subseteq Cells
  <2>1. rows[i] \in Seq(Cells) /\ DOMAIN rows[i] = 1..Len(rows[i]) /\ Len(rows[i]) \in Nat
    BY <1>1
  <2>2. rows[i] \in Surjection(DOMAIN rows[i], ToSet(rows[i]))
    BY <2>1 DEF Surjection, ToSet
  <2>3. IsFiniteSet(DOMAIN rows[i])
    BY <2>1, FS_Interval
  <2> QED BY <2>1, <2>2, <2>3, FS_Surjection DEF ToSet
<1>4. \A T \in K : IsFiniteSet(T)
  BY <1>3
<1>5. IsFiniteSet(UNION K)
  <2> HIDE DEF K
  <2> QED BY <1>2, <1>4, FS_UNION
<1> QED BY <1>3, <1>5

\* What XML gives back of the cells, if it can hold them.
Holds(rows) == UNION {ToSet(rows[i]) : i \in DOMAIN rows} \subseteq DOMAIN XmlText
GivenBack(rows) == [i \in DOMAIN rows |-> [j \in DOMAIN rows[i] |-> XmlText[rows[i][j]]]]

LEMMA GivenBackFacts ==
  ASSUME NEW rows \in Tables, Holds(rows)
  PROVE  /\ GivenBack(rows) \in Tables /\ Len(GivenBack(rows)) = Len(rows)
         /\ \A i \in DOMAIN rows :
              /\ Len(GivenBack(rows)[i]) = Len(rows[i])
              /\ \A j \in DOMAIN rows[i] : GivenBack(rows)[i][j] = XmlText[rows[i][j]]
<1>1. /\ Len(rows) \in Nat /\ DOMAIN rows = 1..Len(rows)
      /\ \A i \in DOMAIN rows : DOMAIN rows[i] = 1..Len(rows[i]) /\ Len(rows[i]) \in Nat
  BY TableShape
<1>2. ASSUME NEW i \in DOMAIN rows, NEW j \in DOMAIN rows[i]
      PROVE  XmlText[rows[i][j]] \in Cells
  <2>1. rows[i][j] \in DOMAIN XmlText
    BY DEF Holds, ToSet
  <2> QED BY <2>1, CellAssumption
<1> DEFINE g == GivenBack(rows)
<1>3. ASSUME NEW i \in DOMAIN rows
      PROVE  /\ g[i] \in Seq(Cells) /\ Len(g[i]) = Len(rows[i])
             /\ \A j \in DOMAIN rows[i] : g[i][j] = XmlText[rows[i][j]]
  <2>1. g[i] = [j \in DOMAIN rows[i] |-> XmlText[rows[i][j]]]
    BY DEF GivenBack
  <2>2. DOMAIN rows[i] = 1..Len(rows[i]) /\ Len(rows[i]) \in Nat
    BY <1>1
  <2> HIDE DEF g
  <2> QED BY <1>2, <2>1, <2>2
<1>4. DOMAIN g = 1..Len(rows) /\ g = [i \in 1..Len(rows) |-> g[i]]
  BY <1>1 DEF GivenBack
<1> HIDE DEF g
<1>5. g \in Seq(Seq(Cells)) /\ Len(g) = Len(rows)
  BY <1>1, <1>3, <1>4
<1> QED BY <1>3, <1>5 DEF g, Tables

\* What a reader of cells, shared texts and their indexes makes of a written workbook.
LEMMA XlsxReads ==
  ASSUME NEW rows \in Tables
  PROVE  ReadXlsx(WriteXlsx(rows)) = IF Holds(rows) /\ SheetFits(rows)
                                     THEN Rows(Padded(GivenBack(rows), Width(rows))) ELSE Failed
<1>1. /\ Len(rows) \in Nat /\ DOMAIN rows = 1..Len(rows) /\ \A i \in DOMAIN rows : rows[i] \in Seq(Cells)
      /\ rows = [i \in DOMAIN rows |-> rows[i]]
      /\ \A i \in DOMAIN rows : rows[i] = [j \in DOMAIN rows[i] |-> rows[i][j]]
  BY TableShape
<1> DEFINE S == UNION {ToSet(rows[i]) : i \in DOMAIN rows}
           shared == SetToSeq(S)
           file == WriteXlsx(rows)
           sheet1 == [i \in DOMAIN rows |->
                        [j \in DOMAIN rows[i] |-> Position(shared, rows[i][j]) - 1]]
<1>2. file = [shared |-> shared, sheet |-> sheet1]
  BY DEF WriteXlsx
<1>3. shared \in Seq(S) /\ \A x \in S : \E k \in DOMAIN shared : shared[k] = x
  <2> HIDE DEF S
  <2>1. IsFiniteSet(S)
    BY CellsFinite DEF S
  <2> QED BY <2>1, SetToSeqFacts
<1>4. ASSUME NEW i \in DOMAIN rows, NEW j \in DOMAIN rows[i]
      PROVE  /\ Position(shared, rows[i][j]) \in Nat
             /\ shared[Position(shared, rows[i][j])] = rows[i][j]
  <2>1. rows[i][j] \in S
    BY DEF ToSet
  <2>2. PICK k \in DOMAIN shared : shared[k] = rows[i][j]
    BY <1>3, <2>1
  <2> HIDE DEF S, shared
  <2>3. Position(shared, rows[i][j]) \in DOMAIN shared /\ shared[Position(shared, rows[i][j])] = rows[i][j]
    BY <2>2 DEF Position
  <2>4. DOMAIN shared \subseteq Nat
    BY <1>3
  <2> QED BY <2>3, <2>4
<1> HIDE DEF shared
<1>5. /\ sheet1 \in Seq(Seq(Int)) /\ DOMAIN sheet1 = DOMAIN rows
      /\ \A i \in DOMAIN rows : /\ DOMAIN sheet1[i] = DOMAIN rows[i] /\ Len(sheet1[i]) = Len(rows[i])
                                /\ \A j \in DOMAIN rows[i] : sheet1[i][j] = Position(shared, rows[i][j]) - 1
  <2>1. ASSUME NEW i \in DOMAIN rows
        PROVE  /\ sheet1[i] \in Seq(Int) /\ DOMAIN sheet1[i] = DOMAIN rows[i] /\ Len(sheet1[i]) = Len(rows[i])
               /\ \A j \in DOMAIN rows[i] : sheet1[i][j] = Position(shared, rows[i][j]) - 1
    <3>1. DOMAIN rows[i] = 1..Len(rows[i]) /\ Len(rows[i]) \in Nat
      BY <1>1
    <3>2. sheet1[i] = [j \in DOMAIN rows[i] |-> Position(shared, rows[i][j]) - 1]
      OBVIOUS
    <3>3. \A j \in DOMAIN rows[i] : Position(shared, rows[i][j]) - 1 \in Int
      BY <1>4
    <3> HIDE DEF sheet1
    <3> QED BY <3>1, <3>2, <3>3
  <2>2. DOMAIN sheet1 = 1..Len(rows)
    BY <1>1
  <2> HIDE DEF sheet1
  <2>3. sheet1 = [i \in 1..Len(rows) |-> sheet1[i]]
    BY <2>2 DEF sheet1
  <2> QED BY <1>1, <2>1, <2>2, <2>3
<1> HIDE DEF sheet1
<1>6. Width(sheet1) = Width(rows)
  <2>1. {Len(sheet1[i]) : i \in DOMAIN sheet1} = {Len(rows[i]) : i \in DOMAIN rows}
    BY <1>5
  <2> QED BY <2>1 DEF Width
<1>7. file.sheet = sheet1 /\ file.shared = shared
  BY <1>2
<1> HIDE DEF file
<1>10. ToSet(shared) \subseteq DOMAIN XmlText <=> Holds(rows)
  <2> HIDE DEF S
  <2>1. \A k \in DOMAIN shared : shared[k] \in S
    BY <1>3
  <2>2. ToSet(shared) = S
    BY <1>3, <2>1 DEF ToSet
  <2> QED BY <2>2 DEF Holds, S
<1>11. SheetFits(sheet1) <=> SheetFits(rows)
  <2>1. Len(sheet1) = Len(rows)
    BY <1>1, <1>5
  <2> QED BY <1>6, <2>1 DEF SheetFits
<1> DEFINE back == [i \in DOMAIN sheet1 |->
                      [j \in DOMAIN sheet1[i] |-> XmlText[shared[sheet1[i][j] + 1]]]]
<1>8. ReadXlsx(file) = IF ToSet(shared) \subseteq DOMAIN XmlText /\ SheetFits(sheet1)
                       THEN Rows(Padded(back, Width(sheet1))) ELSE Failed
  BY <1>7 DEF ReadXlsx
<1>9. back = GivenBack(rows)
  <2>1. ASSUME NEW i \in DOMAIN rows
        PROVE  [j \in DOMAIN sheet1[i] |-> XmlText[shared[sheet1[i][j] + 1]]]
                 = [j \in DOMAIN rows[i] |-> XmlText[rows[i][j]]]
    <3>1. \A j \in DOMAIN rows[i] : shared[sheet1[i][j] + 1] = rows[i][j]
      <4>1. ASSUME NEW j \in DOMAIN rows[i] PROVE shared[sheet1[i][j] + 1] = rows[i][j]
        <5>1. sheet1[i][j] = Position(shared, rows[i][j]) - 1 /\ Position(shared, rows[i][j]) \in Nat
          BY <1>4, <1>5
        <5>2. sheet1[i][j] + 1 = Position(shared, rows[i][j])
          BY <5>1
        <5> QED BY <1>4, <5>2
      <4> QED BY <4>1
    <3> QED BY <1>5, <3>1
  <2>2. back = [i \in DOMAIN rows |-> [j \in DOMAIN rows[i] |-> XmlText[rows[i][j]]]]
    BY <1>5, <2>1
  <2> QED BY <2>2 DEF GivenBack
<1> HIDE DEF back
<1> QED BY <1>6, <1>8, <1>9, <1>10, <1>11 DEF file

\* The cells of a sheet that hold something, and how far they reach.
Used(rows) == {p \in (DOMAIN rows) \X (1..Width(rows)) : At(rows[p[1]], p[2]) # Blank}
Height(P) == Max({0} \cup {p[1] : p \in P})
Reach(P) == Max({0} \cup {p[2] : p \in P})
Trimmed(rows) == Padded(SubSeq(rows, 1, Height(Used(rows))), Reach(Used(rows)))

LEMMA UsedFacts ==
  ASSUME NEW rows \in Tables
  PROVE  /\ ReadXls(rows) = IF SheetFits(Trimmed(rows)) THEN Rows(Trimmed(rows)) ELSE Failed
         /\ Height(Used(rows)) \in 0..Len(rows) /\ Reach(Used(rows)) \in 0..Width(rows)
         /\ \A p \in Used(rows) : p[1] <= Height(Used(rows)) /\ p[2] <= Reach(Used(rows))
         /\ Height(Used(rows)) = 0 \/ \E p \in Used(rows) : p[1] = Height(Used(rows))
         /\ Reach(Used(rows)) = 0 \/ \E p \in Used(rows) : p[2] = Reach(Used(rows))
<1> DEFINE P == Used(rows)
           X == {0} \cup {p[1] : p \in P}
           Y == {0} \cup {p[2] : p \in P}
<1>1. Len(rows) \in Nat /\ DOMAIN rows = 1..Len(rows) /\ Width(rows) \in Nat
  BY TableShape, WidthFacts DEF Tables
<1>2. ReadXls(rows) = IF SheetFits(Trimmed(rows)) THEN Rows(Trimmed(rows)) ELSE Failed
  BY DEF ReadXls, Used, Height, Reach, Trimmed
<1>3. \A p \in P : p[1] \in 1..Len(rows) /\ p[2] \in 1..Width(rows)
  BY <1>1 DEF Used
<1> HIDE DEF P
<1>4. X \in SUBSET (0..Len(rows)) /\ X # {} /\ Y \in SUBSET (0..Width(rows)) /\ Y # {}
  BY <1>1, <1>3
<1>5. /\ \A p \in P : p[1] \in X /\ p[2] \in Y
      /\ \A x \in X : x = 0 \/ \E p \in P : p[1] = x
      /\ \A x \in Y : x = 0 \/ \E p \in P : p[2] = x
  OBVIOUS
<1>6. Height(P) = Max(X) /\ Reach(P) = Max(Y)
  BY DEF Height, Reach
<1> HIDE DEF X, Y
<1>7. Max(X) \in X /\ \A k \in X : k <= Max(X)
  BY <1>1, <1>4, MaxFacts
<1>8. Max(Y) \in Y /\ \A k \in Y : k <= Max(Y)
  BY <1>1, <1>4, MaxFacts
<1>9. Max(X) \in 0..Len(rows) /\ Max(Y) \in 0..Width(rows)
  BY <1>4, <1>7, <1>8
<1>10. /\ \A p \in P : p[1] <= Max(X) /\ p[2] <= Max(Y)
       /\ Max(X) = 0 \/ \E p \in P : p[1] = Max(X)
       /\ Max(Y) = 0 \/ \E p \in P : p[2] = Max(Y)
  BY <1>5, <1>7, <1>8
<1> QED BY <1>2, <1>6, <1>9, <1>10 DEF P

LEMMA BeginningShape ==
  ASSUME NEW rows \in Tables, NEW h \in 0..Len(rows)
  PROVE  /\ SubSeq(rows, 1, h) \in Tables /\ Len(SubSeq(rows, 1, h)) = h
         /\ \A i \in 1..h : SubSeq(rows, 1, h)[i] = rows[i]
<1>1. Len(rows) \in Nat /\ DOMAIN rows = 1..Len(rows) /\ rows \in Seq(Seq(Cells))
  BY TableShape DEF Tables
<1> QED BY <1>1 DEF Tables

\* Whatever is read of a table is one, if it can be read.
LEMMA ReadIsTable ==
  ASSUME NEW rows \in Tables, NEW type \in {"csv", "xls", "xlsx"}
  PROVE  Read(type, rows) = Failed \/ \E t \in Tables : Read(type, rows) = Rows(t)
<1>1. CASE type = "csv"
  BY <1>1 DEF Read, ReadCsv
<1>2. CASE type = "xlsx"
  <2>1. Read(type, rows) = Failed \/ Read(type, rows) = ReadXlsx(WriteXlsx(rows))
    BY <1>2 DEF Read
  <2>2. Width(rows) \in Nat
    BY WidthFacts DEF Tables
  <2>3. Holds(rows) => Padded(GivenBack(rows), Width(rows)) \in Tables
    BY <2>2, GivenBackFacts, PaddedFacts
  <2> QED BY <2>1, <2>3, XlsxReads
<1>3. CASE type = "xls"
  <2>1. Read(type, rows) = Failed \/ Read(type, rows) = ReadXls(rows)
    BY <1>3 DEF Read
  <2>2. SubSeq(rows, 1, Height(Used(rows))) \in Tables /\ Reach(Used(rows)) \in Nat
    BY UsedFacts, BeginningShape, WidthFacts DEF Tables
  <2>3. Trimmed(rows) \in Tables
    BY <2>2, PaddedFacts DEF Trimmed
  <2> QED BY <2>1, <2>3, UsedFacts
<1> QED BY <1>1, <1>2, <1>3

\* A header of names, as every plan has it, and what is below it.
Headed == {rows \in Tables : rows # <<>> /\ Named(rows[1])}

LEMMA HeadedShape ==
  ASSUME NEW rows \in Headed
  PROVE  /\ rows \in Tables /\ 1 \in DOMAIN rows /\ Len(rows) \in Nat \ {0}
         /\ Len(rows[1]) \in Nat \ {0} /\ Len(rows[1]) <= Width(rows)
         /\ \A j \in DOMAIN rows[1] : rows[1][j] # Blank
<1>1. rows \in Tables /\ rows # <<>> /\ Named(rows[1])
  BY DEF Headed
<1>2. Len(rows) \in Nat \ {0} /\ 1 \in DOMAIN rows
  BY <1>1 DEF Tables
<1>3. rows[1] # <<>> /\ \A j \in DOMAIN rows[1] : rows[1][j] # Blank
  BY <1>1 DEF Named, ToSet
<1>4. rows[1] \in Seq(Cells) /\ Len(rows[1]) \in Nat
  BY <1>1, <1>2, TableShape
<1>5. Len(rows[1]) # 0
  BY <1>3, <1>4
<1>6. Len(rows[1]) <= Width(rows)
  BY <1>1, <1>2, WidthFacts DEF Tables
<1> QED BY <1>1, <1>2, <1>3, <1>4, <1>5, <1>6

\* The rows of a sheet that are read as they were written.
Even(rows) == \A i \in DOMAIN rows : Len(rows[i]) = Len(rows[1])

LEMMA EvenWidth ==
  ASSUME NEW rows \in Headed
  PROVE  Even(rows) <=> \A i \in DOMAIN rows : Len(rows[i]) = Width(rows)
<1>1. 1 \in DOMAIN rows /\ Width(rows) # 0 /\ \E i \in DOMAIN rows : Len(rows[i]) = Width(rows)
  <2>1. Width(rows) \in Nat /\ Len(rows[1]) \in Nat \ {0} /\ Len(rows[1]) <= Width(rows)
    BY HeadedShape, WidthFacts DEF Tables
  <2>2. Width(rows) # 0
    BY <2>1
  <2> QED BY <2>2, HeadedShape, WidthFacts DEF Tables
<1> QED BY <1>1 DEF Even

\* The texts that XML gives back as they are.
Plain(rows) == \A i \in DOMAIN rows : \A c \in ToSet(rows[i]) : c \in DOMAIN XmlText /\ XmlText[c] = c

LEMMA PlainSame ==
  ASSUME NEW rows \in Tables, NEW w \in Nat, Holds(rows)
  PROVE  Padded(GivenBack(rows), w) = rows <=>
           Plain(rows) /\ \A i \in DOMAIN rows : Len(rows[i]) = w
<1> DEFINE g == GivenBack(rows)
<1>1. /\ g \in Tables /\ Len(g) = Len(rows) /\ DOMAIN g = DOMAIN rows
      /\ Len(rows) \in Nat /\ DOMAIN rows = 1..Len(rows)
      /\ \A i \in DOMAIN rows :
           /\ Len(g[i]) = Len(rows[i]) /\ DOMAIN rows[i] = 1..Len(rows[i])
           /\ DOMAIN g[i] = DOMAIN rows[i] /\ Len(rows[i]) \in Nat
           /\ \A j \in DOMAIN rows[i] : g[i][j] = XmlText[rows[i][j]]
  BY GivenBackFacts, TableShape
<1> HIDE DEF g
<1>2. ASSUME Padded(g, w) = rows
      PROVE  Plain(rows) /\ \A i \in DOMAIN rows : Len(rows[i]) = w
  <2>1. ASSUME NEW i \in DOMAIN rows
        PROVE  Len(rows[i]) = w /\ rows[i] = [j \in 1..w |-> At(g[i], j)]
    BY <1>1, <1>2, PaddedFacts
  <2>2. ASSUME NEW i \in DOMAIN rows, NEW j \in DOMAIN rows[i]
        PROVE  rows[i][j] \in DOMAIN XmlText /\ XmlText[rows[i][j]] = rows[i][j]
    <3>1. rows[i][j] = At(g[i], j)
      <4>1. j \in 1..w
        BY <1>1, <2>1
      <4> QED BY <2>1, <4>1
    <3>2. At(g[i], j) = XmlText[rows[i][j]]
      BY <1>1 DEF At
    <3>3. rows[i][j] \in DOMAIN XmlText
      BY DEF Holds, ToSet
    <3> QED BY <3>1, <3>2, <3>3
  <2> QED BY <2>1, <2>2 DEF Plain, ToSet
<1>3. ASSUME Plain(rows), \A i \in DOMAIN rows : Len(rows[i]) = w
      PROVE  Padded(g, w) = rows
  <2>1. \A i \in DOMAIN rows : \A j \in DOMAIN rows[i] : XmlText[rows[i][j]] = rows[i][j]
    BY <1>3 DEF Plain, ToSet
  <2>2. ASSUME NEW i \in DOMAIN rows
        PROVE  [j \in DOMAIN rows[i] |-> XmlText[rows[i][j]]] = rows[i]
    <3>1. rows[i] = [j \in DOMAIN rows[i] |-> rows[i][j]]
      BY TableShape
    <3> QED BY <2>1, <3>1
  <2>3. g = [i \in DOMAIN rows |-> rows[i]]
    BY <2>2 DEF g, GivenBack
  <2>4. g = rows
    BY <2>3, TableShape
  <2> QED BY <1>3, <2>4, PaddedSame
<1> QED BY <1>2, <1>3 DEF g

LEMMA RowsSame ==
  ASSUME NEW a, NEW b
  PROVE  (Rows(a) = Rows(b) <=> a = b) /\ Failed # Rows(b)
BY DEF Rows, Failed

LEMMA XlsxSurvives ==
  ASSUME NEW rows \in Headed
  PROVE  Read("xlsx", rows) = Rows(rows) <=> Survives("xlsx", rows)
<1>1. Width(rows) \in Nat /\ rows \in Tables
  BY HeadedShape, WidthFacts DEF Tables
<1>2. Survives("xlsx", rows) <=>
        Even(rows) /\ SheetFits(rows) /\ <<"xlsx", rows>> \notin Heavy /\ Plain(rows)
  BY DEF Survives, Even, Plain
<1>3. Plain(rows) => Holds(rows)
  BY DEF Plain, Holds
<1>4. Read("xlsx", rows) = IF <<"xlsx", rows>> \in Heavy THEN Failed ELSE ReadXlsx(WriteXlsx(rows))
  BY DEF Read
<1>5. CASE <<"xlsx", rows>> \in Heavy \/ ~Holds(rows) \/ ~SheetFits(rows)
  <2>1. Read("xlsx", rows) = Failed
    BY <1>1, <1>4, <1>5, XlsxReads
  <2> QED BY <1>2, <1>3, <1>5, <2>1, RowsSame
<1>6. CASE <<"xlsx", rows>> \notin Heavy /\ Holds(rows) /\ SheetFits(rows)
  <2>1. Read("xlsx", rows) = Rows(Padded(GivenBack(rows), Width(rows)))
    BY <1>1, <1>4, <1>6, XlsxReads
  <2>2. Padded(GivenBack(rows), Width(rows)) = rows <=>
          Plain(rows) /\ \A i \in DOMAIN rows : Len(rows[i]) = Width(rows)
    BY <1>1, <1>6, PlainSame
  <2> QED BY <1>2, <1>6, <2>1, <2>2, RowsSame, EvenWidth
<1> QED BY <1>5, <1>6

\* The last row has something in it.
LEMMA LastRow ==
  ASSUME NEW rows \in Headed, Len(rows[Len(rows)]) # 0
  PROVE  ToSet(Last(rows)) # {Blank} <=>
           \E j \in 1..Len(rows[Len(rows)]) : rows[Len(rows)][j] # Blank
<1> DEFINE s == rows[Len(rows)]
<1>1. Len(s) \in Nat /\ DOMAIN s = 1..Len(s) /\ Last(rows) = s
  <2>1. Len(rows) \in DOMAIN rows /\ rows \in Tables
    BY HeadedShape, TableShape
  <2> QED BY <2>1, TableShape DEF Last
<1>2. 1 \in DOMAIN s
  BY <1>1
<1> HIDE DEF s
<1>3. ToSet(s) # {Blank} <=> \E j \in 1..Len(s) : s[j] # Blank
  BY <1>1, <1>2 DEF ToSet
<1> QED BY <1>1, <1>3 DEF s

LEMMA XlsSurvives ==
  ASSUME NEW rows \in Headed
  PROVE  Read("xls", rows) = Rows(rows) <=> Survives("xls", rows)
<1> DEFINE h == Height(Used(rows))
           w == Reach(Used(rows))
           n == Len(rows)
           b == SubSeq(rows, 1, h)
<1>1. /\ rows \in Tables /\ n \in Nat \ {0} /\ DOMAIN rows = 1..n /\ Width(rows) \in Nat
      /\ h \in 0..n /\ w \in 0..Width(rows) /\ Trimmed(rows) = Padded(b, w)
      /\ Read("xls", rows) = IF <<"xls", rows>> \in Heavy \/ ~SheetFits(Trimmed(rows)) THEN Failed
                             ELSE Rows(Trimmed(rows))
  BY HeadedShape, TableShape, WidthFacts, UsedFacts DEF Tables, Read, Trimmed
<1>2. b \in Tables /\ Len(b) = h /\ \A i \in 1..h : b[i] = rows[i]
  BY <1>1, BeginningShape
<1>0. w \in Nat /\ \A p \in Used(rows) : p[1] <= h /\ p[2] <= w
  BY <1>1, UsedFacts
<1>3. Len(Padded(b, w)) = h
  BY <1>0, <1>2, PaddedFacts
<1>4. Survives("xls", rows) <=> /\ Even(rows) /\ SheetFits(rows) /\ <<"xls", rows>> \notin Heavy
                                /\ ToSet(Last(rows)) # {Blank}
  BY DEF Survives, Even
<1>5. ASSUME Read("xls", rows) = Rows(rows) PROVE Survives("xls", rows)
  <2>0. /\ Padded(b, w) = rows /\ <<"xls", rows>> \notin Heavy /\ SheetFits(rows)
    <3> HIDE DEF b, w
    <3> QED BY <1>1, <1>5, RowsSame
  <2>1. h = n
    BY <1>1, <1>3, <2>0
  <2>2. b = rows
    BY <1>1, <1>2, <2>1, TableShape
  <2>3. \A i \in DOMAIN rows : Len(rows[i]) = w
    BY <1>0, <1>1, <2>0, <2>2, PaddedSame
  <2>4. Even(rows)
    BY <2>3, HeadedShape DEF Even
  <2>5. PICK p \in Used(rows) : p[1] = n
    BY <1>1, <2>1, UsedFacts
  <2>6. p[2] \in 1..Width(rows) /\ At(rows[n], p[2]) # Blank
    BY <2>5 DEF Used
  <2>7. p[2] \in DOMAIN rows[n] /\ rows[n][p[2]] # Blank
    BY <2>6 DEF At
  <2>8. DOMAIN rows[n] = 1..Len(rows[n]) /\ Len(rows[n]) \in Nat
    BY <1>1, TableShape
  <2>9. Len(rows[n]) # 0 /\ \E j \in 1..Len(rows[n]) : rows[n][j] # Blank
    BY <2>7, <2>8
  <2>10. ToSet(Last(rows)) # {Blank}
    BY <2>9, LastRow
  <2> QED BY <1>4, <2>0, <2>4, <2>10
<1>6. ASSUME Survives("xls", rows) PROVE Read("xls", rows) = Rows(rows)
  <2>1. \A i \in DOMAIN rows : Len(rows[i]) = Width(rows) /\ DOMAIN rows[i] = 1..Width(rows)
    BY <1>1, <1>4, <1>6, EvenWidth, TableShape
  <2>2. Width(rows) # 0 /\ Width(rows) = Len(rows[1]) /\ \A j \in 1..Width(rows) : rows[1][j] # Blank
    BY <2>1, HeadedShape
  <2>3. PICK j \in 1..Width(rows) : rows[n][j] # Blank
    BY <1>1, <1>4, <1>6, <2>1, <2>2, LastRow
  <2>4. <<n, j>> \in Used(rows)
    <3>1. At(rows[n], j) = rows[n][j] /\ n \in DOMAIN rows
      BY <1>1, <2>1, <2>3 DEF At
    <3> QED BY <2>3, <3>1 DEF Used
  <2>5. n <= h
    BY <1>0, <2>4
  <2>6. h = n
    BY <1>1, <2>5
  <2>7. <<1, Width(rows)>> \in Used(rows)
    <3>1. Width(rows) \in 1..Width(rows) /\ 1 \in DOMAIN rows
      BY <1>1, <2>2
    <3>2. At(rows[1], Width(rows)) # Blank
      BY <2>1, <2>2, <3>1 DEF At
    <3> QED BY <3>1, <3>2 DEF Used
  <2>8. Width(rows) <= w
    BY <1>0, <2>7
  <2>9. w = Width(rows)
    BY <1>1, <2>8
  <2>10. b = rows
    BY <1>1, <1>2, <2>6, TableShape
  <2>11. Padded(b, w) = rows
    BY <1>1, <2>1, <2>9, <2>10, PaddedSame
  <2> HIDE DEF b, w
  <2> QED BY <1>1, <1>4, <1>6, <2>11
<1> QED BY <1>5, <1>6

\* An artifact is read as it was written exactly if its rows survive: they are equally long and
\* within the limits where the type is that of a sheet, its last row is not one that xlwt leaves out,
\* and its texts are such as XML, or csv.reader, gives back (excel.py).
THEOREM ReadSurvives ==
  ASSUME NEW rows \in Headed, NEW type \in {"csv", "json", "xls", "xlsx"}
  PROVE  ReadArtifact(type, rows) = Rows(rows) <=> Survives(type, rows)
<1>1. CASE type = "csv"
  BY <1>1, RowsSame DEF ReadArtifact, ReadCsv, Survives
<1>2. CASE type = "json"
  BY <1>2 DEF ReadArtifact, Survives
<1>3. CASE type \in {"xls", "xlsx"}
  <2>1. ReadArtifact(type, rows) = Read(type, rows)
    BY <1>3 DEF ReadArtifact
  <2> QED BY <1>3, <2>1, XlsxSurvives, XlsSurvives
<1> QED BY <1>1, <1>2, <1>3

\* What the solution of a recursion of n steps goes through.
LEMMA ChainIn ==
  ASSUME NEW T, NEW n \in Nat, NEW f, f[0] \in T, \A i \in 1..n : f[i - 1] \in T => f[i] \in T
  PROVE  \A k \in 0..n : f[k] \in T
<1> DEFINE F == {k \in Nat : k <= n /\ f[k] \notin T}
<1> SUFFICES ASSUME F # {} PROVE FALSE
  OBVIOUS
<1>1. PICK k \in F : \A j \in F : k <= j
  BY LeastNumber
<1>2. k # 0 /\ k \in Nat /\ k <= n
  BY <1>1
<1>3. k - 1 \in Nat /\ k - 1 \notin F /\ k - 1 <= n /\ k \in 1..n
  BY <1>1, <1>2
<1> QED BY <1>1, <1>3

Outcomes == {Failed} \cup {Rows(rows) : rows \in Headed}

LEMMA AppliedOutcome ==
  ASSUME NEW recipe, NEW file, Len(recipe.steps) \in Nat,
         SourceRows(recipe, file) \in Outcomes,
         \A k \in 1..Len(recipe.steps), t \in Outcomes : ApplyStep(t, recipe.steps[k]) \in Outcomes
  PROVE  Applied(recipe, file) \in Outcomes
<1> DEFINE n == Len(recipe.steps)
           base == SourceRows(recipe, file)
           G == [i \in 1..n |-> [t \in Outcomes |-> ApplyStep(t, recipe.steps[i])]]
           after == CHOOSE g : g = [k \in 0..n |-> IF k = 0 THEN base ELSE ApplyStep(g[k - 1], recipe.steps[k])]
<1>1. G \in [1..n -> [Outcomes -> Outcomes]]
  OBVIOUS
<1>2. PICK f \in [0..n -> Outcomes] : Chain(f, n, base, G)
  <2> HIDE DEF G, n
  <2> QED BY <1>1, ChainExists DEF n
<1>3. f = [k \in 0..n |-> IF k = 0 THEN base ELSE ApplyStep(f[k - 1], recipe.steps[k])]
  <2>1. f = [k \in 0..n |-> IF k = 0 THEN base ELSE G[k][f[k - 1]]]
    BY <1>2 DEF Chain
  <2>2. ASSUME NEW k \in 1..n
        PROVE  k - 1 \in 0..n /\ f[k - 1] \in Outcomes /\ G[k][f[k - 1]] = ApplyStep(f[k - 1], recipe.steps[k])
    <3>1. k - 1 \in 0..n
      OBVIOUS
    <3>2. f[k - 1] \in Outcomes
      BY <3>1
    <3>3. G[k] = [t \in Outcomes |-> ApplyStep(t, recipe.steps[k])]
      OBVIOUS
    <3> HIDE DEF G, base
    <3> QED BY <3>1, <3>2, <3>3
  <2>3. ASSUME NEW k \in 0..n
        PROVE  (IF k = 0 THEN base ELSE G[k][f[k - 1]])
                 = IF k = 0 THEN base ELSE ApplyStep(f[k - 1], recipe.steps[k])
    <3>1. k = 0 \/ k \in 1..n
      OBVIOUS
    <3> HIDE DEF G, base, n
    <3> QED BY <2>2, <3>1
  <2> HIDE DEF G, base, n
  <2> QED BY <2>1, <2>3
<1>4. after = [k \in 0..n |-> IF k = 0 THEN base ELSE ApplyStep(after[k - 1], recipe.steps[k])]
  <2> HIDE DEF base
  <2> QED BY <1>3
<1>5. Applied(recipe, file) = after[n]
  BY DEF Applied
<1> HIDE DEF after
<1>6. ASSUME NEW k \in 1..n PROVE after[k] = ApplyStep(after[k - 1], recipe.steps[k])
  <2>1. k \in 0..n /\ k # 0
    OBVIOUS
  <2>2. after[k] = IF k = 0 THEN base ELSE ApplyStep(after[k - 1], recipe.steps[k])
    BY <1>4, <2>1
  <2> QED BY <2>1, <2>2
<1>7. after[0] = base
  BY <1>4
<1>8. \A k \in 0..n : after[k] \in Outcomes
  <2>1. \A k \in 1..n : after[k - 1] \in Outcomes => after[k] \in Outcomes
    BY <1>6
  <2>2. after[0] \in Outcomes /\ n \in Nat
    BY <1>7
  <2> HIDE DEF base, n
  <2> QED BY <2>1, <2>2, ChainIn
<1> QED BY <1>5, <1>8

\* An order by a number, and by place among equals.
ByKey(D, k, rank) ==
  {p \in D \X D : k[p[1]] < k[p[2]] \/ (k[p[1]] = k[p[2]] /\ rank[p[1]] < rank[p[2]])}

LEMMA ByKeyTotal ==
  ASSUME NEW D, NEW k \in [D -> Int], NEW rank \in [D -> Int],
         \A a, b \in D : rank[a] = rank[b] => a = b
  PROVE  TotalOrder(D, ByKey(D, k, rank))
<1> DEFINE R == ByKey(D, k, rank)
<1>1. \A a, b \in D : <<a, b>> \in R <=> k[a] < k[b] \/ (k[a] = k[b] /\ rank[a] < rank[b])
  BY DEF ByKey
<1>2. \A a \in D : k[a] \in Int /\ rank[a] \in Int
  OBVIOUS
<1> HIDE DEF R
<1>3. \A a \in D : <<a, a>> \notin R
  BY <1>1, <1>2
<1>4. \A a, b \in D : a # b => <<a, b>> \in R \/ <<b, a>> \in R
  BY <1>1, <1>2
<1>5. \A a, b, c \in D : <<a, b>> \in R /\ <<b, c>> \in R => <<a, c>> \in R
  BY <1>1, <1>2
<1> QED BY <1>3, <1>4, <1>5 DEF TotalOrder, R

\* An enumeration in such an order.
SortedBy(e, D, k, rank) ==
  /\ e \in [1..Cardinality(D) -> D]
  /\ \A i, j \in 1..Cardinality(D) :
       i < j => k[e[i]] < k[e[j]] \/ (k[e[i]] = k[e[j]] /\ rank[e[i]] < rank[e[j]])

LEMMA KeyOrderExists ==
  ASSUME NEW D, IsFiniteSet(D), NEW k \in [D -> Int], NEW rank \in [D -> Int],
         \A a, b \in D : rank[a] = rank[b] => a = b
  PROVE  \E e : SortedBy(e, D, k, rank)
<1> DEFINE R == ByKey(D, k, rank)
           n == Cardinality(D)
<1>1. PICK e : Arranges(e, D, n, R)
  BY ByKeyTotal, OrderExists
<1> HIDE DEF n
<1>2. e \in [1..n -> D] /\ \A i, j \in 1..n : i < j => <<e[i], e[j]>> \in R
  BY <1>1 DEF Arranges
<1>3. \A a, b \in D : <<a, b>> \in R => k[a] < k[b] \/ (k[a] = k[b] /\ rank[a] < rank[b])
  BY DEF ByKey
<1> HIDE DEF R
<1>4. \A i, j \in 1..n : i < j => k[e[i]] < k[e[j]] \/ (k[e[i]] = k[e[j]] /\ rank[e[i]] < rank[e[j]])
  BY <1>2, <1>3
<1> QED BY <1>2, <1>4 DEF n, SortedBy

-----------------------------------------------------------------------------
(***************************************************************************)
(* The steps of a plan.                                                    *)
(***************************************************************************)
LEMMA TailShape ==
  ASSUME NEW rows \in Headed
  PROVE  /\ DOMAIN Tail(rows) = 1..(Len(rows) - 1) /\ Len(rows) - 1 \in Nat
         /\ IsFiniteSet(DOMAIN Tail(rows))
         /\ \A i \in DOMAIN Tail(rows) : i \in Int /\ i + 1 \in DOMAIN rows /\ rows[i + 1] \in Seq(Cells)
<1>1. rows \in Tables /\ rows # <<>> /\ Len(rows) \in Nat \ {0} /\ DOMAIN rows = 1..Len(rows)
  BY HeadedShape, TableShape DEF Headed
<1>2. DOMAIN Tail(rows) = 1..(Len(rows) - 1) /\ Len(rows) - 1 \in Nat
  BY <1>1 DEF Tables
<1>3. \A n \in Nat : IsFiniteSet(1..n)
  BY FS_Interval
<1>4. ASSUME NEW i \in DOMAIN Tail(rows)
      PROVE  i \in Int /\ i + 1 \in DOMAIN rows /\ rows[i + 1] \in Seq(Cells)
  <2>1. i \in Int /\ i + 1 \in 1..Len(rows)
    BY <1>1, <1>2
  <2> QED BY <1>1, <2>1, TableShape
<1> QED BY <1>2, <1>3, <1>4

LEMMA ArrangedHeaded ==
  ASSUME NEW rows \in Headed, NEW n \in Nat, NEW order \in [1..n -> DOMAIN Tail(rows)]
  PROVE  Arranged(rows, order) \in Headed
<1> DEFINE data == [k \in 1..n |-> rows[order[k] + 1]]
<1>1. rows \in Tables /\ Named(rows[1]) /\ rows[1] \in Seq(Cells)
  BY HeadedShape, TableShape DEF Headed
<1>2. data \in Seq(Seq(Cells))
  <2>1. \A k \in 1..n : rows[order[k] + 1] \in Seq(Cells)
    BY TailShape
  <2> QED BY <2>1
<1>3. Arranged(rows, order) = <<rows[1]>> \o data
  BY DEF Arranged
<1> HIDE DEF data
<1>4. <<rows[1]>> \o data \in Seq(Seq(Cells)) /\ <<rows[1]>> \o data # <<>>
      /\ (<<rows[1]>> \o data)[1] = rows[1]
  BY <1>1, <1>2
<1> QED BY <1>1, <1>3, <1>4 DEF Headed, Tables

LEMMA MapColumnsHeaded ==
  ASSUME NEW rows \in Headed, NEW step, step.columns \in Seq(Cells),
         step.rename \in [DOMAIN step.rename -> Cells], Named(NewHeader(step))
  PROVE  MapColumns(rows, step) \in Outcomes
<1>1. rows \in Tables /\ Len(rows) \in Nat \ {0} /\ DOMAIN rows = 1..Len(rows)
  BY HeadedShape, TableShape
<1>2. Len(step.columns) \in Nat /\ DOMAIN step.columns = 1..Len(step.columns)
  OBVIOUS
<1>3. NewHeader(step) \in Seq(Cells)
  <2>1. \A k \in DOMAIN step.columns : NewName(step, step.columns[k]) \in Cells
    BY DEF NewName
  <2> QED BY <1>2, <2>1 DEF NewHeader
<1> DEFINE from == [k \in DOMAIN step.columns |-> Position(rows[1], step.columns[k])]
           new == [i \in DOMAIN rows |->
                    IF i = 1 THEN NewHeader(step)
                    ELSE [k \in DOMAIN from |-> At(rows[i], from[k])]]
<1>4. ASSUME NEW i \in DOMAIN rows PROVE [k \in DOMAIN from |-> At(rows[i], from[k])] \in Seq(Cells)
  <2>1. rows[i] \in Seq(Cells)
    BY <1>1, TableShape
  <2>2. \A j : At(rows[i], j) \in Cells
    BY <2>1, CellAssumption DEF At
  <2> QED BY <1>2, <2>2
<1>5. new \in Seq(Seq(Cells)) /\ new # <<>> /\ new[1] = NewHeader(step)
  <2>1. \A i \in 1..Len(rows) : new[i] \in Seq(Cells)
    BY <1>1, <1>3, <1>4
  <2>2. new = [i \in 1..Len(rows) |-> new[i]]
    BY <1>1
  <2>3. new[1] = NewHeader(step)
    BY <1>1
  <2> HIDE DEF new
  <2>4. new \in Seq(Seq(Cells)) /\ Len(new) = Len(rows)
    BY <1>1, <2>1, <2>2
  <2> QED BY <1>1, <2>3, <2>4
<1>6. new \in Headed
  BY <1>5 DEF Headed, Tables
<1>7. MapColumns(rows, step) \in {Rows(new), Failed}
  BY DEF MapColumns
<1> QED BY <1>6, <1>7 DEF Outcomes

LEMMA FilterRowsHeaded ==
  ASSUME NEW rows \in Headed, NEW step
  PROVE  FilterRows(rows, step) \in Outcomes
<1> DEFINE by   == CHOOSE c \in DOMAIN step.compare : TRUE
           with == step.compare[by]
           j    == Position(rows[1], step.column)
           Matches(row) == /\ j \in DOMAIN row
                           /\ CASE by = "equals" -> row[j] = with
                                [] by = "gt" -> Number[row[j]] > Number[with]
                                [] by = "lt" -> Number[row[j]] < Number[with]
           D == {i \in DOMAIN Tail(rows) : Matches(rows[i + 1])}
           order == CHOOSE e \in [1..Cardinality(D) -> D] :
                      \A a, b \in 1..Cardinality(D) : a < b => e[a] < e[b]
<1>1. FilterRows(rows, step) \in {Failed, Rows(Arranged(rows, order))}
  BY DEF FilterRows, Ordered
<1>2. D \subseteq DOMAIN Tail(rows)
  OBVIOUS
<1> HIDE DEF D
<1>3. IsFiniteSet(D) /\ Cardinality(D) \in Nat /\ \A d \in D : d \in Int
  BY <1>2, TailShape, FS_Subset, FS_CardinalityType
<1> DEFINE id == [d \in D |-> d]
<1>4. PICK e : SortedBy(e, D, id, id)
  <2>1. id \in [D -> Int] /\ \A a, b \in D : id[a] = id[b] => a = b
    BY <1>3
  <2> HIDE DEF id
  <2> QED BY <1>3, <2>1, KeyOrderExists
<1>5. e \in [1..Cardinality(D) -> D] /\ \A a, b \in 1..Cardinality(D) : a < b => e[a] < e[b]
  BY <1>3, <1>4 DEF SortedBy
<1>6. order \in [1..Cardinality(D) -> D]
  BY <1>5
<1> HIDE DEF order
<1>7. order \in [1..Cardinality(D) -> DOMAIN Tail(rows)]
  BY <1>2, <1>6
<1>8. Arranged(rows, order) \in Headed
  BY <1>3, <1>7, ArrangedHeaded
<1> QED BY <1>1, <1>8 DEF Outcomes

LEMMA SortRowsHeaded ==
  ASSUME NEW rows \in Headed, NEW step
  PROVE  SortRows(rows, step) \in Outcomes
<1> DEFINE D == DOMAIN Tail(rows)
           j    == Position(rows[1], step.column)
           Key(i) == At(rows[i + 1], j)
           Less(a, b) == IF step.numeric THEN Number[Key(a)] < Number[Key(b)]
                                         ELSE TextRank[Key(a)] < TextRank[Key(b)]
           Before(a, b) ==
             \/ IF step.descending THEN Less(b, a) ELSE Less(a, b)
             \/ ~Less(a, b) /\ ~Less(b, a) /\ a < b
           order == CHOOSE e \in [1..Cardinality(D) -> D] :
                      \A a, b \in 1..Cardinality(D) : a < b => Before(e[a], e[b])
           sortable == step.numeric => \A i \in D : Key(i) \in DOMAIN Number
<1>1. /\ ~sortable => SortRows(rows, step) = Failed
      /\ SortRows(rows, step) \in {Failed, Rows(Arranged(rows, order))}
  BY DEF SortRows, Ordered
<1>2. CASE ~sortable
  BY <1>1, <1>2 DEF Outcomes
<1>3. CASE sortable
  <2> DEFINE val == [i \in D |-> IF step.numeric THEN Number[Key(i)] ELSE TextRank[Key(i)]]
             key == [i \in D |-> IF step.descending THEN 0 - val[i] ELSE val[i]]
             place == [i \in D |-> i]
  <2>1. /\ IsFiniteSet(D) /\ Cardinality(D) \in Nat
        /\ \A i \in D : i \in Int /\ rows[i + 1] \in Seq(Cells)
    BY TailShape, FS_CardinalityType
  <2>2. \A i \in D : Key(i) \in Cells
    BY <2>1, CellAssumption DEF At
  <2> HIDE DEF Key
  <2>3. \A i \in D : val[i] \in Int
    BY <1>3, <2>2, CellAssumption
  <2>4. \A a, b \in D : Less(a, b) <=> val[a] < val[b]
    OBVIOUS
  <2> HIDE DEF val, Less, D
  <2>5. key \in [D -> Int] /\ place \in [D -> Int] /\ \A a, b \in D : place[a] = place[b] => a = b
    BY <2>1, <2>3
  <2>6. \A a, b \in D : (key[a] < key[b] \/ (key[a] = key[b] /\ place[a] < place[b])) => Before(a, b)
    BY <2>1, <2>3, <2>4
  <2> HIDE DEF key, place, Before
  <2>7. PICK e : SortedBy(e, D, key, place)
    BY <2>1, <2>5, KeyOrderExists
  <2>8. e \in [1..Cardinality(D) -> D] /\ \A a, b \in 1..Cardinality(D) : a < b => Before(e[a], e[b])
    BY <2>6, <2>7 DEF SortedBy
  <2>9. order \in [1..Cardinality(D) -> D]
    BY <2>8
  <2> HIDE DEF order
  <2>10. Arranged(rows, order) \in Headed
    BY <2>1, <2>9, ArrangedHeaded DEF D
  <2> QED BY <1>1, <2>10 DEF Outcomes
<1> QED BY <1>2, <1>3

\* A step of an accepted plan.
LEMMA StepOutcome ==
  ASSUME NEW recipe \in Recipes, ValidTablePlan(recipe), NEW k \in DOMAIN recipe.steps,
         NEW t \in Outcomes
  PROVE  ApplyStep(t, recipe.steps[k]) \in Outcomes
<1> DEFINE step == recipe.steps[k]
<1>1. StepFits(recipe, step)
  BY DEF ValidTablePlan
<1>2. CASE ~t.ok
  BY <1>2 DEF ApplyStep, Outcomes
<1>3. CASE t.ok
  <2>1. PICK rows \in Headed : t = Rows(rows)
    <3>1. t # Failed
      BY <1>3 DEF Failed
    <3> QED BY <3>1 DEF Outcomes
  <2>2. t.rows = rows
    BY <2>1 DEF Rows
  <2>3. CASE step.operation = "map_columns"
    <3>1. step.columns \in Seq(Cells) /\ step.rename \in [DOMAIN step.rename -> Cells]
      BY <2>3, PreparationAssumption
    <3>2. Named(NewHeader(step))
      BY <1>1, <2>3 DEF StepFits
    <3>3. ApplyStep(t, step) = MapColumns(rows, step)
      BY <1>3, <2>2, <2>3 DEF ApplyStep
    <3> HIDE DEF step
    <3> QED BY <3>1, <3>2, <3>3, MapColumnsHeaded DEF step
  <2>4. CASE step.operation = "filter_rows"
    BY <1>3, <2>2, <2>4, FilterRowsHeaded DEF ApplyStep
  <2>5. CASE step.operation = "sort_rows"
    BY <1>3, <2>2, <2>5, SortRowsHeaded DEF ApplyStep
  <2>6. CASE step.operation \notin {"map_columns", "filter_rows", "sort_rows"}
    BY <1>3, <2>6 DEF ApplyStep
  <2> QED BY <2>3, <2>4, <2>5, <2>6
<1> QED BY <1>2, <1>3

LEMMA SourceOutcome ==
  ASSUME NEW recipe, ValidTablePlan(recipe), NEW file \in Sheets
  PROVE  SourceRows(recipe, file) \in Outcomes
<1> DEFINE read == Read(recipe.input, file.rows)
<1>1. file.rows \in Tables /\ recipe.input \in {"csv", "xls", "xlsx"}
  BY PreparationAssumption DEF ValidTablePlan, Tables
<1>2. read = Failed \/ \E t \in Tables : read = Rows(t)
  BY <1>1, ReadIsTable
<1>3. SourceRows(recipe, file) = Failed
        \/ (SourceRows(recipe, file) = read /\ read.ok /\ read.rows # <<>> /\ Named(read.rows[1]))
  BY DEF SourceRows
<1> HIDE DEF read
<1>4. ASSUME SourceRows(recipe, file) # Failed
      PROVE  SourceRows(recipe, file) \in Outcomes
  <2>1. read.ok /\ SourceRows(recipe, file) = read
    BY <1>3, <1>4
  <2>2. PICK t \in Tables : read = Rows(t)
    BY <1>2, <2>1 DEF Failed
  <2>3. read.rows = t
    BY <2>2 DEF Rows
  <2>4. t \in Headed
    BY <1>3, <1>4, <2>3 DEF Headed
  <2> QED BY <2>1, <2>2, <2>4 DEF Outcomes
<1> QED BY <1>4 DEF Outcomes

\* What an accepted plan makes of an attachment: a table with a header, or a failure.
LEMMA AppliedHeaded ==
  ASSUME NEW recipe \in Recipes, ValidTablePlan(recipe), NEW file \in Sheets, Applied(recipe, file).ok
  PROVE  Applied(recipe, file).rows \in Headed
<1>1. Len(recipe.steps) \in Nat /\ DOMAIN recipe.steps = 1..Len(recipe.steps)
  BY PreparationAssumption
<1>2. Applied(recipe, file) \in Outcomes
  BY <1>1, SourceOutcome, StepOutcome, AppliedOutcome
<1>3. Applied(recipe, file) # Failed
  BY DEF Failed
<1>4. PICK rows \in Headed : Applied(recipe, file) = Rows(rows)
  BY <1>2, <1>3 DEF Outcomes
<1> QED BY <1>4 DEF Rows

\* A verification of the rows that were written passes if they survive and the checks hold.
LEMMA VerifiedIf ==
  ASSUME NEW recipe \in Recipes, ValidTablePlan(recipe), NEW file \in Sheets,
         Applied(recipe, file).ok, NEW rows, rows = Applied(recipe, file).rows
  PROVE  Verified(recipe, rows, file) <=>
           /\ Survives(recipe.output, rows)
           /\ \A k \in DOMAIN recipe.checks : RuleHolds(recipe.checks[k], rows, rows)
<1>1. rows \in Headed /\ recipe.output \in {"csv", "json", "xls", "xlsx"}
  BY AppliedHeaded DEF ValidTablePlan
<1>2. ReadArtifact(recipe.output, rows) = Rows(rows) <=> Survives(recipe.output, rows)
  BY <1>1, ReadSurvives
<1> DEFINE actual == ReadArtifact(recipe.output, rows)
           wanted == Applied(recipe, file)
<1>3. Verified(recipe, rows, file) <=>
        /\ actual.ok /\ actual = wanted
        /\ \A k \in DOMAIN recipe.checks : RuleHolds(recipe.checks[k], actual.rows, wanted.rows)
  BY DEF Verified
<1>4. wanted = Rows(rows)
  <2>1. PICK t : wanted = Rows(t)
    <3>1. Len(recipe.steps) \in Nat /\ DOMAIN recipe.steps = 1..Len(recipe.steps)
      BY PreparationAssumption
    <3>2. wanted \in Outcomes
      BY <3>1, SourceOutcome, StepOutcome, AppliedOutcome
    <3> QED BY <3>2 DEF Outcomes, Failed
  <2> HIDE DEF wanted
  <2>2. wanted.rows = t
    BY <2>1 DEF Rows
  <2> QED BY <2>1, <2>2 DEF wanted
<1> HIDE DEF actual, wanted
<1>5. CASE actual = Rows(rows)
  <2>1. actual.ok /\ actual.rows = rows /\ wanted.rows = rows
    BY <1>4, <1>5 DEF Rows
  <2> QED BY <1>2, <1>3, <1>4, <1>5, <2>1 DEF actual
<1>6. CASE actual # Rows(rows)
  BY <1>2, <1>3, <1>4, <1>6 DEF actual
<1> QED BY <1>5, <1>6

-----------------------------------------------------------------------------
(***************************************************************************)
(* Occurrences of a term.                                                  *)
(***************************************************************************)
Texts == Seq(Letters)
Terms == Texts \ {<<>>}

LEMMA TextShape ==
  ASSUME NEW text \in Texts
  PROVE  /\ Len(text) \in Nat /\ DOMAIN text = 1..Len(text)
         /\ text = [i \in 1..Len(text) |-> text[i]] /\ \A i \in 1..Len(text) : text[i] \in Letters
BY DEF Texts

LEMMA TermShape ==
  ASSUME NEW term \in Terms
  PROVE  term \in Texts /\ Len(term) \in Nat \ {0}
<1>1. term \in Texts /\ term # <<>>
  BY DEF Terms
<1> QED BY <1>1 DEF Texts

\* A piece of a text.
LEMMA PieceShape ==
  ASSUME NEW text \in Texts, NEW a \in Nat \ {0}, NEW b \in Nat, b <= Len(text), a <= b + 1
  PROVE  /\ SubSeq(text, a, b) \in Texts /\ Len(SubSeq(text, a, b)) = b - a + 1
         /\ \A j \in 1..(b - a + 1) : SubSeq(text, a, b)[j] = text[a + j - 1]
<1>1. \A i \in 1..Len(text) : text[i] \in Letters
  BY TextShape
<1>2. Len(text) \in Nat
  BY TextShape
<1> DEFINE s == SubSeq(text, a, b)
<1>3. s = [j \in 1..(b - a + 1) |-> text[a + j - 1]]
  BY <1>2
<1>4. b - a + 1 \in Nat
  OBVIOUS
<1>5. \A j \in 1..(b - a + 1) : a + j - 1 \in 1..Len(text)
  BY <1>2
<1> HIDE DEF s
<1>6. s \in Seq(Letters)
  BY <1>1, <1>3, <1>4, <1>5
<1>7. Len(s) = b - a + 1
  BY <1>3, <1>4
<1> QED BY <1>3, <1>6, <1>7 DEF Texts, s

LEMMA SameText ==
  ASSUME NEW a \in Texts, NEW b \in Texts, Len(a) = Len(b), \A i \in 1..Len(a) : a[i] = b[i]
  PROVE  a = b
BY TextShape

LEMMA HereMeans ==
  ASSUME NEW term \in Terms, NEW text \in Texts, NEW i \in Nat \ {0}
  PROVE  Here(term, text, i) <=>
           /\ i + Len(term) - 1 <= Len(text)
           /\ \A j \in 1..Len(term) : text[i + j - 1] = term[j]
<1> DEFINE n == Len(term)
           s == SubSeq(text, i, i + n - 1)
<1>1. n \in Nat \ {0} /\ term \in Texts /\ Len(text) \in Nat
  BY TermShape, TextShape
<1> SUFFICES ASSUME i + n - 1 <= Len(text)
             PROVE  s = term <=> \A j \in 1..n : text[i + j - 1] = term[j]
  BY DEF Here
<1> HIDE DEF n
<1>2. i + n - 1 \in Nat /\ i <= (i + n - 1) + 1 /\ (i + n - 1) - i + 1 = n
  BY <1>1
<1>3. s \in Texts /\ Len(s) = n /\ \A j \in 1..n : s[j] = text[i + j - 1]
  BY <1>1, <1>2, PieceShape
<1> HIDE DEF s
<1>4. s = term => \A j \in 1..n : text[i + j - 1] = term[j]
  BY <1>3
<1>5. (\A j \in 1..n : text[i + j - 1] = term[j]) => s = term
  BY <1>1, <1>3, SameText DEF n
<1> QED BY <1>4, <1>5

LEMMA OccursMeans ==
  ASSUME NEW term \in Terms, NEW text \in Texts
  PROVE  Occurs(term, text) <=> \E i \in 1..Len(text) : Here(term, text, i)
<1>1. DOMAIN text = 1..Len(text)
  BY TextShape
<1> QED BY <1>1 DEF Occurs, Here

\* An occurrence in a piece is one in the text, and the other way round.
LEMMA HereInPiece ==
  ASSUME NEW term \in Terms, NEW text \in Texts,
         NEW a \in Nat \ {0}, NEW b \in Nat, b <= Len(text), a <= b + 1, NEW i \in Nat \ {0}
  PROVE  Here(term, SubSeq(text, a, b), i) <=>
           /\ Here(term, text, a + i - 1)
           /\ a + i - 1 + Len(term) - 1 <= b
<1> DEFINE s == SubSeq(text, a, b)
           n == Len(term)
           h == a + i - 1
<1>1. s \in Texts /\ Len(s) = b - a + 1 /\ \A j \in 1..(b - a + 1) : s[j] = text[a + j - 1]
  BY PieceShape
<1>2. n \in Nat \ {0} /\ Len(text) \in Nat /\ h \in Nat \ {0}
  BY TermShape, TextShape
<1>3. Here(term, s, i) <=> i + n - 1 <= Len(s) /\ \A j \in 1..n : s[i + j - 1] = term[j]
  BY <1>1, HereMeans
<1>4. Here(term, text, h) <=> h + n - 1 <= Len(text) /\ \A j \in 1..n : text[h + j - 1] = term[j]
  BY <1>2, HereMeans
<1> HIDE DEF s, n
<1>5. i + n - 1 <= Len(s) <=> h + n - 1 <= b
  BY <1>1, <1>2
<1>6. ASSUME h + n - 1 <= b, NEW j \in 1..n PROVE s[i + j - 1] = text[h + j - 1]
  <2>1. i + j - 1 \in 1..(b - a + 1) /\ a + (i + j - 1) - 1 = h + j - 1
    BY <1>2, <1>6
  <2> QED BY <1>1, <2>1
<1>7. CASE h + n - 1 <= b
  <2>1. h + n - 1 <= Len(text)
    BY <1>2, <1>7
  <2> QED BY <1>3, <1>4, <1>5, <1>6, <1>7, <2>1 DEF s, n
<1>8. CASE ~(h + n - 1 <= b)
  BY <1>3, <1>5, <1>8 DEF s, n
<1> QED BY <1>7, <1>8

-----------------------------------------------------------------------------
(***************************************************************************)
(* Counting them.                                                          *)
(***************************************************************************)
Counts == [seen : Nat, free : Nat]
Start == [seen |-> 0, free |-> 1]
\* The counts of a term after each place of a text.
Counting(u, term, text) ==
  /\ u[0] = Start
  /\ \A i \in 1..Len(text) : u[i] = Counted(term, text, u[i - 1], i)

LEMMA CountedIn ==
  ASSUME NEW term \in Terms, NEW text \in Texts, NEW c \in Counts, NEW i \in Nat
  PROVE  /\ Counted(term, text, c, i) \in Counts
         /\ Counted(term, text, c, i).seen >= c.seen
<1>1. Len(term) \in Nat
  BY TermShape
<1> QED BY <1>1 DEF Counted, Counts

LEMMA CountIs ==
  ASSUME NEW term \in Terms, NEW text \in Texts
  PROVE  \E u : Counting(u, term, text) /\ Count(term, text) = u[Len(text)].seen
<1> DEFINE n == Len(text)
           G == [i \in 1..n |-> [c \in Counts |-> Counted(term, text, c, i)]]
           upTo == CHOOSE g : g = [i \in 0..n |-> IF i = 0 THEN [seen |-> 0, free |-> 1]
                                                  ELSE Counted(term, text, g[i - 1], i)]
<1>1. n \in Nat /\ Start \in Counts
  BY TextShape DEF Start, Counts
<1> HIDE DEF n
<1>2. G \in [1..n -> [Counts -> Counts]]
  BY <1>1, CountedIn
<1>3. PICK f \in [0..n -> Counts] : Chain(f, n, Start, G)
  <2> HIDE DEF G
  <2> QED BY <1>1, <1>2, ChainExists
<1>4. f = [i \in 0..n |-> IF i = 0 THEN [seen |-> 0, free |-> 1]
                          ELSE Counted(term, text, f[i - 1], i)]
  <2>1. f = [i \in 0..n |-> IF i = 0 THEN Start ELSE G[i][f[i - 1]]]
    BY <1>3 DEF Chain
  <2>2. \A i \in 1..n : i - 1 \in 0..n /\ f[i - 1] \in Counts
                        /\ G[i][f[i - 1]] = Counted(term, text, f[i - 1], i)
    BY <1>1
  <2>3. ASSUME NEW i \in 0..n
        PROVE  (IF i = 0 THEN Start ELSE G[i][f[i - 1]])
                 = IF i = 0 THEN [seen |-> 0, free |-> 1] ELSE Counted(term, text, f[i - 1], i)
    <3>1. i = 0 \/ i \in 1..n
      BY <1>1
    <3> HIDE DEF G
    <3> QED BY <2>2, <3>1 DEF Start
  <2> HIDE DEF G
  <2> QED BY <2>1, <2>3
<1>5. upTo = [i \in 0..n |-> IF i = 0 THEN [seen |-> 0, free |-> 1]
                             ELSE Counted(term, text, upTo[i - 1], i)]
  BY <1>4
<1>6. Count(term, text) = upTo[n].seen
  BY DEF Count, n
<1> HIDE DEF upTo
<1>7. upTo[0] = Start
  BY <1>1, <1>5 DEF Start
<1>8. ASSUME NEW i \in 1..n PROVE upTo[i] = Counted(term, text, upTo[i - 1], i)
  <2>1. i \in 0..n /\ i # 0
    BY <1>1
  <2>2. upTo[i] = IF i = 0 THEN [seen |-> 0, free |-> 1] ELSE Counted(term, text, upTo[i - 1], i)
    BY <1>5, <2>1
  <2> QED BY <2>1, <2>2
<1>9. Counting(upTo, term, text)
  BY <1>7, <1>8 DEF Counting, n
<1> QED BY <1>6, <1>9 DEF n

LEMMA CountingIn ==
  ASSUME NEW term \in Terms, NEW text \in Texts, NEW u, Counting(u, term, text)
  PROVE  \A k \in 0..Len(text) : u[k] \in Counts
<1>1. Len(text) \in Nat /\ u[0] \in Counts
  BY TextShape DEF Counting, Start, Counts
<1>2. \A i \in 1..Len(text) : u[i - 1] \in Counts => u[i] \in Counts
  BY CountedIn DEF Counting
<1> QED BY <1>1, <1>2, ChainIn

\* The first occurrence is counted, and nothing else is.
LEMMA CountingFinds ==
  ASSUME NEW term \in Terms, NEW text \in Texts, NEW u, Counting(u, term, text)
  PROVE  \A k \in 0..Len(text) :
           /\ u[k].seen = 0 => u[k].free = 1
           /\ u[k].seen > 0 <=> \E i \in 1..k : Here(term, text, i)
<1> DEFINE n == Len(text)
           Right(k) == /\ u[k].seen = 0 => u[k].free = 1
                       /\ u[k].seen > 0 <=> \E i \in 1..k : Here(term, text, i)
           F == {k \in Nat : k <= n /\ ~Right(k)}
<1>1. n \in Nat /\ \A k \in 0..n : u[k] \in Counts
  BY TextShape, CountingIn
<1> SUFFICES ASSUME F # {} PROVE FALSE
  BY <1>1
<1>2. PICK k \in F : \A j \in F : k <= j
  BY LeastNumber
<1>3. k \in Nat /\ k <= n /\ ~Right(k)
  BY <1>2
<1>4. k # 0
  <2>1. Right(0)
    BY DEF Counting, Start
  <2> QED BY <1>3, <2>1
<1>5. k - 1 \in Nat /\ k - 1 <= n /\ k - 1 \in 0..n /\ k \in 1..n
  BY <1>3, <1>4
<1>6. Right(k - 1)
  BY <1>2, <1>5
<1>7. u[k] = Counted(term, text, u[k - 1], k) /\ u[k - 1] \in Counts
  BY <1>1, <1>5 DEF Counting
<1>8. u[k - 1].seen \in Nat /\ u[k - 1].free \in Nat
  BY <1>7 DEF Counts
<1>9. CASE k >= u[k - 1].free /\ Here(term, text, k)
  <2>1. u[k].seen = u[k - 1].seen + 1
    BY <1>7, <1>9 DEF Counted
  <2>2. u[k].seen > 0 /\ k \in 1..k
    BY <1>5, <1>8, <2>1
  <2> QED BY <1>3, <1>9, <2>2
<1>10. CASE ~(k >= u[k - 1].free /\ Here(term, text, k))
  <2>1. u[k] = u[k - 1]
    BY <1>7, <1>10 DEF Counted
  <2>2. u[k - 1].seen = 0 => ~Here(term, text, k)
    BY <1>5, <1>6, <1>10
  <2>3. \A i \in 1..k : i \in 1..(k - 1) \/ i = k
    BY <1>5
  <2>4. \A i \in 1..(k - 1) : i \in 1..k
    BY <1>5
  <2>5. u[k - 1].seen > 0 \/ u[k - 1].seen = 0
    BY <1>8
  <2>6. CASE u[k - 1].seen = 0
    <3>1. ~\E i \in 1..(k - 1) : Here(term, text, i)
      BY <1>6, <2>6
    <3>2. ~\E i \in 1..k : Here(term, text, i)
      BY <2>2, <2>3, <2>6, <3>1
    <3> QED BY <1>3, <1>6, <2>1, <2>6, <3>2
  <2>7. CASE u[k - 1].seen > 0
    <3>1. \E i \in 1..k : Here(term, text, i)
      BY <1>6, <2>4, <2>7
    <3> QED BY <1>3, <1>6, <2>1, <2>7, <3>1
  <2> QED BY <2>5, <2>6, <2>7
<1> QED BY <1>9, <1>10

\* A term is counted exactly if it occurs.
LEMMA CountFinds ==
  ASSUME NEW term \in Terms, NEW text \in Texts
  PROVE  Count(term, text) \in Nat /\ (Count(term, text) > 0 <=> Occurs(term, text))
<1>1. PICK u : Counting(u, term, text) /\ Count(term, text) = u[Len(text)].seen
  BY CountIs
<1>2. Len(text) \in Nat /\ Len(text) \in 0..Len(text)
  BY TextShape
<1>3. u[Len(text)] \in Counts
  BY <1>1, <1>2, CountingIn
<1>4. u[Len(text)].seen > 0 <=> \E i \in 1..Len(text) : Here(term, text, i)
  BY <1>1, <1>2, CountingFinds
<1> QED BY <1>1, <1>3, <1>4, OccursMeans DEF Counts

LEMMA CountingRises ==
  ASSUME NEW term \in Terms, NEW text \in Texts, NEW u, Counting(u, term, text),
         NEW a \in Nat, a <= Len(text)
  PROVE  u[a].seen <= u[Len(text)].seen
<1> DEFINE n == Len(text)
           F == {k \in Nat : a <= k /\ k <= n /\ ~(u[a].seen <= u[k].seen)}
<1>1. n \in Nat /\ \A k \in 0..n : u[k] \in Counts /\ u[k].seen \in Nat
  BY TextShape, CountingIn DEF Counts
<1> SUFFICES ASSUME F # {} PROVE FALSE
  BY <1>1
<1>2. PICK k \in F : \A j \in F : k <= j
  BY LeastNumber
<1>3. k \in Nat /\ a <= k /\ k <= n /\ ~(u[a].seen <= u[k].seen)
  BY <1>2
<1>4. k # a
  BY <1>1, <1>3
<1>5. k - 1 \in Nat /\ a <= k - 1 /\ k - 1 <= n /\ k - 1 \in 0..n /\ k \in 1..n
  BY <1>3, <1>4
<1>6. u[a].seen <= u[k - 1].seen
  BY <1>2, <1>5
<1>7. u[k] = Counted(term, text, u[k - 1], k)
  BY <1>5 DEF Counting
<1>8. u[k].seen >= u[k - 1].seen
  BY <1>1, <1>5, <1>7, CountedIn
<1>9. u[a].seen \in Nat /\ u[k - 1].seen \in Nat /\ u[k].seen \in Nat
  BY <1>1, <1>3, <1>5
<1> QED BY <1>3, <1>6, <1>8, <1>9

\* What is appended to a text takes no occurrence away.
LEMMA CountGrows ==
  ASSUME NEW term \in Terms, NEW s \in Texts, NEW text \in Texts, Len(s) <= Len(text),
         \A i \in 1..Len(s) : s[i] = text[i]
  PROVE  Count(term, s) <= Count(term, text)
<1> DEFINE m == Len(s)
           n == Len(text)
           l == Len(term)
<1>1. m \in Nat /\ n \in Nat /\ l \in Nat \ {0}
  BY TextShape, TermShape
<1>2. PICK v : Counting(v, term, s) /\ Count(term, s) = v[m].seen
  BY CountIs
<1>3. PICK u : Counting(u, term, text) /\ Count(term, text) = u[n].seen
  BY CountIs
<1>4. ASSUME NEW k \in 1..m, k + l - 1 <= m PROVE Here(term, s, k) <=> Here(term, text, k)
  <2>1. k \in Nat \ {0} /\ k + l - 1 <= n
    BY <1>1, <1>4
  <2>2. \A j \in 1..l : k + j - 1 \in 1..m
    BY <1>1, <1>4
  <2>3. \A j \in 1..l : s[k + j - 1] = text[k + j - 1]
    BY <2>2
  <2>4. Here(term, s, k) <=> k + l - 1 <= m /\ \A j \in 1..l : s[k + j - 1] = term[j]
    BY <2>1, HereMeans
  <2>5. Here(term, text, k) <=> k + l - 1 <= n /\ \A j \in 1..l : text[k + j - 1] = term[j]
    BY <2>1, HereMeans
  <2> QED BY <1>4, <2>1, <2>3, <2>4, <2>5
<1>5. /\ \A k \in 0..m : v[k] \in Counts /\ v[k].seen \in Nat
      /\ \A k \in 0..n : u[k] \in Counts /\ u[k].seen \in Nat
  BY <1>2, <1>3, CountingIn DEF Counts
<1> DEFINE Ahead(k) == v[k].seen <= u[k].seen /\ (k + l - 1 <= m => u[k] = v[k])
           F == {k \in Nat : k <= m /\ ~Ahead(k)}
<1>6. F = {}
  <2> SUFFICES ASSUME F # {} PROVE FALSE
    OBVIOUS
  <2>1. PICK k \in F : \A j \in F : k <= j
    BY LeastNumber
  <2>2. k \in Nat /\ k <= m /\ ~Ahead(k)
    BY <2>1
  <2>3. k # 0
    <3>1. u[0] = v[0] /\ v[0].seen = 0
      BY <1>2, <1>3 DEF Counting, Start
    <3>2. Ahead(0)
      BY <3>1
    <3> QED BY <2>2, <3>2
  <2>4. k - 1 \in Nat /\ k - 1 <= m /\ k - 1 \in 0..m /\ k - 1 \in 0..n /\ k \in 1..m /\ k \in 1..n
    BY <1>1, <2>2, <2>3
  <2>5. Ahead(k - 1)
    BY <2>1, <2>4
  <2> HIDE DEF m, n, l
  <2>6. v[k] = Counted(term, s, v[k - 1], k) /\ u[k] = Counted(term, text, u[k - 1], k)
    BY <1>2, <1>3, <2>4 DEF Counting, m, n
  <2>7. u[k].seen >= u[k - 1].seen
    BY <1>5, <2>4, <2>6, CountedIn
  <2>8. CASE k + l - 1 <= m
    <3>1. u[k - 1] = v[k - 1]
      BY <1>1, <2>2, <2>5, <2>8
    <3>2. u[k] = v[k]
      BY <1>4, <2>4, <2>6, <2>8, <3>1 DEF Counted
    <3>3. v[k].seen \in Nat
      BY <1>1, <1>5, <2>2
    <3> QED BY <2>2, <3>2, <3>3
  <2>9. CASE ~(k + l - 1 <= m)
    <3>1. ~Here(term, s, k)
      BY <2>9 DEF Here, l, m
    <3>2. v[k] = v[k - 1]
      BY <2>6, <3>1 DEF Counted
    <3>3. v[k - 1].seen \in Nat /\ u[k - 1].seen \in Nat /\ u[k].seen \in Nat
      BY <1>1, <1>5, <2>4
    <3> QED BY <2>2, <2>5, <2>7, <2>9, <3>2, <3>3
  <2> QED BY <2>8, <2>9
<1>7. v[m].seen <= u[m].seen
  BY <1>1, <1>6
<1>8. u[m].seen <= u[n].seen
  BY <1>1, <1>3, CountingRises
<1>9. v[m].seen \in Nat /\ u[m].seen \in Nat /\ u[n].seen \in Nat
  BY <1>1, <1>5
<1> QED BY <1>2, <1>3, <1>7, <1>8, <1>9

-----------------------------------------------------------------------------
(***************************************************************************)
(* Sums over finite sets.                                                  *)
(***************************************************************************)
OneOf(s) == CHOOSE x \in s : TRUE
Sums(f, S, g) ==
  /\ f[{}] = 0
  /\ \A s \in SUBSET S : s # {} => f[s] = g[OneOf(s)] + f[s \ {OneOf(s)}]

LEMMA Smaller ==
  ASSUME NEW s, IsFiniteSet(s), s # {}
  PROVE  /\ OneOf(s) \in s /\ IsFiniteSet(s \ {OneOf(s)})
         /\ Cardinality(s) \in Nat \ {0} /\ Cardinality(s \ {OneOf(s)}) = Cardinality(s) - 1
<1>1. OneOf(s) \in s
  BY DEF OneOf
<1>2. Cardinality(s) \in Nat /\ Cardinality(s) # 0
  BY FS_CardinalityType, FS_EmptySet
<1> QED BY <1>1, <1>2, FS_RemoveElement

\* A sum of the subsets of S with no more than k members.
UpTo(S, k) == {s \in SUBSET S : Cardinality(s) <= k}
SumsTo(f, S, k, g) ==
  /\ f \in [UpTo(S, k) -> Nat] /\ f[{}] = 0
  /\ \A s \in UpTo(S, k) : s # {} => f[s] = g[OneOf(s)] + f[s \ {OneOf(s)}]

LEMMA SumExtends ==
  ASSUME NEW S, IsFiniteSet(S), NEW g \in [S -> Nat], NEW k \in Nat, NEW f, SumsTo(f, S, k, g)
  PROVE  \E h : SumsTo(h, S, k + 1, g)
<1> DEFINE h == [s \in UpTo(S, k + 1) |-> IF s \in UpTo(S, k) THEN f[s]
                                          ELSE g[OneOf(s)] + f[s \ {OneOf(s)}]]
<1>1. ASSUME NEW s \in SUBSET S
      PROVE  /\ IsFiniteSet(s) /\ Cardinality(s) \in Nat
             /\ s # {} => /\ OneOf(s) \in S /\ s \ {OneOf(s)} \in SUBSET S
                          /\ Cardinality(s \ {OneOf(s)}) = Cardinality(s) - 1
  <2>1. IsFiniteSet(s) /\ Cardinality(s) \in Nat
    BY FS_Subset, FS_CardinalityType
  <2> QED BY <2>1, Smaller
<1>2. {} \in UpTo(S, k) /\ {} \in UpTo(S, k + 1)
  BY FS_EmptySet DEF UpTo
<1>3. ASSUME NEW s \in UpTo(S, k + 1), s # {}
      PROVE  s \ {OneOf(s)} \in UpTo(S, k) /\ s \ {OneOf(s)} \in UpTo(S, k + 1) /\ OneOf(s) \in S
  BY <1>1, <1>3 DEF UpTo
<1>4. ASSUME NEW s \in UpTo(S, k + 1) PROVE h[s] \in Nat
  <2>1. CASE s \in UpTo(S, k)
    BY <2>1 DEF SumsTo
  <2>2. CASE s \notin UpTo(S, k)
    <3>1. g[OneOf(s)] \in Nat /\ f[s \ {OneOf(s)}] \in Nat
      BY <1>2, <1>3, <2>2 DEF SumsTo
    <3> QED BY <2>2, <3>1
  <2> QED BY <2>1, <2>2
<1>5. h \in [UpTo(S, k + 1) -> Nat]
  BY <1>4
<1>6. h[{}] = 0
  BY <1>2 DEF SumsTo
<1>7. ASSUME NEW s \in UpTo(S, k + 1), s # {} PROVE h[s] = g[OneOf(s)] + h[s \ {OneOf(s)}]
  <2>1. h[s \ {OneOf(s)}] = f[s \ {OneOf(s)}]
    BY <1>3, <1>7
  <2>2. h[s] = g[OneOf(s)] + f[s \ {OneOf(s)}]
    <3>1. CASE s \in UpTo(S, k)
      BY <1>7, <3>1 DEF SumsTo
    <3>2. CASE s \notin UpTo(S, k)
      BY <3>2
    <3> QED BY <3>1, <3>2
  <2> HIDE DEF h
  <2> QED BY <2>1, <2>2
<1> HIDE DEF h
<1> QED BY <1>5, <1>6, <1>7 DEF SumsTo

LEMMA SumExists ==
  ASSUME NEW S, IsFiniteSet(S), NEW g \in [S -> Nat]
  PROVE  \E f \in [SUBSET S -> Nat] : Sums(f, S, g)
<1> DEFINE F == {k \in Nat : ~\E f : SumsTo(f, S, k, g)}
<1>1. F = {}
  <2> SUFFICES ASSUME F # {} PROVE FALSE
    OBVIOUS
  <2>1. PICK k \in F : \A j \in F : k <= j
    BY LeastNumber
  <2>2. k # 0
    <3> DEFINE f == [s \in UpTo(S, 0) |-> 0]
    <3>1. ASSUME NEW s \in UpTo(S, 0) PROVE s = {}
      <4>1. IsFiniteSet(s) /\ Cardinality(s) \in Nat /\ Cardinality(s) <= 0
        BY FS_Subset, FS_CardinalityType DEF UpTo
      <4> QED BY <4>1, FS_EmptySet
    <3>2. {} \in UpTo(S, 0)
      BY FS_EmptySet DEF UpTo
    <3>3. f \in [UpTo(S, 0) -> Nat] /\ f[{}] = 0
      BY <3>2
    <3> HIDE DEF f
    <3>4. SumsTo(f, S, 0, g)
      BY <3>1, <3>3 DEF SumsTo
    <3> QED BY <2>1, <3>4
  <2>3. k - 1 \in Nat /\ k - 1 \notin F /\ (k - 1) + 1 = k
    BY <2>1, <2>2
  <2>4. PICK f : SumsTo(f, S, k - 1, g)
    BY <2>3
  <2>5. \E h : SumsTo(h, S, (k - 1) + 1, g)
    BY <2>3, <2>4, SumExtends
  <2> QED BY <2>1, <2>3, <2>5
<1>2. Cardinality(S) \in Nat
  BY FS_CardinalityType
<1>3. PICK f : SumsTo(f, S, Cardinality(S), g)
  BY <1>1, <1>2
<1>4. UpTo(S, Cardinality(S)) = SUBSET S
  <2>1. \A s \in SUBSET S : Cardinality(s) <= Cardinality(S)
    BY FS_Subset
  <2> QED BY <2>1 DEF UpTo
<1> QED BY <1>3, <1>4 DEF SumsTo, Sums

\* A sum of counts is a count, and 0 only if all of them are.
LEMMA SumIs ==
  ASSUME NEW S, IsFiniteSet(S), NEW g \in [S -> Nat], NEW f, Sums(f, S, g)
  PROVE  f[S] \in Nat /\ (f[S] = 0 <=> \A x \in S : g[x] = 0)
<1> DEFINE Right(s) == f[s] \in Nat /\ (f[s] = 0 <=> \A x \in s : g[x] = 0)
           F == {k \in Nat : \E s \in SUBSET S : Cardinality(s) = k /\ ~Right(s)}
<1> SUFFICES ASSUME ~Right(S) PROVE FALSE
  OBVIOUS
<1>1. Cardinality(S) \in F
  BY FS_CardinalityType
<1>2. PICK k \in F : \A j \in F : k <= j
  BY <1>1, LeastNumber
<1>3. PICK s \in SUBSET S : Cardinality(s) = k /\ ~Right(s)
  BY <1>2
<1>4. IsFiniteSet(s)
  BY FS_Subset
<1>5. s # {}
  <2>1. Right({})
    BY DEF Sums
  <2> QED BY <1>3, <2>1
<1> DEFINE x == OneOf(s)
           t == s \ {x}
<1>6. x \in s /\ x \in S /\ t \in SUBSET S /\ Cardinality(t) = k - 1 /\ k \in Nat \ {0}
  BY <1>3, <1>4, <1>5, Smaller
<1>7. Right(t)
  <2>1. k - 1 \in Nat /\ k - 1 < k
    BY <1>6
  <2>2. k - 1 \notin F
    BY <1>2, <2>1
  <2> QED BY <1>6, <2>1, <2>2
<1>8. f[s] = g[x] + f[t] /\ g[x] \in Nat
  BY <1>5, <1>6 DEF Sums
<1>9. \A y \in s : y = x \/ y \in t
  OBVIOUS
<1>10. t \subseteq s
  OBVIOUS
<1> HIDE DEF x, t
<1>11. f[s] \in Nat /\ (f[s] = 0 <=> g[x] = 0 /\ f[t] = 0)
  BY <1>7, <1>8
<1>12. f[s] = 0 <=> \A y \in s : g[y] = 0
  BY <1>6, <1>7, <1>9, <1>10, <1>11
<1> QED BY <1>3, <1>11, <1>12

LEMMA SumGrows ==
  ASSUME NEW S, IsFiniteSet(S), NEW g \in [S -> Nat], NEW h \in [S -> Nat], \A x \in S : g[x] <= h[x],
         NEW e, Sums(e, S, g), NEW f, Sums(f, S, h)
  PROVE  e[S] <= f[S]
<1> DEFINE Right(s) == e[s] \in Nat /\ f[s] \in Nat /\ e[s] <= f[s]
           F == {k \in Nat : \E s \in SUBSET S : Cardinality(s) = k /\ ~Right(s)}
<1> SUFFICES ASSUME ~Right(S) PROVE FALSE
  OBVIOUS
<1>1. Cardinality(S) \in F
  BY FS_CardinalityType
<1>2. PICK k \in F : \A j \in F : k <= j
  BY <1>1, LeastNumber
<1>3. PICK s \in SUBSET S : Cardinality(s) = k /\ ~Right(s)
  BY <1>2
<1>4. IsFiniteSet(s)
  BY FS_Subset
<1>5. s # {}
  <2>1. Right({})
    BY DEF Sums
  <2> QED BY <1>3, <2>1
<1> DEFINE x == OneOf(s)
           t == s \ {x}
<1>6. x \in s /\ x \in S /\ t \in SUBSET S /\ Cardinality(t) = k - 1 /\ k \in Nat \ {0}
  BY <1>3, <1>4, <1>5, Smaller
<1>7. Right(t)
  <2>1. k - 1 \in Nat /\ k - 1 < k
    BY <1>6
  <2>2. k - 1 \notin F
    BY <1>2, <2>1
  <2> QED BY <1>6, <2>1, <2>2
<1>8. e[s] = g[x] + e[t] /\ g[x] \in Nat /\ f[s] = h[x] + f[t] /\ h[x] \in Nat /\ g[x] <= h[x]
  BY <1>5, <1>6 DEF Sums
<1> HIDE DEF x, t
<1> QED BY <1>3, <1>7, <1>8

-----------------------------------------------------------------------------
\* The count of all terms.
LEMMA CountAllIs ==
  ASSUME NEW terms, IsFiniteSet(terms), terms \subseteq Terms, NEW text \in Texts
  PROVE  /\ [t \in terms |-> Count(t, text)] \in [terms -> Nat]
         /\ \E f : /\ Sums(f, terms, [t \in terms |-> Count(t, text)])
                   /\ CountAll(terms, text) = f[terms]
<1> DEFINE g == [t \in terms |-> Count(t, text)]
           iter == CHOOSE f : f = [s \in SUBSET terms |->
                                    IF s = {} THEN 0
                                    ELSE Count(CHOOSE x \in s : TRUE, text)
                                           + f[s \ {CHOOSE x \in s : TRUE}]]
<1>1. g \in [terms -> Nat] /\ \A t \in terms : g[t] = Count(t, text)
  BY CountFinds
<1>2. CountAll(terms, text) = iter[terms]
  BY DEF CountAll, MapThenSumSet, MapThenFoldSet
<1> HIDE DEF g
<1>3. PICK f \in [SUBSET terms -> Nat] : Sums(f, terms, g)
  BY <1>1, SumExists
<1>4. ASSUME NEW s \in SUBSET terms, s # {} PROVE OneOf(s) \in terms /\ Count(OneOf(s), text) = g[OneOf(s)]
  <2>1. OneOf(s) \in s
    BY <1>4 DEF OneOf
  <2> QED BY <1>1, <2>1
<1>5. f = [s \in SUBSET terms |-> IF s = {} THEN 0
                                  ELSE Count(CHOOSE x \in s : TRUE, text)
                                         + f[s \ {CHOOSE x \in s : TRUE}]]
  <2>1. ASSUME NEW s \in SUBSET terms
        PROVE  f[s] = IF s = {} THEN 0 ELSE Count(OneOf(s), text) + f[s \ {OneOf(s)}]
    BY <1>3, <1>4 DEF Sums
  <2>2. f = [s \in SUBSET terms |-> IF s = {} THEN 0 ELSE Count(OneOf(s), text) + f[s \ {OneOf(s)}]]
    BY <2>1
  <2> QED BY <2>2 DEF OneOf
<1>6. iter = [s \in SUBSET terms |-> IF s = {} THEN 0
                                     ELSE Count(CHOOSE x \in s : TRUE, text)
                                            + iter[s \ {CHOOSE x \in s : TRUE}]]
  BY <1>5
<1> HIDE DEF iter
<1>7. iter = [s \in SUBSET terms |-> IF s = {} THEN 0 ELSE Count(OneOf(s), text) + iter[s \ {OneOf(s)}]]
  BY <1>6 DEF OneOf
<1>8. ASSUME NEW s \in SUBSET terms, s # {} PROVE iter[s] = g[OneOf(s)] + iter[s \ {OneOf(s)}]
  BY <1>4, <1>7, <1>8
<1>9. iter[{}] = 0
  BY <1>7
<1>10. Sums(iter, terms, g)
  BY <1>8, <1>9 DEF Sums
<1> QED BY <1>1, <1>2, <1>10 DEF g

LEMMA CountAllFinds ==
  ASSUME NEW terms, IsFiniteSet(terms), terms \subseteq Terms, NEW text \in Texts
  PROVE  /\ CountAll(terms, text) \in Nat
         /\ CountAll(terms, text) > 0 <=> \E t \in terms : Occurs(t, text)
<1> DEFINE g == [t \in terms |-> Count(t, text)]
<1>1. g \in [terms -> Nat] /\ \A t \in terms : g[t] = Count(t, text)
  BY CountFinds
<1>2. PICK f : Sums(f, terms, g) /\ CountAll(terms, text) = f[terms]
  BY CountAllIs
<1> HIDE DEF g
<1>3. f[terms] \in Nat /\ (f[terms] = 0 <=> \A t \in terms : g[t] = 0)
  BY <1>1, <1>2, SumIs
<1>4. \A t \in terms : g[t] \in Nat /\ (g[t] > 0 <=> Occurs(t, text))
  BY <1>1, CountFinds
<1>5. \A t \in terms : g[t] = 0 <=> ~Occurs(t, text)
  BY <1>4
<1> QED BY <1>2, <1>3, <1>5

LEMMA CountAllGrows ==
  ASSUME NEW terms, IsFiniteSet(terms), terms \subseteq Terms, NEW s \in Texts, NEW text \in Texts,
         Len(s) <= Len(text), \A i \in 1..Len(s) : s[i] = text[i]
  PROVE  CountAll(terms, s) <= CountAll(terms, text)
<1> DEFINE g == [t \in terms |-> Count(t, s)]
           h == [t \in terms |-> Count(t, text)]
<1>1. g \in [terms -> Nat] /\ h \in [terms -> Nat] /\ \A t \in terms : g[t] <= h[t]
  BY CountFinds, CountGrows
<1>2. PICK e : Sums(e, terms, g) /\ CountAll(terms, s) = e[terms]
  BY CountAllIs
<1>3. PICK f : Sums(f, terms, h) /\ CountAll(terms, text) = f[terms]
  BY CountAllIs
<1> HIDE DEF g, h
<1> QED BY <1>1, <1>2, <1>3, SumGrows

LEMMA MinOfTwo ==
  ASSUME NEW a \in Int, NEW b \in Int
  PROVE  Min({a, b}) = IF a <= b THEN a ELSE b
<1> DEFINE m == IF a <= b THEN a ELSE b
<1>1. m \in {a, b} /\ \A y \in {a, b} : m <= y
  OBVIOUS
<1>2. Min({a, b}) \in {a, b} /\ \A y \in {a, b} : Min({a, b}) <= y
  BY <1>1 DEF Min
<1> QED BY <1>2

LEMMA MaxOfTwo ==
  ASSUME NEW a \in Int, NEW b \in Int
  PROVE  Max({a, b}) = IF a <= b THEN b ELSE a
<1> DEFINE m == IF a <= b THEN b ELSE a
<1>1. m \in {a, b} /\ \A y \in {a, b} : m >= y
  OBVIOUS
<1>2. Max({a, b}) \in {a, b} /\ \A y \in {a, b} : Max({a, b}) >= y
  BY <1>1 DEF Max
<1> QED BY <1>2

-----------------------------------------------------------------------------
(***************************************************************************)
(* Chunks, and what is kept between them.                                  *)
(***************************************************************************)
LEMMA Concatenated ==
  ASSUME NEW s \in Texts, NEW t \in Texts
  PROVE  /\ s \o t \in Texts /\ Len(s \o t) = Len(s) + Len(t)
         /\ \A j \in 1..(Len(s) + Len(t)) :
              (s \o t)[j] = IF j <= Len(s) THEN s[j] ELSE t[j - Len(s)]
<1>1. s \in Seq(Letters) /\ t \in Seq(Letters)
  BY DEF Texts
<1>2. s \o t \in Seq(Letters) /\ Len(s \o t) = Len(s) + Len(t)
  BY <1>1
<1>3. \A j \in 1..(Len(s) + Len(t)) : (s \o t)[j] = IF j <= Len(s) THEN s[j] ELSE t[j - Len(s)]
  BY <1>1
<1> QED BY <1>2, <1>3 DEF Texts

LEMMA JoinedPieces ==
  ASSUME NEW text \in Texts, NEW a \in Nat \ {0}, NEW b \in Nat, NEW c \in Nat,
         a <= b + 1, b <= c, c <= Len(text)
  PROVE  SubSeq(text, a, b) \o SubSeq(text, b + 1, c) = SubSeq(text, a, c)
<1> DEFINE s == SubSeq(text, a, b)
           t == SubSeq(text, b + 1, c)
           u == SubSeq(text, a, c)
<1>1. Len(text) \in Nat
  BY TextShape
<1>2. s \in Texts /\ Len(s) = b - a + 1 /\ \A j \in 1..(b - a + 1) : s[j] = text[a + j - 1]
  BY <1>1, PieceShape
<1>3. t \in Texts /\ Len(t) = c - b /\ \A j \in 1..(c - b) : t[j] = text[b + j]
  <2>1. b + 1 \in Nat \ {0} /\ b + 1 <= c + 1 /\ c - (b + 1) + 1 = c - b
    OBVIOUS
  <2>2. t \in Texts /\ Len(t) = c - (b + 1) + 1 /\ \A j \in 1..(c - (b + 1) + 1) : t[j] = text[b + 1 + j - 1]
    BY <1>1, <2>1, PieceShape
  <2>3. \A j \in 1..(c - b) : b + 1 + j - 1 = b + j
    OBVIOUS
  <2> QED BY <2>1, <2>2, <2>3
<1>4. u \in Texts /\ Len(u) = c - a + 1 /\ \A j \in 1..(c - a + 1) : u[j] = text[a + j - 1]
  <2>1. a <= c + 1
    OBVIOUS
  <2> QED BY <1>1, <2>1, PieceShape
<1> HIDE DEF s, t, u
<1>5. s \o t \in Texts /\ Len(s \o t) = Len(s) + Len(t)
      /\ \A j \in 1..(Len(s) + Len(t)) : (s \o t)[j] = IF j <= Len(s) THEN s[j] ELSE t[j - Len(s)]
  BY <1>2, <1>3, Concatenated
<1>6. Len(s \o t) = Len(u)
  BY <1>2, <1>3, <1>4, <1>5
<1>7. ASSUME NEW j \in 1..(c - a + 1) PROVE (s \o t)[j] = u[j]
  <2>1. j \in 1..(Len(s) + Len(t))
    BY <1>2, <1>3
  <2>2. CASE j <= Len(s)
    BY <1>2, <1>4, <1>5, <2>1, <2>2
  <2>3. CASE ~(j <= Len(s))
    <3>1. j - Len(s) \in 1..(c - b) /\ b + (j - Len(s)) = a + j - 1
      BY <1>2, <2>3
    <3> QED BY <1>3, <1>4, <1>5, <2>1, <2>3, <3>1
  <2> QED BY <2>2, <2>3
<1>8. s \o t = u
  BY <1>4, <1>5, <1>6, <1>7, SameText
<1> QED BY <1>8 DEF s, t, u

LEMMA PieceOfPiece ==
  ASSUME NEW text \in Texts, NEW a \in Nat \ {0}, NEW c \in Nat, c <= Len(text), a <= c + 1,
         NEW m \in Nat \ {0}, m <= c - a + 2
  PROVE  SubSeq(SubSeq(text, a, c), m, c - a + 1) = SubSeq(text, a + m - 1, c)
<1> DEFINE s == SubSeq(text, a, c)
           l == c - a + 1
           x == SubSeq(s, m, l)
           y == SubSeq(text, a + m - 1, c)
<1>1. Len(text) \in Nat /\ l \in Nat /\ m <= l + 1 /\ a + m - 1 \in Nat \ {0} /\ a + m - 1 <= c + 1
  BY TextShape
<1>2. s \in Texts /\ Len(s) = l /\ \A j \in 1..l : s[j] = text[a + j - 1]
  BY PieceShape
<1> HIDE DEF s
<1>3. x \in Texts /\ Len(x) = l - m + 1 /\ \A j \in 1..(l - m + 1) : x[j] = s[m + j - 1]
  <2> HIDE DEF l
  <2> QED BY <1>1, <1>2, PieceShape
<1>4. y \in Texts /\ Len(y) = c - (a + m - 1) + 1 /\ \A j \in 1..(c - (a + m - 1) + 1) : y[j] = text[a + m - 1 + j - 1]
  BY <1>1, PieceShape
<1>5. Len(x) = Len(y) /\ Len(x) = l - m + 1
  BY <1>1, <1>3, <1>4
<1> HIDE DEF x, y
<1>6. ASSUME NEW j \in 1..Len(x) PROVE x[j] = y[j]
  <2>1. j \in 1..(l - m + 1) /\ j \in 1..(c - (a + m - 1) + 1) /\ m + j - 1 \in 1..l
        /\ a + (m + j - 1) - 1 = a + m - 1 + j - 1
    BY <1>1, <1>5
  <2> QED BY <1>2, <1>3, <1>4, <2>1
<1>7. x = y
  BY <1>3, <1>4, <1>5, <1>6, SameText
<1> QED BY <1>7 DEF x, y, s

\* How many chunks there are, and where they end.
Pieces(n) == (n + ChunkSize - 1) \div ChunkSize
End(k, n) == Min({k * ChunkSize, n})

LEMMA PiecesFacts ==
  ASSUME NEW n \in Nat
  PROVE  /\ Pieces(n) \in Nat /\ n <= Pieces(n) * ChunkSize
         /\ \A k \in 1..Pieces(n) : (k - 1) * ChunkSize < n
<1> DEFINE C == ChunkSize
           K == Pieces(n)
<1>1. C \in Nat /\ C > 0
  BY PathAssumption
<1> HIDE DEF C
<1>2. K = (n + C - 1) \div C
  BY DEF Pieces, C
<1> HIDE DEF K
<1>3. K \in Int /\ C * K <= n + C - 1 /\ n + C - 1 < C * K + C
  BY <1>1, <1>2
<1>4. K \in Nat
  <2>1. CASE K < 0
    <3>1. C * K <= 0 - C
      BY <1>1, <1>3, <2>1
    <3> QED BY <1>1, <1>3, <3>1
  <2> QED BY <1>3, <2>1
<1>5. n <= K * C
  <2>1. K * C = C * K /\ C * K \in Int
    BY <1>1, <1>4
  <2> QED BY <1>1, <1>3, <2>1
<1>6. ASSUME NEW k \in 1..K PROVE (k - 1) * C < n
  <2>1. k \in Int /\ k - 1 \in Nat /\ K - k \in Nat
    BY <1>4
  <2>2. (K - k) * C \in Nat
    BY <1>1, <2>1
  <2>3. (k - 1) * C + (K - k) * C + C = C * K
    BY <1>1, <1>4, <2>1
  <2>4. (k - 1) * C \in Nat
    BY <1>1, <2>1
  <2> QED BY <1>1, <1>3, <2>2, <2>3, <2>4
<1> QED BY <1>4, <1>5, <1>6 DEF C, K

LEMMA EndFacts ==
  ASSUME NEW n \in Nat
  PROVE  /\ End(0, n) = 0 /\ End(Pieces(n), n) = n
         /\ \A k \in 0..Pieces(n) : End(k, n) \in Nat /\ End(k, n) <= n
         /\ \A k \in 1..Pieces(n) : (k - 1) * ChunkSize = End(k - 1, n) /\ End(k - 1, n) < End(k, n)
<1> DEFINE C == ChunkSize
<1>1. C \in Nat /\ C > 0 /\ Pieces(n) \in Nat
  <2>1. C \in Nat /\ C > 0
    BY PathAssumption
  <2> QED BY <2>1, PiecesFacts
<1>2. ASSUME NEW k \in Nat
      PROVE  k * C \in Nat /\ End(k, n) = IF k * C <= n THEN k * C ELSE n
  <2>1. k * C \in Nat
    BY <1>1
  <2> QED BY <2>1, MinOfTwo DEF End
<1>3. End(0, n) = 0
  <2>1. 0 * C = 0
    BY <1>1
  <2> QED BY <1>2, <2>1
<1>4. End(Pieces(n), n) = n
  <2>1. n <= Pieces(n) * C
    BY PiecesFacts
  <2>2. Pieces(n) * C \in Nat
    BY <1>1, <1>2
  <2> QED BY <1>1, <1>2, <2>1, <2>2
<1>5. \A k \in 0..Pieces(n) : End(k, n) \in Nat /\ End(k, n) <= n
  BY <1>1, <1>2
<1>6. ASSUME NEW k \in 1..Pieces(n)
      PROVE  (k - 1) * C = End(k - 1, n) /\ End(k - 1, n) < End(k, n)
  <2>1. k \in Nat /\ k - 1 \in Nat
    BY <1>1
  <2>2. (k - 1) * C < n
    BY PiecesFacts
  <2>3. (k - 1) * C \in Nat /\ End(k - 1, n) = (k - 1) * C
    BY <1>2, <2>1, <2>2
  <2>4. k * C = (k - 1) * C + C
    BY <1>1, <2>1
  <2>5. End(k, n) = IF k * C <= n THEN k * C ELSE n
    BY <1>2, <2>1
  <2> QED BY <1>1, <2>2, <2>3, <2>4, <2>5
<1> QED BY <1>3, <1>4, <1>5, <1>6

LEMMA ChunkIs ==
  ASSUME NEW text \in Texts
  PROVE  /\ Len(Chunks(text)) = Pieces(Len(text)) /\ Len(Chunks(text)) \in Nat
         /\ \A k \in 1..Pieces(Len(text)) :
              Chunks(text)[k] = SubSeq(text, End(k - 1, Len(text)) + 1, End(k, Len(text)))
<1> DEFINE n == Len(text)
<1>1. n \in Nat /\ Pieces(n) \in Nat
  BY TextShape, PiecesFacts
<1>2. Chunks(text) = [k \in 1..Pieces(n) |-> SubSeq(text, (k - 1) * ChunkSize + 1, End(k, n))]
  BY DEF Chunks, Pieces, End
<1>3. Len(Chunks(text)) = Pieces(n)
  BY <1>1, <1>2
<1>4. \A k \in 1..Pieces(n) : (k - 1) * ChunkSize = End(k - 1, n)
  BY <1>1, EndFacts
<1> QED BY <1>1, <1>2, <1>3, <1>4

\* No term is longer than what is kept between two chunks, and one letter.
LEMMA OverlapFacts ==
  ASSUME NEW terms, IsFiniteSet(terms), terms \subseteq Terms
  PROVE  Overlap(terms) \in Nat /\ \A t \in terms : Len(t) <= Overlap(terms) + 1
<1>1. PICK n \in Nat : ExistsSurjection(1..n, terms)
  BY FS_NatSurjection
<1>2. PICK f \in [1..n -> terms] : \A t \in terms : \E i \in 1..n : f[i] = t
  BY <1>1 DEF ExistsSurjection, Surjection
<1> DEFINE g == [i \in 1..n |-> Len(f[i])]
<1>3. g \in [1..n -> Nat]
  BY TermShape
<1>4. PICK N \in Nat : \A i \in 1..n : g[i] <= N
  <2> HIDE DEF g
  <2> QED BY <1>3, BoundExists DEF Bounded
<1>5. \A t \in terms : Len(t) \in Nat /\ Len(t) <= N
  BY <1>2, <1>4, TermShape
<1> DEFINE S == {1} \cup {Len(t) : t \in terms}
<1>6. /\ N + 1 \in Nat /\ S \in SUBSET (0..(N + 1)) /\ S # {} /\ 1 \in S
      /\ \A t \in terms : Len(t) \in S
      /\ \A k \in S : k \in Nat
  BY <1>5
<1>7. Overlap(terms) = Max(S) - 1
  BY DEF Overlap
<1> HIDE DEF S
<1>8. Max(S) \in S /\ \A k \in S : k <= Max(S)
  BY <1>6, MaxFacts
<1>9. Max(S) \in Nat /\ 1 <= Max(S)
  BY <1>6, <1>8
<1> QED BY <1>5, <1>6, <1>7, <1>8, <1>9

\* A term occurs, and ends by place e.
By(terms, text, e) ==
  \E t \in terms, h \in 1..Len(text) : Here(t, text, h) /\ h + Len(t) - 1 <= e

LEMMA ByEnd ==
  ASSUME NEW terms, terms \subseteq Terms, NEW text \in Texts
  PROVE  By(terms, text, Len(text)) <=> \E t \in terms : Occurs(t, text)
<1>1. \A t \in terms : Occurs(t, text) <=> \E i \in 1..Len(text) : Here(t, text, i)
  BY OccursMeans
<1>2. \A t \in terms : \A i \in 1..Len(text) : Here(t, text, i) => i + Len(t) - 1 <= Len(text)
  BY DEF Here
<1> QED BY <1>1, <1>2 DEF By

\* A term occurs in a piece exactly if it does in the text, between its ends.
LEMMA PieceFinds ==
  ASSUME NEW terms, IsFiniteSet(terms), terms \subseteq Terms, NEW text \in Texts,
         NEW a \in Nat \ {0}, NEW b \in Nat, b <= Len(text), a <= b + 1
  PROVE  /\ CountAll(terms, SubSeq(text, a, b)) \in Nat
         /\ CountAll(terms, SubSeq(text, a, b)) > 0 <=>
              \E t \in terms, h \in 1..Len(text) :
                a <= h /\ Here(t, text, h) /\ h + Len(t) - 1 <= b
<1> DEFINE s == SubSeq(text, a, b)
<1>1. s \in Texts /\ Len(s) = b - a + 1 /\ Len(text) \in Nat
  BY PieceShape, TextShape
<1>2. CountAll(terms, s) \in Nat /\ (CountAll(terms, s) > 0 <=> \E t \in terms : Occurs(t, s))
  BY <1>1, CountAllFinds
<1>3. \A t \in terms : Occurs(t, s) <=> \E i \in 1..Len(s) : Here(t, s, i)
  BY <1>1, OccursMeans
<1>4. ASSUME NEW t \in terms, NEW i \in Nat \ {0}
      PROVE  Here(t, s, i) <=> Here(t, text, a + i - 1) /\ a + i - 1 + Len(t) - 1 <= b
  BY HereInPiece
<1>5. ASSUME NEW t \in terms, NEW i \in 1..Len(s), Here(t, s, i)
      PROVE  \E h \in 1..Len(text) : a <= h /\ Here(t, text, h) /\ h + Len(t) - 1 <= b
  <2>1. i \in Nat \ {0} /\ a + i - 1 \in 1..Len(text) /\ a <= a + i - 1
    BY <1>1
  <2> QED BY <1>4, <1>5, <2>1
<1>6. ASSUME NEW t \in terms, NEW h \in 1..Len(text), a <= h, Here(t, text, h), h + Len(t) - 1 <= b
      PROVE  \E i \in 1..Len(s) : Here(t, s, i)
  <2>1. Len(t) \in Nat \ {0}
    BY TermShape
  <2>2. h - a + 1 \in Nat \ {0} /\ h - a + 1 \in 1..(b - a + 1) /\ a + (h - a + 1) - 1 = h
    BY <1>1, <1>6, <2>1
  <2> QED BY <1>1, <1>4, <1>6, <2>2
<1> HIDE DEF s
<1>7. (\E t \in terms : Occurs(t, s)) <=>
        \E t \in terms, h \in 1..Len(text) : a <= h /\ Here(t, text, h) /\ h + Len(t) - 1 <= b
  BY <1>3, <1>5, <1>6
<1> QED BY <1>2, <1>7 DEF s

\* What is kept of a text up to place e is enough to find the terms that end after it.
Kept(tail, text, e, m) ==
  \E b \in Nat \ {0} : /\ b <= e + 1 /\ tail = SubSeq(text, b, e)
                       /\ b = 1 \/ b <= e - m + 1
Searched(acc, terms, text, e) ==
  /\ acc.score \in Nat /\ Kept(acc.tail, text, e, Overlap(terms))
  /\ acc.score > 0 <=> By(terms, text, e)

LEMMA EndingKept ==
  ASSUME NEW text \in Texts, NEW b \in Nat \ {0}, NEW e \in Nat, NEW c \in Nat, e < c, c <= Len(text),
         b <= e + 1, NEW m \in Nat, b = 1 \/ b <= e - m + 1
  PROVE  Kept(Ending(SubSeq(text, b, c), m), text, c, m)
<1> DEFINE w == SubSeq(text, b, c)
           l == c - b + 1
           a == IF 1 <= l - m + 1 THEN l - m + 1 ELSE 1
<1>1. Len(w) = l /\ l \in Nat
  BY PieceShape
<1>2. Max({1, l - m + 1}) = a /\ a \in Nat \ {0} /\ a <= l + 1
  BY <1>1, MaxOfTwo
<1>3. Ending(w, m) = SubSeq(w, a, l)
  BY <1>1, <1>2 DEF Ending
<1>4. a <= c - b + 2
  BY <1>2
<1>5. SubSeq(w, a, c - b + 1) = SubSeq(text, b + a - 1, c)
  BY <1>2, <1>4, PieceOfPiece
<1>6. b + a - 1 \in Nat \ {0} /\ b + a - 1 <= c + 1
  BY <1>2, <1>4
<1>7. b + a - 1 = 1 \/ b + a - 1 <= c - m + 1
  OBVIOUS
<1> HIDE DEF a, w
<1> QED BY <1>3, <1>5, <1>6, <1>7 DEF Kept, w

LEMMA AdvancedSearched ==
  ASSUME NEW terms, IsFiniteSet(terms), terms \subseteq Terms, NEW text \in Texts,
         NEW e \in Nat, NEW c \in Nat, e < c, c <= Len(text), NEW acc, Searched(acc, terms, text, e)
  PROVE  Searched(Advanced(terms, acc, SubSeq(text, e + 1, c)), terms, text, c)
<1> DEFINE m == Overlap(terms)
<1>1. m \in Nat /\ (\A t \in terms : Len(t) <= m + 1) /\ Len(text) \in Nat
  BY OverlapFacts, TextShape
<1> HIDE DEF m
<1>2. PICK b \in Nat \ {0} : /\ b <= e + 1 /\ acc.tail = SubSeq(text, b, e)
                             /\ b = 1 \/ b <= e - m + 1
  BY DEF Searched, Kept, m
<1> DEFINE w == SubSeq(text, b, c)
           old == CountAll(terms, acc.tail)
           new == CountAll(terms, w)
           next == Advanced(terms, acc, SubSeq(text, e + 1, c))
<1>3. acc.tail \o SubSeq(text, e + 1, c) = w
  BY <1>1, <1>2, JoinedPieces
<1>4. next.score = acc.score + new - old /\ next.tail = Ending(w, m)
  BY <1>3 DEF Advanced, m
<1>5. Kept(next.tail, text, c, m)
  BY <1>1, <1>2, <1>4, EndingKept
<1>6. /\ old \in Nat
      /\ old > 0 <=> \E t \in terms, h \in 1..Len(text) : b <= h /\ Here(t, text, h) /\ h + Len(t) - 1 <= e
  <2>1. e <= Len(text)
    BY <1>1
  <2> QED BY <1>2, <2>1, PieceFinds
<1>7. /\ new \in Nat
      /\ new > 0 <=> \E t \in terms, h \in 1..Len(text) : b <= h /\ Here(t, text, h) /\ h + Len(t) - 1 <= c
  <2>1. b <= c + 1
    BY <1>2
  <2> QED BY <2>1, PieceFinds
<1>8. old <= new
  <2>1. e <= Len(text) /\ b <= c + 1
    BY <1>1, <1>2
  <2>2. acc.tail \in Texts /\ Len(acc.tail) = e - b + 1
        /\ \A j \in 1..(e - b + 1) : acc.tail[j] = text[b + j - 1]
    BY <1>2, <2>1, PieceShape
  <2>3. w \in Texts /\ Len(w) = c - b + 1 /\ \A j \in 1..(c - b + 1) : w[j] = text[b + j - 1]
    BY <2>1, PieceShape
  <2> HIDE DEF w
  <2>4. Len(acc.tail) <= Len(w) /\ \A j \in 1..Len(acc.tail) : acc.tail[j] = w[j]
    <3>1. \A j \in 1..(e - b + 1) : j \in 1..(c - b + 1)
      OBVIOUS
    <3> QED BY <2>2, <2>3, <3>1
  <2> QED BY <2>2, <2>3, <2>4, CountAllGrows
<1> HIDE DEF w, old, new, next
<1>9. acc.score \in Nat /\ (acc.score > 0 <=> By(terms, text, e))
  BY DEF Searched
<1>10. next.score \in Nat
  BY <1>4, <1>6, <1>7, <1>8, <1>9
<1>11. \A t \in terms : Len(t) \in Nat \ {0}
  BY TermShape
<1>12. ASSUME By(terms, text, e) PROVE By(terms, text, c) /\ next.score > 0
  <2>1. By(terms, text, c)
    <3>1. PICK t \in terms, h \in 1..Len(text) : Here(t, text, h) /\ h + Len(t) - 1 <= e
      BY <1>12 DEF By
    <3>2. h + Len(t) - 1 <= c
      BY <1>1, <1>11, <3>1
    <3> QED BY <3>1, <3>2 DEF By
  <2>2. next.score > 0
    BY <1>4, <1>6, <1>7, <1>8, <1>9, <1>12
  <2> QED BY <2>1, <2>2
<1>13. ASSUME ~By(terms, text, e) PROVE next.score > 0 <=> By(terms, text, c)
  <2>1. old = 0
    <3>1. ~(old > 0)
      BY <1>6, <1>13 DEF By
    <3> QED BY <1>6, <3>1
  <2>2. next.score = new
    BY <1>4, <1>7, <1>9, <1>13, <2>1
  <2>3. new > 0 => By(terms, text, c)
    BY <1>7 DEF By
  <2>4. ASSUME By(terms, text, c) PROVE new > 0
    <3>1. PICK t \in terms, h \in 1..Len(text) : Here(t, text, h) /\ h + Len(t) - 1 <= c
      BY <2>4 DEF By
    <3>2. ~(h + Len(t) - 1 <= e)
      BY <1>13, <3>1 DEF By
    <3>3. b <= h
      <4>1. Len(t) \in Nat \ {0} /\ Len(t) <= m + 1 /\ h \in Nat \ {0}
        BY <1>1, <1>11
      <4>2. h > e - m
        BY <1>1, <3>2, <4>1
      <4> QED BY <1>1, <1>2, <4>1, <4>2
    <3> QED BY <1>7, <3>1, <3>3
  <2> QED BY <2>2, <2>3, <2>4
<1> QED BY <1>5, <1>10, <1>12, <1>13 DEF Searched, m, next

-----------------------------------------------------------------------------
\* A search through all chunks.
Scores == [score : Int, tail : Texts]

LEMMA AdvancedTyped ==
  ASSUME NEW terms, IsFiniteSet(terms), terms \subseteq Terms, NEW acc \in Scores, NEW chunk \in Texts
  PROVE  Advanced(terms, acc, chunk) \in Scores
<1> DEFINE w == acc.tail \o chunk
           m == Overlap(terms)
           l == Len(w)
           a == Max({1, l - m + 1})
<1>1. acc.score \in Int /\ acc.tail \in Texts
  BY DEF Scores
<1>2. w \in Texts /\ l \in Nat /\ m \in Nat
  BY <1>1, Concatenated, TextShape, OverlapFacts
<1>3. CountAll(terms, w) \in Nat /\ CountAll(terms, acc.tail) \in Nat
  BY <1>1, <1>2, CountAllFinds
<1> HIDE DEF w
<1>4. a \in Nat \ {0} /\ a <= l + 1
  <2> HIDE DEF m, l
  <2>1. l - m + 1 \in Int /\ 1 \in Int
    BY <1>2
  <2>2. a = IF 1 <= l - m + 1 THEN l - m + 1 ELSE 1
    BY <2>1, MaxOfTwo
  <2> QED BY <1>2, <2>2
<1> HIDE DEF a
<1>5. SubSeq(w, a, l) \in Texts
  BY <1>2, <1>4, PieceShape
<1>6. Ending(w, m) = SubSeq(w, a, l)
  BY DEF Ending, a
<1>7. Advanced(terms, acc, chunk) =
        [score |-> acc.score + CountAll(terms, w) - CountAll(terms, acc.tail), tail |-> Ending(w, m)]
  BY DEF Advanced, w
<1> QED BY <1>1, <1>3, <1>5, <1>6, <1>7 DEF Scores

LEMMA StreamIs ==
  ASSUME NEW terms, IsFiniteSet(terms), terms \subseteq Terms, NEW text \in Texts
  PROVE  \E u : /\ u[0] = [score |-> 0, tail |-> <<>>]
                /\ \A k \in 1..Pieces(Len(text)) : u[k] = Advanced(terms, u[k - 1], Chunks(text)[k])
                /\ StreamScore(terms, text) = u[Pieces(Len(text))].score
<1> DEFINE n == Len(Chunks(text))
           base == [score |-> 0, tail |-> <<>>]
           G == [i \in 1..n |-> [c \in Scores |-> Advanced(terms, c, Chunks(text)[i])]]
           after == CHOOSE g : g = [k \in 0..n |-> IF k = 0 THEN [score |-> 0, tail |-> <<>>]
                                                  ELSE Advanced(terms, g[k - 1], Chunks(text)[k])]
<1>1. n = Pieces(Len(text)) /\ n \in Nat /\ \A i \in 1..n : Chunks(text)[i] \in Texts
  <2>1. n = Pieces(Len(text)) /\ n \in Nat /\ Len(text) \in Nat
    BY ChunkIs, TextShape
  <2>2. ASSUME NEW i \in 1..n PROVE Chunks(text)[i] \in Texts
    <3>1. /\ Chunks(text)[i] = SubSeq(text, End(i - 1, Len(text)) + 1, End(i, Len(text)))
          /\ i \in 1..Pieces(Len(text)) /\ i \in 0..Pieces(Len(text)) /\ i - 1 \in 0..Pieces(Len(text))
      BY <2>1, ChunkIs
    <3>2. /\ End(i - 1, Len(text)) \in Nat /\ End(i, Len(text)) \in Nat
          /\ End(i, Len(text)) <= Len(text) /\ End(i - 1, Len(text)) < End(i, Len(text))
      BY <2>1, <3>1, EndFacts
    <3>3. End(i - 1, Len(text)) + 1 \in Nat \ {0} /\ End(i - 1, Len(text)) + 1 <= End(i, Len(text)) + 1
      BY <3>2
    <3> QED BY <3>1, <3>2, <3>3, PieceShape
  <2> QED BY <2>1, <2>2
<1>2. base \in Scores
  BY DEF Scores, Texts
<1>3. StreamScore(terms, text) = after[n].score
  BY DEF StreamScore
<1> HIDE DEF n
<1>4. G \in [1..n -> [Scores -> Scores]]
  BY <1>1, AdvancedTyped
<1>5. PICK f \in [0..n -> Scores] : Chain(f, n, base, G)
  <2> HIDE DEF G, base
  <2> QED BY <1>1, <1>2, <1>4, ChainExists
<1>6. f = [k \in 0..n |-> IF k = 0 THEN [score |-> 0, tail |-> <<>>]
                          ELSE Advanced(terms, f[k - 1], Chunks(text)[k])]
  <2>1. f = [k \in 0..n |-> IF k = 0 THEN base ELSE G[k][f[k - 1]]]
    BY <1>5 DEF Chain
  <2>2. \A k \in 1..n : k - 1 \in 0..n /\ f[k - 1] \in Scores
                        /\ G[k][f[k - 1]] = Advanced(terms, f[k - 1], Chunks(text)[k])
    BY <1>1
  <2>3. ASSUME NEW k \in 0..n
        PROVE  (IF k = 0 THEN base ELSE G[k][f[k - 1]])
                 = IF k = 0 THEN [score |-> 0, tail |-> <<>>]
                   ELSE Advanced(terms, f[k - 1], Chunks(text)[k])
    <3>1. k = 0 \/ k \in 1..n
      BY <1>1
    <3> HIDE DEF G
    <3> QED BY <2>2, <3>1
  <2> HIDE DEF G, base
  <2> QED BY <2>1, <2>3
<1>7. after = [k \in 0..n |-> IF k = 0 THEN [score |-> 0, tail |-> <<>>]
                              ELSE Advanced(terms, after[k - 1], Chunks(text)[k])]
  BY <1>6
<1> HIDE DEF after
<1>8. after[0] = [score |-> 0, tail |-> <<>>]
  BY <1>1, <1>7
<1>9. ASSUME NEW k \in 1..n PROVE after[k] = Advanced(terms, after[k - 1], Chunks(text)[k])
  <2>1. k \in 0..n /\ k # 0
    BY <1>1
  <2>2. after[k] = IF k = 0 THEN [score |-> 0, tail |-> <<>>]
                   ELSE Advanced(terms, after[k - 1], Chunks(text)[k])
    BY <1>7, <2>1
  <2> QED BY <2>1, <2>2
<1> QED BY <1>1, <1>3, <1>8, <1>9

\* The search of a file finds a match exactly if one of the terms occurs in it, for every size of the
\* chunks and wherever they cut it: the end that is kept of each is long enough for every term, and
\* what is counted twice is taken off again (_safe_search).
THEOREM StreamFinds ==
  ASSUME NEW terms, IsFiniteSet(terms), terms \subseteq Terms, NEW text \in Texts
  PROVE  /\ StreamScore(terms, text) \in Nat
         /\ StreamScore(terms, text) > 0 <=> \E t \in terms : Occurs(t, text)
<1> DEFINE n == Len(text)
           K == Pieces(n)
<1>1. n \in Nat /\ K \in Nat
  BY TextShape, PiecesFacts
<1>2. PICK u : /\ u[0] = [score |-> 0, tail |-> <<>>]
               /\ \A k \in 1..K : u[k] = Advanced(terms, u[k - 1], Chunks(text)[k])
               /\ StreamScore(terms, text) = u[K].score
  BY StreamIs
<1> DEFINE Right(k) == Searched(u[k], terms, text, End(k, n))
           F == {k \in Nat : k <= K /\ ~Right(k)}
<1>3. F = {}
  <2> SUFFICES ASSUME F # {} PROVE FALSE
    OBVIOUS
  <2>1. PICK k \in F : \A j \in F : k <= j
    BY LeastNumber
  <2>2. k \in Nat /\ k <= K /\ ~Right(k)
    BY <2>1
  <2>3. k # 0
    <3>1. End(0, n) = 0
      BY <1>1, EndFacts
    <3>2. <<>> = SubSeq(text, 1, 0)
      OBVIOUS
    <3>3. Kept(<<>>, text, 0, Overlap(terms))
      BY <3>2 DEF Kept
    <3>4. ~By(terms, text, 0)
      <4>1. ASSUME NEW t \in terms, NEW h \in 1..Len(text), h + Len(t) - 1 <= 0 PROVE FALSE
        <5>1. Len(t) \in Nat \ {0} /\ h \in Nat \ {0}
          BY TermShape, <1>1
        <5> QED BY <4>1, <5>1
      <4> QED BY <4>1 DEF By
    <3>5. Right(0)
      BY <1>2, <3>1, <3>3, <3>4 DEF Searched
    <3> QED BY <2>2, <3>5
  <2>4. k - 1 \in Nat /\ k - 1 <= K /\ k - 1 \in 0..K /\ k \in 0..K /\ k \in 1..K
    BY <1>1, <2>2, <2>3
  <2>5. Right(k - 1)
    BY <2>1, <2>4
  <2> DEFINE e == End(k - 1, n)
             c == End(k, n)
  <2>6. e \in Nat /\ c \in Nat /\ e < c /\ c <= n
    BY <1>1, <2>4, EndFacts
  <2>7. u[k] = Advanced(terms, u[k - 1], SubSeq(text, e + 1, c))
    BY <1>2, <2>4, ChunkIs
  <2> HIDE DEF e, c
  <2>8. Searched(u[k], terms, text, c)
    BY <2>5, <2>6, <2>7, AdvancedSearched DEF e
  <2> QED BY <2>2, <2>8 DEF c
<1>4. Searched(u[K], terms, text, n)
  <2>1. End(K, n) = n
    BY <1>1, EndFacts
  <2> QED BY <1>1, <1>3, <2>1
<1> QED BY <1>2, <1>4, ByEnd DEF Searched

-----------------------------------------------------------------------------
(***************************************************************************)
(* A search of all files, and the plan that follows.                       *)
(***************************************************************************)
LEMMA QueryShape ==
  ASSUME NEW terms \in Queries
  PROVE  IsFiniteSet(terms) /\ terms \subseteq Terms
BY PreparationAssumption DEF Terms, Texts

LEMMA PathShape ==
  /\ Paths \in Seq(ToSet(Paths)) /\ DOMAIN Paths \subseteq Int /\ IsFiniteSet(DOMAIN Paths)
  /\ IsFiniteSet(ToSet(Paths)) /\ \A p \in ToSet(Paths) : PathText[p] \in Texts
<1>1. Paths \in Seq(DOMAIN PathText) /\ PathText \in [ToSet(Paths) -> Seq(Letters)]
  BY PathAssumption
<1>2. DOMAIN Paths = 1..Len(Paths) /\ Len(Paths) \in Nat
  BY <1>1
<1>3. \A n \in Nat : IsFiniteSet(1..n)
  BY FS_Interval
<1>4. IsFiniteSet(DOMAIN Paths)
  BY <1>2, <1>3
<1>5. Paths \in Surjection(DOMAIN Paths, ToSet(Paths))
  BY <1>1 DEF Surjection, ToSet
<1>6. IsFiniteSet(ToSet(Paths))
  BY <1>4, <1>5, FS_Surjection
<1>7. Paths \in Seq(ToSet(Paths))
  BY <1>1, <1>2 DEF ToSet
<1> QED BY <1>1, <1>2, <1>4, <1>6, <1>7 DEF Texts

\* What the search of one file finds.
Hit(terms, p, at) ==
  at.kind = "text" /\ \E t \in terms : Occurs(t, PathText[p]) \/ Occurs(t, at.body)

LEMMA ScoreFinds ==
  ASSUME NEW terms \in Queries, NEW p \in ToSet(Paths), NEW at \in Found
  PROVE  /\ SearchScore(terms, p, at) \in Nat
         /\ SearchScore(terms, p, at) > 0 <=> Hit(terms, p, at)
<1>1. PathText[p] \in Texts /\ at.body \in Texts
  BY PathShape, PreparationAssumption DEF Texts
<1> DEFINE c == CountAll(terms, PathText[p])
           d == StreamScore(terms, at.body)
<1>2. c \in Nat /\ (c > 0 <=> \E t \in terms : Occurs(t, PathText[p]))
  BY <1>1, QueryShape, CountAllFinds
<1>3. d \in Nat /\ (d > 0 <=> \E t \in terms : Occurs(t, at.body))
  BY <1>1, QueryShape, StreamFinds
<1>4. SearchScore(terms, p, at) = IF at.kind = "text" THEN 5 * c + d ELSE 0
  BY DEF SearchScore, PathScore
<1> HIDE DEF c, d
<1>5. 5 * c + d \in Nat /\ (5 * c + d > 0 <=> c > 0 \/ d > 0)
  BY <1>2, <1>3
<1> QED BY <1>2, <1>3, <1>4, <1>5 DEF Hit

Readable(profile, f) ==
  {p \in Managed \ Excluded : (profile.full \/ p \in Selected) /\ f[p].kind # "absent"}

LEMMA DiscoveredIs ==
  ASSUME NEW profile, NEW f
  PROVE  /\ Discovered(profile, f) \in Seq(ToSet(Paths))
         /\ ToSet(Discovered(profile, f)) = Readable(profile, f)
<1> DEFINE ToRead(p) == /\ p \in Managed \ Excluded /\ (profile.full \/ p \in Selected)
                        /\ f[p].kind # "absent"
           D == {i \in DOMAIN Paths : ToRead(Paths[i])}
           order == CHOOSE e \in [1..Cardinality(D) -> D] :
                      \A i, j \in 1..Cardinality(D) : i < j => e[i] < e[j]
           id == [i \in D |-> i]
           n == Cardinality(D)
<1>1. Discovered(profile, f) = [k \in DOMAIN order |-> Paths[order[k]]]
  BY DEF Discovered, Ordered
<1>2. D \subseteq DOMAIN Paths /\ \A p : p \in Readable(profile, f) <=> \E i \in D : Paths[i] = p
  BY PathAssumption DEF Readable, ToSet
<1> HIDE DEF D
<1>3. IsFiniteSet(D) /\ n \in Nat /\ \A d \in D : d \in Int
  BY <1>2, PathShape, FS_Subset, FS_CardinalityType
<1>4. PICK e : SortedBy(e, D, id, id)
  <2>1. id \in [D -> Int] /\ \A a, b \in D : id[a] = id[b] => a = b
    BY <1>3
  <2> HIDE DEF id
  <2> QED BY <1>3, <2>1, KeyOrderExists
<1>5. e \in [1..n -> D] /\ \A i, j \in 1..n : i < j => e[i] < e[j]
  BY <1>3, <1>4 DEF SortedBy
<1>6. order \in [1..n -> D] /\ \A i, j \in 1..n : i < j => order[i] < order[j]
  BY <1>5
<1> HIDE DEF order
<1>7. \A i \in D : \E k \in 1..n : order[k] = i
  <2> DEFINE R == ByKey(D, id, id)
  <2>1. TotalOrder(D, R)
    BY <1>3, ByKeyTotal
  <2>2. \A a, b \in D : a < b => <<a, b>> \in R
    BY <1>3 DEF ByKey
  <2> HIDE DEF R
  <2>3. Arranges(order, D, n, R)
    BY <1>6, <2>2 DEF Arranges
  <2> QED BY <1>3, <2>1, <2>3, ArrangedOnce
<1> HIDE DEF n
<1>8. \A k \in 1..n : Paths[order[k]] \in ToSet(Paths)
  BY <1>2, <1>6 DEF ToSet
<1>9. Discovered(profile, f) = [k \in 1..n |-> Paths[order[k]]]
  BY <1>1, <1>6
<1>10. Discovered(profile, f) \in Seq(ToSet(Paths))
  BY <1>3, <1>8, <1>9
<1>11. \A p : p \in ToSet(Discovered(profile, f)) <=> \E k \in 1..n : Paths[order[k]] = p
  BY <1>9 DEF ToSet
<1>12. \A p : p \in ToSet(Discovered(profile, f)) <=> p \in Readable(profile, f)
  BY <1>2, <1>6, <1>7, <1>11
<1> QED BY <1>10, <1>12

\* Enough of what matches: all of it, or more than one.
Enough(B, M) == B \subseteq M /\ (B = M \/ \E p, q \in B : p # q)

\* Of the files with a match, those that are read in detail are all, or more than one: the limit may
\* hide files from a plan, and not that there are several.
THEOREM BestIsEnough ==
  ASSUME NEW D \in SUBSET ToSet(Paths), NEW hits \in [D -> Int]
  PROVE  Best(hits) \in Seq(ToSet(Paths)) /\ Enough(ToSet(Best(hits)), D)
<1> DEFINE rank(p) == CHOOSE i \in DOMAIN Paths : Paths[i] = p
           better(p, q) == \/ hits[p] > hits[q]
                           \/ hits[p] = hits[q] /\ rank(p) < rank(q)
           n == Cardinality(D)
           order == CHOOSE e \in [1..n -> D] : \A i, j \in 1..n : i < j => better(e[i], e[j])
           low == [p \in D |-> 0 - hits[p]]
           place == [p \in D |-> rank(p)]
           m == Min({DetailLimit, Len(order)})
<1>0. DOMAIN hits = D
  OBVIOUS
<1>1. Best(hits) = SubSeq(order, 1, m)
  BY <1>0 DEF Best, Ordered
<1>2. IsFiniteSet(D) /\ n \in Nat
  BY PathShape, FS_Subset, FS_CardinalityType
<1>3. ASSUME NEW p \in D PROVE rank(p) \in DOMAIN Paths /\ rank(p) \in Int /\ Paths[rank(p)] = p
  <2>1. \E i \in DOMAIN Paths : Paths[i] = p
    BY DEF ToSet
  <2>2. rank(p) \in DOMAIN Paths /\ Paths[rank(p)] = p
    BY <2>1
  <2> QED BY <2>2, PathShape
<1> HIDE DEF rank
<1>4. low \in [D -> Int] /\ place \in [D -> Int] /\ \A p, q \in D : place[p] = place[q] => p = q
  BY <1>3
<1>5. \A p, q \in D : better(p, q) <=> low[p] < low[q] \/ (low[p] = low[q] /\ place[p] < place[q])
  BY <1>3
<1> HIDE DEF low, place, better
<1>6. PICK e : SortedBy(e, D, low, place)
  BY <1>2, <1>4, KeyOrderExists
<1>7. e \in [1..n -> D] /\ \A i, j \in 1..n : i < j => better(e[i], e[j])
  BY <1>5, <1>6 DEF SortedBy
<1>8. order \in [1..n -> D] /\ \A i, j \in 1..n : i < j => better(order[i], order[j])
  BY <1>7
<1> HIDE DEF order
<1>9. IsInjective(order) /\ \A p \in D : \E i \in 1..n : order[i] = p
  <2> DEFINE R == ByKey(D, low, place)
  <2>1. TotalOrder(D, R)
    BY <1>4, ByKeyTotal
  <2>2. \A p, q \in D : better(p, q) => <<p, q>> \in R
    BY <1>5 DEF ByKey
  <2> HIDE DEF R
  <2>3. Arranges(order, D, n, R)
    BY <1>8, <2>2 DEF Arranges
  <2> QED BY <1>2, <2>1, <2>3, ArrangedOnce
<1> HIDE DEF n
<1>10. order \in Seq(D) /\ Len(order) = n
  BY <1>2, <1>8
<1>11. m = IF DetailLimit <= n THEN DetailLimit ELSE n
  BY <1>2, <1>10, LimitAssumption, MinOfTwo
<1>12. m \in Nat /\ m <= n /\ (m = n \/ m >= 2)
  BY <1>2, <1>11, LimitAssumption
<1> HIDE DEF m
<1> DEFINE b == SubSeq(order, 1, m)
<1>13. b \in Seq(D) /\ Len(b) = m /\ \A i \in 1..m : b[i] = order[i]
  BY <1>10, <1>12
<1> HIDE DEF b
<1>14. DOMAIN b = 1..m
  BY <1>12, <1>13
<1>15. b \in Seq(ToSet(Paths)) /\ ToSet(b) \subseteq D
  <2>1. \A i \in 1..m : b[i] \in D
    BY <1>13
  <2> QED BY <1>13, <1>14, <2>1 DEF ToSet
<1>16. CASE m = n
  <2>1. \A p \in D : p \in ToSet(b)
    BY <1>9, <1>13, <1>14, <1>16 DEF ToSet
  <2> QED BY <1>1, <1>15, <2>1 DEF Enough, b
<1>17. CASE m >= 2
  <2>1. 1 \in 1..m /\ 2 \in 1..m /\ 1 \in DOMAIN order /\ 2 \in DOMAIN order
    BY <1>2, <1>8, <1>12, <1>17
  <2>2. order[1] # order[2]
    BY <1>9, <2>1 DEF IsInjective
  <2>3. b[1] \in ToSet(b) /\ b[2] \in ToSet(b) /\ b[1] # b[2]
    BY <1>13, <1>14, <2>1, <2>2 DEF ToSet
  <2> QED BY <1>1, <1>15, <2>3 DEF Enough, b
<1> QED BY <1>12, <1>16, <1>17

\* A plan is ready if one file was found and all schemas were read.
LEMMA PlanReady ==
  ASSUME NEW profile, NEW terms, NEW B, NEW at
  PROVE  Plan(profile, terms, B, at).state = "ready" <=>
           /\ B # {} /\ ~(Cardinality(B) > 1)
           /\ \A d \in profile.databases : at[d] = "readable"
           /\ terms \cap DatabaseTerms # {} => profile.databases # {}
<1> DEFINE missing == MissingInformation(profile, terms, B, at)
           bad == {d \in profile.databases : at[d] # "readable"}
<1>1. Plan(profile, terms, B, at).state = "ready" <=> missing = {}
  BY DEF Plan
<1>2. SchemasMissing(profile, at) = {} <=> bad = {}
  BY DEF SchemasMissing
<1>3. bad = {} <=> \A d \in profile.databases : at[d] = "readable"
  OBVIOUS
<1>4. missing = {} <=> /\ B # {} /\ ~(Cardinality(B) > 1) /\ SchemasMissing(profile, at) = {}
                       /\ ~(terms \cap DatabaseTerms # {} /\ profile.databases = {})
  BY DEF MissingInformation
<1> QED BY <1>1, <1>2, <1>3, <1>4

\* It is as good as a plan for everything that matches.
LEMMA EnoughForAll ==
  ASSUME NEW M, IsFiniteSet(M), NEW B, Enough(B, M)
  PROVE  (B # {} /\ ~(Cardinality(B) > 1)) <=> Cardinality(M) = 1
<1>1. B \subseteq M /\ IsFiniteSet(B) /\ Cardinality(B) \in Nat /\ Cardinality(M) \in Nat
      /\ Cardinality(B) <= Cardinality(M)
  BY FS_Subset, FS_CardinalityType DEF Enough
<1>2. Cardinality(B) = 0 <=> B = {}
  BY <1>1, FS_EmptySet
<1>3. CASE B = M
  BY <1>1, <1>2, <1>3
<1>4. CASE \E p, q \in B : p # q
  <2>1. Cardinality(B) # 1
    <3>1. ASSUME NEW x, B = {x} PROVE FALSE
      BY <1>4, <3>1
    <3> QED BY <1>1, <3>1, FS_Singleton
  <2>2. Cardinality(B) > 1
    BY <1>1, <1>2, <1>4, <2>1
  <2> QED BY <1>1, <2>2
<1> QED BY <1>3, <1>4 DEF Enough

-----------------------------------------------------------------------------
(***************************************************************************)
(* What the processes have at each of their stages.                        *)
(***************************************************************************)
\* A process that runs a recipe has what the recipe makes of the attachment.
TableRight(w, s) ==
  w.job = "table" =>
    /\ w.pc \in {"rows", "create", "fill", "verify"} \cup Ended
    /\ w.pc \notin {"failed", "dead"} => w.recipe \in Recipes /\ ValidTablePlan(w.recipe)
    /\ w.pc \in {"create", "fill", "verify", "done"} /\ ~w.edited =>
         Applied(w.recipe, s).ok /\ w.result = Applied(w.recipe, s).rows
    /\ w.pc = "verify" => w.place # Absent
    /\ w.pc = "done" /\ ~w.edited => (w.verdict = "passed" <=> Verified(w.recipe, w.result, s))

\* An analysis has what matches of the files it has been through.
Analyses == {"analysis", "prepare"}
Matched(profile, terms, f) == {p \in Readable(profile, f) : Hit(terms, p, f[p])}
Stage(w) ==
  /\ w.pc \in {"digest", "discover", "search", "detail", "create", "fill", "verify"} \cup Ended
  /\ w.pc \in {"failed", "dead"} => w.result = Absent
  /\ w.pc \notin {"failed", "dead"} => w.terms \in Queries
  /\ w.pc \in {"digest", "discover"} => w.hits = <<>>
  /\ w.pc \in {"digest", "discover", "search"} => w.candidates = {}
  /\ w.pc \in {"digest", "discover", "search", "detail"} => w.result = Absent
  /\ w.pc # "done" => w.verdict # "passed"
  /\ w.verdict = "passed" => PlanPasses(w, w.result)
Searching(w, f) ==
  w.pc = "search" =>
    /\ w.todo \in Seq(ToSet(Paths)) /\ w.hits \in [DOMAIN w.hits -> Int]
    /\ ToSet(w.todo) \subseteq Readable(w.profile, f)
    /\ DOMAIN w.hits \subseteq Matched(w.profile, w.terms, f)
    /\ Matched(w.profile, w.terms, f) \subseteq DOMAIN w.hits \cup ToSet(w.todo)
Detailing(w, f) ==
  w.pc = "detail" =>
    /\ w.todo \in Seq(ToSet(Paths))
    /\ Enough(w.candidates \cup ToSet(w.todo), Matched(w.profile, w.terms, f))
Concluded(w, f, b) ==
  w.pc \in {"create", "fill", "verify", "done"} =>
    \E B \in SUBSET ToSet(Paths) :
      Enough(B, Matched(w.profile, w.terms, f)) /\ w.result = Plan(w.profile, w.terms, B, b)
AnalysisRight(w, f, b) ==
  w.job \in Analyses => /\ Stage(w)
                        /\ ~w.edited => Searching(w, f) /\ Detailing(w, f) /\ Concluded(w, f, b)

Right(w, s, f, b) == TableRight(w, s) /\ AnalysisRight(w, f, b)
WorldTyped == sheet \in Sheets /\ found \in [ToSet(Paths) -> Found]
VerdictInv == WorldTyped /\ \A r \in Runs : Right(work[r], sheet, found, bases)

LEMMA MatchedIs ==
  ASSUME NEW profile, NEW terms
  PROVE  Matched(profile, terms, found) = Matching(profile, terms)
<1>1. \A p : p \in Matched(profile, terms, found) <=> p \in Matching(profile, terms)
  BY DEF Matched, Matching, Readable, Hit
<1> QED BY <1>1

-----------------------------------------------------------------------------
\* The other processes are where they were.
Only(r) == \A q \in Runs \ {r} : work'[q] = work[q]

\* A process that goes on, and what it keeps.
Goes(u, w) ==
  /\ u.job = w.job /\ u.recipe = w.recipe /\ u.profile = w.profile /\ u.terms = w.terms
  /\ u.report = w.report /\ u.edited = w.edited

LEMMA Elsewhere ==
  ASSUME AllWorkTyped, NEW r \in Runs, NEW u, work' = [work EXCEPT ![r] = u]
  PROVE  work'[r] = u /\ Only(r)
<1>1. r \in DOMAIN work /\ Runs \subseteq DOMAIN work
  BY DEF AllWorkTyped
<1> QED BY <1>1 DEF Only

LEMMA EndsShape ==
  ASSUME NEW job, NEW at
  PROVE  LET u == [Idle EXCEPT !.job = job, !.pc = at] IN
         u.pc = at /\ u.result = Absent /\ u.verdict = Absent
<1> DEFINE u == [Idle EXCEPT !.job = job, !.pc = at]
<1>1. u = [job |-> job, pc |-> at, recipe |-> Absent, profile |-> Absent, terms |-> {},
           report |-> "none", todo |-> <<>>, hits |-> <<>>, candidates |-> {},
           result |-> Absent, place |-> Absent, verdict |-> Absent, edited |-> FALSE]
  BY IdleShape
<1> HIDE DEF u
<1>2. u.pc = at /\ u.result = Absent /\ u.verdict = Absent
  BY <1>1
<1> QED BY <1>2 DEF u

\* A process that has failed or died has no result.
LEMMA Ends ==
  ASSUME NEW at \in {"failed", "dead"}, NEW u,
         u.pc = at, u.result = Absent, u.verdict = Absent, NEW s, NEW f, NEW b
  PROVE  Right(u, s, f, b)
<1>2. Absent # "passed"
  BY PreparationAssumption
<1>3. TableRight(u, s)
  BY DEF TableRight, Ended
<1>4. Stage(u) /\ Searching(u, f) /\ Detailing(u, f) /\ Concluded(u, f, b)
  BY <1>2 DEF Stage, Searching, Detailing, Concluded, Ended
<1> QED BY <1>3, <1>4 DEF Right, AnalysisRight

LEMMA EndsRight ==
  ASSUME AllWorkTyped, NEW r \in Runs, NEW at \in {"failed", "dead"}, NEW job,
         work' = [work EXCEPT ![r] = [Idle EXCEPT !.job = job, !.pc = at]],
         NEW s, NEW f, NEW b
  PROVE  Right(work'[r], s, f, b) /\ Only(r)
<1> DEFINE u == [Idle EXCEPT !.job = job, !.pc = at]
<1>1. u.pc = at /\ u.result = Absent /\ u.verdict = Absent
  BY EndsShape
<1>2. work' = [work EXCEPT ![r] = u]
  OBVIOUS
<1> HIDE DEF u
<1>3. Right(u, s, f, b)
  BY <1>1, Ends
<1>4. work'[r] = u /\ Only(r)
  BY <1>2, Elsewhere
<1> QED BY <1>3, <1>4

\* No work but that of a recipe, or of an analysis, is spoken of.
LEMMA OtherJob ==
  ASSUME NEW u, u.job \notin {"table", "analysis", "prepare"}, NEW s, NEW f, NEW b
  PROVE  Right(u, s, f, b)
BY DEF Right, TableRight, AnalysisRight, Analyses

LEMMA TableOnly ==
  ASSUME NEW u, u.job = "table", NEW s, NEW f, NEW b, TableRight(u, s)
  PROVE  Right(u, s, f, b)
BY DEF Right, AnalysisRight, Analyses

-----------------------------------------------------------------------------
(***************************************************************************)
(* A recipe.                                                               *)
(***************************************************************************)
LEMMA BeginTableRight ==
  ASSUME AllWorkTyped, NEW r \in Runs, NEW recipe \in Recipes, BeginTable(r, recipe)
  PROVE  Right(work'[r], sheet, found, bases) /\ Only(r)
<1> DEFINE at == IF ValidTablePlan(recipe) THEN "rows" ELSE "failed"
<1>1. WorkTyped(work[r]) /\ work' = [work EXCEPT ![r].job = "table", ![r].recipe = recipe, ![r].pc = at]
  BY DEF AllWorkTyped, BeginTable
<1>2. at = "failed" \/ (at = "rows" /\ ValidTablePlan(recipe))
  OBVIOUS
<1> HIDE DEF at
<1>3. PICK u : u = [work[r] EXCEPT !.job = "table", !.recipe = recipe, !.pc = at]
  OBVIOUS
<1>4. u.job = "table" /\ u.recipe = recipe /\ u.pc = at
  BY <1>1, <1>3 DEF WorkTyped
<1>5. work' = [work EXCEPT ![r] = u]
  BY <1>1, <1>3 DEF AllWorkTyped
<1>6. TableRight(u, sheet)
  BY <1>2, <1>4 DEF TableRight, Ended
<1> QED BY <1>4, <1>5, <1>6, Elsewhere, TableOnly

LEMMA ReadRowsRight ==
  ASSUME AllWorkTyped, NEW r \in Runs, Right(work[r], sheet, found, bases), ReadRows(r)
  PROVE  Right(work'[r], sheet, found, bases) /\ Only(r)
<1> DEFINE w == work[r]
           rows == Applied(w.recipe, sheet)
           at == IF rows.ok THEN "create" ELSE "failed"
           x == IF rows.ok THEN rows.rows ELSE Absent
<1>1. WorkTyped(w) /\ w.pc = "rows" /\ work' = [work EXCEPT ![r].pc = at, ![r].result = x]
  BY DEF AllWorkTyped, ReadRows, Stands
<1>2. at = "failed" \/ (at = "create" /\ rows.ok /\ x = rows.rows)
  OBVIOUS
<1> HIDE DEF at, x, rows
<1>3. PICK u : u = [w EXCEPT !.pc = at, !.result = x]
  OBVIOUS
<1>4. Goes(u, w) /\ u.pc = at /\ u.result = x
  BY <1>1, <1>3 DEF WorkTyped, Goes
<1>5. work' = [work EXCEPT ![r] = u]
  BY <1>1, <1>3 DEF AllWorkTyped
<1>6. ~(w.job \in Analyses) /\ ~(u.job \in Analyses)
  BY <1>1, <1>4 DEF Right, AnalysisRight, Stage, Ended, Goes
<1>7. CASE w.job = "table"
  <2>1. w.recipe \in Recipes /\ ValidTablePlan(w.recipe)
    BY <1>1, <1>7 DEF Right, TableRight
  <2>2. TableRight(u, sheet)
    BY <1>2, <1>4, <2>1 DEF TableRight, Ended, Goes, rows
  <2> QED BY <1>4, <1>5, <1>7, <2>2, Elsewhere, TableOnly DEF Goes
<1>8. CASE w.job # "table"
  <2>1. u.job \notin {"table", "analysis", "prepare"}
    BY <1>4, <1>6, <1>8 DEF Goes, Analyses
  <2>2. Right(u, sheet, found, bases)
    BY <2>1, OtherJob
  <2> QED BY <1>5, <2>2, Elsewhere
<1> QED BY <1>7, <1>8

\* An artifact or a report gets its place, and what the process has.
LEMMA CreateOutputRight ==
  ASSUME AllWorkTyped, NEW r \in Runs, Right(work[r], sheet, found, bases), CreateOutput(r)
  PROVE  Right(work'[r], sheet, found, bases) /\ Only(r)
<1>1. WorkTyped(work[r]) /\ work[r].pc = "create"
  BY DEF AllWorkTyped, CreateOutput, Stands
<1>2. CASE Fail(r)
  BY <1>2, EndsRight DEF Fail
<1>3. ASSUME NEW place, work' = [work EXCEPT ![r].pc = "fill", ![r].place = place]
      PROVE  Right(work'[r], sheet, found, bases) /\ Only(r)
  <2> DEFINE w == work[r]
  <2>1. PICK u : u = [w EXCEPT !.pc = "fill", !.place = place]
    OBVIOUS
  <2>2. /\ Goes(u, w) /\ u.pc = "fill" /\ u.result = w.result /\ u.verdict = w.verdict
    BY <1>1, <2>1 DEF WorkTyped, Goes
  <2>3. work' = [work EXCEPT ![r] = u]
    BY <1>3, <2>1 DEF AllWorkTyped
  <2>4. TableRight(u, sheet)
    BY <1>1, <2>2 DEF Right, TableRight, Goes, Ended
  <2>5. AnalysisRight(u, found, bases)
    <3> SUFFICES ASSUME u.job \in Analyses PROVE AnalysisRight(u, found, bases)
      BY DEF AnalysisRight
    <3>1. Stage(w) /\ (~w.edited => Concluded(w, found, bases))
      BY <2>2 DEF Right, AnalysisRight, Goes
    <3>2. Stage(u)
      BY <1>1, <2>2, <3>1 DEF Stage, Goes, Ended
    <3>3. ~u.edited => Concluded(u, found, bases)
      BY <1>1, <2>2, <3>1 DEF Concluded, Goes
    <3>4. Searching(u, found) /\ Detailing(u, found)
      BY <2>2 DEF Searching, Detailing
    <3> QED BY <3>2, <3>3, <3>4 DEF AnalysisRight
  <2> QED BY <2>3, <2>4, <2>5, Elsewhere DEF Right
<1>4. Fail(r) \/ \E place : work' = [work EXCEPT ![r].pc = "fill", ![r].place = place]
  BY DEF CreateOutput
<1> QED BY <1>2, <1>3, <1>4

LEMMA FillOutputRight ==
  ASSUME AllWorkTyped, NEW r \in Runs, OwnFile(r), Right(work[r], sheet, found, bases), FillOutput(r)
  PROVE  Right(work'[r], sheet, found, bases) /\ Only(r)
<1> DEFINE w == work[r]
           at == IF w.job = "prepare" THEN "done" ELSE "verify"
<1>1. WorkTyped(w) /\ w.pc = "fill" /\ w.job # "register" /\ work' = [work EXCEPT ![r].pc = at]
  BY DEF AllWorkTyped, FillOutput, Stands
<1>2. w.place # Absent
  BY <1>1 DEF OwnFile
<1>3. /\ w.job = "prepare" => at = "done"
      /\ w.job # "prepare" => at = "verify"
  OBVIOUS
<1> HIDE DEF at
<1>4. PICK u : u = [w EXCEPT !.pc = at]
  OBVIOUS
<1>5. Goes(u, w) /\ u.pc = at /\ u.result = w.result /\ u.verdict = w.verdict /\ u.place = w.place
  BY <1>1, <1>4 DEF WorkTyped, Goes
<1>6. work' = [work EXCEPT ![r] = u]
  BY <1>1, <1>4 DEF AllWorkTyped
<1>7. TableRight(u, sheet)
  <2> SUFFICES ASSUME u.job = "table" PROVE TableRight(u, sheet)
    BY DEF TableRight
  <2>1. TableRight(w, sheet) /\ w.job = "table" /\ u.pc = "verify"
    BY <1>3, <1>5 DEF Right, Goes
  <2> QED BY <1>1, <1>2, <1>5, <2>1 DEF TableRight, Goes
<1>8. AnalysisRight(u, found, bases)
  <2> SUFFICES ASSUME u.job \in Analyses PROVE AnalysisRight(u, found, bases)
    BY DEF AnalysisRight
  <2>1. Stage(w) /\ (~w.edited => Concluded(w, found, bases))
    BY <1>5 DEF Right, AnalysisRight, Goes
  <2>2. u.pc \in {"verify", "done"}
    BY <1>3, <1>5
  <2>3. Stage(u)
    BY <1>1, <1>5, <2>1, <2>2 DEF Stage, Goes, Ended
  <2>4. ~u.edited => Concluded(u, found, bases)
    BY <1>1, <1>5, <2>1 DEF Concluded, Goes
  <2>5. Searching(u, found) /\ Detailing(u, found)
    BY <2>2 DEF Searching, Detailing
  <2> QED BY <2>3, <2>4, <2>5 DEF AnalysisRight
<1> QED BY <1>6, <1>7, <1>8, Elsewhere DEF Right

LEMMA VerifyRight ==
  ASSUME AllWorkTyped, NEW r \in Runs, OwnFile(r), Right(work[r], sheet, found, bases), Verify(r)
  PROVE  Right(work'[r], sheet, found, bases) /\ Only(r)
<1> DEFINE w == work[r]
           held == IF w.place = Absent THEN w.result ELSE outputs[w.place].value
           passed == IF w.job = "table" THEN Verified(w.recipe, held, sheet)
                     ELSE PlanPasses(w, held)
           v == IF passed THEN "passed" ELSE "failed"
<1>1. WorkTyped(w) /\ w.pc = "verify" /\ work' = [work EXCEPT ![r].pc = "done", ![r].verdict = v]
  BY DEF AllWorkTyped, Verify, Stands
<1>2. held = w.result
  <2>1. CASE w.place = Absent
    BY <2>1
  <2>2. CASE w.place # Absent
    <3>1. outputs[w.place] = [value |-> w.result, state |-> "whole"]
      BY <1>1, <2>2 DEF OwnFile
    <3>2. outputs[w.place].value = w.result
      BY <3>1
    <3> QED BY <2>2, <3>2
  <2> QED BY <2>1, <2>2
<1> HIDE DEF held
<1>3. /\ w.job = "table" => (v = "passed" <=> Verified(w.recipe, w.result, sheet))
      /\ w.job # "table" => (v = "passed" <=> PlanPasses(w, w.result))
  BY <1>2
<1> HIDE DEF v
<1>4. PICK u : u = [w EXCEPT !.pc = "done", !.verdict = v]
  OBVIOUS
<1>5. Goes(u, w) /\ u.pc = "done" /\ u.result = w.result /\ u.verdict = v
  BY <1>1, <1>4 DEF WorkTyped, Goes
<1>6. work' = [work EXCEPT ![r] = u]
  BY <1>1, <1>4 DEF AllWorkTyped
<1>7. TableRight(u, sheet)
  <2> SUFFICES ASSUME u.job = "table" PROVE TableRight(u, sheet)
    BY DEF TableRight
  <2>1. TableRight(w, sheet) /\ w.job = "table"
    BY <1>5 DEF Right, Goes
  <2> QED BY <1>1, <1>3, <1>5, <2>1 DEF TableRight, Goes, Ended
<1>8. AnalysisRight(u, found, bases)
  <2> SUFFICES ASSUME u.job \in Analyses PROVE AnalysisRight(u, found, bases)
    BY DEF AnalysisRight
  <2>1. Stage(w) /\ (~w.edited => Concluded(w, found, bases)) /\ w.job # "table"
    BY <1>5 DEF Right, AnalysisRight, Goes, Analyses
  <2>2. Stage(u)
    <3>1. PlanPasses(u, u.result) <=> PlanPasses(w, w.result)
      BY <1>5 DEF PlanPasses, Goes
    <3> QED BY <1>1, <1>3, <1>5, <2>1, <3>1 DEF Stage, Goes, Ended
  <2>3. ~u.edited => Concluded(u, found, bases)
    BY <1>1, <1>5, <2>1 DEF Concluded, Goes
  <2>4. Searching(u, found) /\ Detailing(u, found)
    BY <1>5 DEF Searching, Detailing
  <2> QED BY <2>2, <2>3, <2>4 DEF AnalysisRight
<1> QED BY <1>6, <1>7, <1>8, Elsewhere DEF Right

-----------------------------------------------------------------------------
(***************************************************************************)
(* An analysis.                                                            *)
(***************************************************************************)
Looking == {"digest", "discover", "search", "detail"}

LEMMA LooksOnly ==
  ASSUME NEW w, w.pc \in Looking, NEW s, NEW f, NEW b, Right(w, s, f, b)
  PROVE  w.job # "table"
BY DEF Right, TableRight, Looking, Ended

LEMMA AnalysedRight ==
  ASSUME AllWorkTyped, NEW r \in Runs, NEW u, work' = [work EXCEPT ![r] = u],
         NEW s, NEW f, NEW b, u.job # "table", AnalysisRight(u, f, b)
  PROVE  Right(work'[r], s, f, b) /\ Only(r)
<1>1. Right(u, s, f, b)
  BY DEF Right, TableRight
<1>2. work'[r] = u /\ Only(r)
  BY Elsewhere
<1> QED BY <1>1, <1>2

LEMMA BegunShape ==
  ASSUME NEW job, NEW terms, NEW report, NEW profile, NEW at, NEW u,
         u = [Idle EXCEPT !.job = job, !.terms = terms, !.report = report,
                          !.profile = profile, !.pc = at]
  PROVE  u = [job |-> job, pc |-> at, recipe |-> Absent, profile |-> profile,
              terms |-> terms, report |-> report, todo |-> <<>>, hits |-> <<>>,
              candidates |-> {}, result |-> Absent, place |-> Absent, verdict |-> Absent,
              edited |-> FALSE]
BY DEF Idle

LEMMA BeginCodeRight ==
  ASSUME AllWorkTyped, NEW r \in Runs, NEW job, NEW terms \in Queries, NEW report,
         BeginCode(r, job, terms, report)
  PROVE  Right(work'[r], sheet, found, bases) /\ Only(r)
<1> DEFINE at == IF job = "analysis" THEN "digest" ELSE "discover"
           begun == [Idle EXCEPT !.job = job, !.terms = terms, !.report = report,
                                 !.profile = registered.profile, !.pc = at]
<1>1. job \in Analyses /\ at \in {"digest", "discover"}
  BY DEF BeginCode, Analyses
<1> HIDE DEF at
<1>2. CASE work' = [work EXCEPT ![r] = [Idle EXCEPT !.job = job, !.pc = "failed"]]
  BY <1>2, EndsRight
<1>3. ASSUME NEW u, u = begun, work' = [work EXCEPT ![r] = u]
      PROVE  Right(work'[r], sheet, found, bases) /\ Only(r)
  <2> DEFINE profile == registered.profile
  <2> HIDE DEF profile
  <2>1. u = [job |-> job, pc |-> at, recipe |-> Absent, profile |-> profile,
             terms |-> terms, report |-> report, todo |-> <<>>, hits |-> <<>>,
             candidates |-> {}, result |-> Absent, place |-> Absent, verdict |-> Absent,
             edited |-> FALSE]
    <3>1. u = [Idle EXCEPT !.job = job, !.terms = terms, !.report = report,
                           !.profile = profile, !.pc = at]
      BY <1>3 DEF profile
    <3> QED BY <3>1, BegunShape
  <2>2. work' = [work EXCEPT ![r] = u]
    BY <1>3
  <2>3. /\ u.job = job /\ u.pc = at /\ u.terms = terms /\ u.hits = <<>> /\ u.candidates = {}
        /\ u.result = Absent /\ u.verdict = Absent
    BY <2>1
  <2>4. Absent # "passed"
    BY PreparationAssumption
  <2>5. Stage(u) /\ Searching(u, found) /\ Detailing(u, found) /\ Concluded(u, found, bases)
    BY <1>1, <2>3, <2>4 DEF Stage, Searching, Detailing, Concluded
  <2>6. u.job # "table"
    BY <1>1, <2>3 DEF Analyses
  <2> QED BY <2>2, <2>5, <2>6, AnalysedRight DEF AnalysisRight
<1>4. \/ work' = [work EXCEPT ![r] = [Idle EXCEPT !.job = job, !.pc = "failed"]]
      \/ work' = [work EXCEPT ![r] = begun]
  BY DEF BeginCode, at
<1> HIDE DEF begun
<1> QED BY <1>2, <1>3, <1>4

\* A process that only goes on to the next stage.
LEMMA DigestRight ==
  ASSUME AllWorkTyped, NEW r \in Runs, Right(work[r], sheet, found, bases), Digest(r)
  PROVE  Right(work'[r], sheet, found, bases) /\ Only(r)
<1> DEFINE w == work[r]
<1>1. WorkTyped(w) /\ w.pc = "digest"
  BY DEF AllWorkTyped, Digest, Stands
<1>2. CASE Fail(r)
  BY <1>2, EndsRight DEF Fail
<1>3. CASE work' = [work EXCEPT ![r].pc = "discover"]
  <2>1. PICK u : u = [w EXCEPT !.pc = "discover"]
    OBVIOUS
  <2>2. /\ Goes(u, w) /\ u.pc = "discover" /\ u.result = w.result /\ u.verdict = w.verdict
        /\ u.hits = w.hits /\ u.candidates = w.candidates
    BY <1>1, <2>1 DEF WorkTyped, Goes
  <2>3. work' = [work EXCEPT ![r] = u]
    BY <1>3, <2>1 DEF AllWorkTyped
  <2>4. u.job # "table"
    BY <1>1, <2>2, LooksOnly DEF Looking, Goes
  <2>5. AnalysisRight(u, found, bases)
    <3> SUFFICES ASSUME u.job \in Analyses PROVE AnalysisRight(u, found, bases)
      BY DEF AnalysisRight
    <3>1. Stage(w)
      BY <2>2 DEF Right, AnalysisRight, Goes
    <3>2. Stage(u)
      BY <1>1, <2>2, <3>1 DEF Stage, Goes, Ended
    <3>3. Searching(u, found) /\ Detailing(u, found) /\ Concluded(u, found, bases)
      BY <2>2 DEF Searching, Detailing, Concluded
    <3> QED BY <3>2, <3>3 DEF AnalysisRight
  <2> QED BY <2>3, <2>4, <2>5, AnalysedRight
<1> QED BY <1>2, <1>3 DEF Digest

LEMMA DiscoverRight ==
  ASSUME AllWorkTyped, NEW r \in Runs, Right(work[r], sheet, found, bases), Discover(r)
  PROVE  Right(work'[r], sheet, found, bases) /\ Only(r)
<1> DEFINE w == work[r]
           paths == Discovered(w.profile, found)
<1>1. WorkTyped(w) /\ w.pc = "discover"
  BY DEF AllWorkTyped, Discover, Stands
<1>2. paths \in Seq(ToSet(Paths)) /\ ToSet(paths) = Readable(w.profile, found)
  BY DiscoveredIs
<1>3. CASE Fail(r)
  BY <1>3, EndsRight DEF Fail
<1>4. Fail(r) \/ work' = [work EXCEPT ![r].pc = "search", ![r].todo = paths]
  BY DEF Discover
<1> HIDE DEF paths
<1>5. CASE work' = [work EXCEPT ![r].pc = "search", ![r].todo = paths]
  <2>1. PICK u : u = [w EXCEPT !.pc = "search", !.todo = paths]
    OBVIOUS
  <2>2. /\ Goes(u, w) /\ u.pc = "search" /\ u.result = w.result /\ u.verdict = w.verdict
        /\ u.hits = w.hits /\ u.candidates = w.candidates /\ u.todo = paths
    BY <1>1, <2>1 DEF WorkTyped, Goes
  <2>3. work' = [work EXCEPT ![r] = u]
    BY <1>5, <2>1 DEF AllWorkTyped
  <2>4. u.job # "table"
    BY <1>1, <2>2, LooksOnly DEF Looking, Goes
  <2>5. AnalysisRight(u, found, bases)
    <3> SUFFICES ASSUME u.job \in Analyses PROVE AnalysisRight(u, found, bases)
      BY DEF AnalysisRight
    <3>1. Stage(w)
      BY <2>2 DEF Right, AnalysisRight, Goes
    <3>2. Stage(u)
      BY <1>1, <2>2, <3>1 DEF Stage, Goes, Ended
    <3>3. u.hits = <<>>
      BY <1>1, <2>2, <3>1 DEF Stage
    <3>4. DOMAIN u.hits = {} /\ u.hits \in [DOMAIN u.hits -> Int]
      BY <3>3
    <3>5. Matched(u.profile, u.terms, found) \subseteq Readable(u.profile, found)
      BY DEF Matched
    <3>6. Searching(u, found)
      BY <1>2, <2>2, <3>4, <3>5 DEF Searching, Goes
    <3>7. Detailing(u, found) /\ Concluded(u, found, bases)
      BY <2>2 DEF Detailing, Concluded
    <3> QED BY <3>2, <3>6, <3>7 DEF AnalysisRight
  <2> QED BY <2>3, <2>4, <2>5, AnalysedRight
<1> QED BY <1>3, <1>4, <1>5

\* What is scored stays scored.
LEMMA ScoredFacts ==
  ASSUME NEW hits, hits \in [DOMAIN hits -> Int], NEW p, NEW score \in Int
  PROVE  /\ DOMAIN Scored(hits, p, score) = DOMAIN hits \cup {p}
         /\ Scored(hits, p, score) \in [DOMAIN hits \cup {p} -> Int]
<1>1. \A q \in DOMAIN hits : hits[q] \in Int
  OBVIOUS
<1> QED BY <1>1 DEF Scored

LEMMA HeadTail ==
  ASSUME NEW S, NEW todo \in Seq(S), todo # <<>>
  PROVE  /\ Head(todo) \in S /\ Tail(todo) \in Seq(S)
         /\ ToSet(todo) = {Head(todo)} \cup ToSet(Tail(todo))
<1>1. Head(todo) \in S /\ Tail(todo) \in Seq(S) /\ Len(todo) \in Nat \ {0}
      /\ Len(Tail(todo)) = Len(todo) - 1 /\ Head(todo) = todo[1]
      /\ \A i \in 1..(Len(todo) - 1) : Tail(todo)[i] = todo[i + 1]
  OBVIOUS
<1>2. DOMAIN todo = 1..Len(todo) /\ DOMAIN Tail(todo) = 1..(Len(todo) - 1)
  BY <1>1
<1>3. ASSUME NEW x \in ToSet(todo) PROVE x \in {Head(todo)} \cup ToSet(Tail(todo))
  <2>1. PICK i \in 1..Len(todo) : x = todo[i]
    BY <1>2 DEF ToSet
  <2>2. CASE i = 1
    BY <1>1, <2>1, <2>2
  <2>3. CASE i # 1
    <3>1. i - 1 \in 1..(Len(todo) - 1) /\ (i - 1) + 1 = i
      BY <1>1, <2>3
    <3>2. Tail(todo)[i - 1] = x
      BY <1>1, <2>1, <3>1
    <3> QED BY <1>2, <3>1, <3>2 DEF ToSet
  <2> QED BY <2>2, <2>3
<1>4. ASSUME NEW x \in {Head(todo)} \cup ToSet(Tail(todo)) PROVE x \in ToSet(todo)
  <2>1. CASE x = Head(todo)
    BY <1>1, <1>2, <2>1 DEF ToSet
  <2>2. CASE x \in ToSet(Tail(todo))
    <3>1. PICK i \in 1..(Len(todo) - 1) : x = Tail(todo)[i]
      BY <1>2, <2>2 DEF ToSet
    <3>2. i + 1 \in 1..Len(todo) /\ todo[i + 1] = x
      BY <1>1, <3>1
    <3> QED BY <1>2, <3>2 DEF ToSet
  <2> QED BY <1>4, <2>1, <2>2
<1> QED BY <1>1, <1>3, <1>4

LEMMA SearchRight ==
  ASSUME AllWorkTyped, WorldTyped, NEW r \in Runs,
         Right(work[r], sheet, found, bases), Search(r)
  PROVE  Right(work'[r], sheet, found, bases) /\ Only(r)
<1> DEFINE w == work[r]
           p == Head(w.todo)
           score == SearchScore(w.terms, p, found[p])
           hits == IF score > 0 THEN Scored(w.hits, p, score) ELSE w.hits
<1>1. /\ WorkTyped(w) /\ w.pc = "search" /\ w.todo # <<>>
      /\ work' = [work EXCEPT ![r].todo = Tail(@),
                              ![r].hits = IF score > 0 THEN Scored(@, p, score) ELSE @]
  BY DEF AllWorkTyped, Search, Stands
<1>2. PICK u : u = [w EXCEPT !.todo = Tail(@),
                             !.hits = IF score > 0 THEN Scored(@, p, score) ELSE @]
  OBVIOUS
<1>3. /\ Goes(u, w) /\ u.pc = "search" /\ u.result = w.result /\ u.verdict = w.verdict
      /\ u.candidates = w.candidates /\ u.todo = Tail(w.todo) /\ u.hits = hits
  <2> HIDE DEF score, p
  <2> QED BY <1>1, <1>2 DEF WorkTyped, Goes
<1>4. work' = [work EXCEPT ![r] = u]
  <2> HIDE DEF score, p
  <2> QED BY <1>1, <1>2 DEF AllWorkTyped
<1>5. u.job # "table"
  BY <1>1, <1>3, LooksOnly DEF Looking, Goes
<1>6. AnalysisRight(u, found, bases)
  <2> SUFFICES ASSUME u.job \in Analyses PROVE AnalysisRight(u, found, bases)
    BY DEF AnalysisRight
  <2>1. Stage(w)
    BY <1>3 DEF Right, AnalysisRight, Goes
  <2>2. Stage(u) /\ w.terms \in Queries
    BY <1>1, <1>3, <2>1 DEF Stage, Goes, Ended
  <2>3. Detailing(u, found) /\ Concluded(u, found, bases)
    BY <1>3 DEF Detailing, Concluded
  <2>4. ASSUME ~u.edited PROVE Searching(u, found)
    <3> DEFINE M == Matched(w.profile, w.terms, found)
    <3>1. Searching(w, found)
      BY <1>3, <2>4 DEF Right, AnalysisRight, Goes
    <3>2. /\ w.todo \in Seq(ToSet(Paths)) /\ w.hits \in [DOMAIN w.hits -> Int]
          /\ ToSet(w.todo) \subseteq Readable(w.profile, found)
          /\ DOMAIN w.hits \subseteq M /\ M \subseteq DOMAIN w.hits \cup ToSet(w.todo)
      BY <1>1, <3>1 DEF Searching
    <3>3. /\ p \in ToSet(Paths) /\ Tail(w.todo) \in Seq(ToSet(Paths))
          /\ ToSet(w.todo) = {p} \cup ToSet(Tail(w.todo))
      BY <1>1, <3>2, HeadTail
    <3>4. p \in Readable(w.profile, found) /\ found[p] \in Found
      BY <3>2, <3>3 DEF WorldTyped
    <3>5. score \in Nat /\ (score > 0 <=> Hit(w.terms, p, found[p]))
      BY <2>2, <3>3, <3>4, ScoreFinds
    <3> HIDE DEF score
    <3>6. score > 0 <=> p \in M
      BY <3>4, <3>5 DEF Matched
    <3> HIDE DEF p
    <3>7. /\ hits \in [DOMAIN hits -> Int]
          /\ DOMAIN hits = IF score > 0 THEN DOMAIN w.hits \cup {p} ELSE DOMAIN w.hits
      <4>1. CASE score > 0
      <5>1. hits = Scored(w.hits, p, score) /\ score \in Int
        BY <3>5, <4>1
      <5>2. /\ DOMAIN Scored(w.hits, p, score) = DOMAIN w.hits \cup {p}
            /\ Scored(w.hits, p, score) \in [DOMAIN w.hits \cup {p} -> Int]
        BY <3>2, <5>1, ScoredFacts
      <5> HIDE DEF hits
      <5> QED BY <4>1, <5>1, <5>2
    <4>2. CASE ~(score > 0)
      BY <3>2, <4>2
    <4> QED BY <4>1, <4>2
    <3> HIDE DEF hits, M
    <3>8. DOMAIN hits \subseteq M /\ M \subseteq DOMAIN hits \cup ToSet(Tail(w.todo))
      BY <3>2, <3>3, <3>6, <3>7
    <3>9. ToSet(Tail(w.todo)) \subseteq Readable(w.profile, found)
      BY <3>2, <3>3
    <3> QED BY <1>3, <3>3, <3>7, <3>8, <3>9 DEF Searching, Goes, M
  <2> QED BY <2>2, <2>3, <2>4 DEF AnalysisRight
<1> QED BY <1>4, <1>5, <1>6, AnalysedRight

LEMMA RankRight ==
  ASSUME AllWorkTyped, NEW r \in Runs, Right(work[r], sheet, found, bases), Rank(r)
  PROVE  Right(work'[r], sheet, found, bases) /\ Only(r)
<1> DEFINE w == work[r]
           best == Best(w.hits)
<1>1. /\ WorkTyped(w) /\ w.pc = "search" /\ w.todo = <<>>
      /\ work' = [work EXCEPT ![r].pc = "detail", ![r].todo = best, ![r].hits = <<>>]
  BY DEF AllWorkTyped, Rank, Stands
<1>2. PICK u : u = [w EXCEPT !.pc = "detail", !.todo = best, !.hits = <<>>]
  OBVIOUS
<1>3. /\ Goes(u, w) /\ u.pc = "detail" /\ u.result = w.result /\ u.verdict = w.verdict
      /\ u.candidates = w.candidates /\ u.todo = best
  <2> HIDE DEF best
  <2> QED BY <1>1, <1>2 DEF WorkTyped, Goes
<1>4. work' = [work EXCEPT ![r] = u]
  <2> HIDE DEF best
  <2> QED BY <1>1, <1>2 DEF AllWorkTyped
<1>5. u.job # "table"
  BY <1>1, <1>3, LooksOnly DEF Looking, Goes
<1>6. AnalysisRight(u, found, bases)
  <2> SUFFICES ASSUME u.job \in Analyses PROVE AnalysisRight(u, found, bases)
    BY DEF AnalysisRight
  <2>1. Stage(w)
    BY <1>3 DEF Right, AnalysisRight, Goes
  <2>2. Stage(u) /\ w.candidates = {}
    BY <1>1, <1>3, <2>1 DEF Stage, Goes, Ended
  <2>3. Searching(u, found) /\ Concluded(u, found, bases)
    BY <1>3 DEF Searching, Concluded
  <2>4. ASSUME ~u.edited PROVE Detailing(u, found)
    <3> DEFINE M == Matched(w.profile, w.terms, found)
    <3>1. Searching(w, found)
      BY <1>3, <2>4 DEF Right, AnalysisRight, Goes
    <3>2. /\ w.hits \in [DOMAIN w.hits -> Int]
          /\ DOMAIN w.hits \subseteq M /\ M \subseteq DOMAIN w.hits \cup ToSet(w.todo)
      BY <1>1, <3>1 DEF Searching
    <3>3. ToSet(w.todo) = {}
      BY <1>1 DEF ToSet
    <3>4. M \subseteq ToSet(Paths)
      BY PathAssumption DEF Matched, Readable
    <3> HIDE DEF M
    <3>5. DOMAIN w.hits = M
      BY <3>2, <3>3
    <3>6. best \in Seq(ToSet(Paths)) /\ Enough(ToSet(best), M)
      BY <3>2, <3>4, <3>5, BestIsEnough
    <3>7. {} \cup ToSet(best) = ToSet(best)
      OBVIOUS
    <3> QED BY <1>3, <2>2, <3>6, <3>7 DEF Detailing, Goes, M
  <2> QED BY <2>2, <2>3, <2>4 DEF AnalysisRight
<1> QED BY <1>4, <1>5, <1>6, AnalysedRight

LEMMA DetailRight ==
  ASSUME AllWorkTyped, NEW r \in Runs, Right(work[r], sheet, found, bases), Detail(r)
  PROVE  Right(work'[r], sheet, found, bases) /\ Only(r)
<1> DEFINE w == work[r]
           p == Head(w.todo)
           c == IF found[p].kind \in {"text", "large"} THEN w.candidates \cup {p}
                ELSE w.candidates
<1>1. /\ WorkTyped(w) /\ w.pc = "detail" /\ w.todo # <<>>
      /\ work' = [work EXCEPT ![r].todo = Tail(@), ![r].candidates =
                    IF found[p].kind \in {"text", "large"} THEN @ \cup {p} ELSE @]
  BY DEF AllWorkTyped, Detail, Stands
<1>2. PICK u : u = [w EXCEPT !.todo = Tail(@), !.candidates =
                      IF found[p].kind \in {"text", "large"} THEN @ \cup {p} ELSE @]
  OBVIOUS
<1>3. /\ Goes(u, w) /\ u.pc = "detail" /\ u.result = w.result /\ u.verdict = w.verdict
      /\ u.candidates = c /\ u.todo = Tail(w.todo)
  <2> HIDE DEF p
  <2> QED BY <1>1, <1>2 DEF WorkTyped, Goes
<1>4. work' = [work EXCEPT ![r] = u]
  <2> HIDE DEF p
  <2> QED BY <1>1, <1>2 DEF AllWorkTyped
<1>5. u.job # "table"
  BY <1>1, <1>3, LooksOnly DEF Looking, Goes
<1>6. AnalysisRight(u, found, bases)
  <2> SUFFICES ASSUME u.job \in Analyses PROVE AnalysisRight(u, found, bases)
    BY DEF AnalysisRight
  <2>1. Stage(w)
    BY <1>3 DEF Right, AnalysisRight, Goes
  <2>2. Stage(u)
    BY <1>1, <1>3, <2>1 DEF Stage, Goes, Ended
  <2>3. Searching(u, found) /\ Concluded(u, found, bases)
    BY <1>3 DEF Searching, Concluded
  <2>4. ASSUME ~u.edited PROVE Detailing(u, found)
    <3> DEFINE M == Matched(w.profile, w.terms, found)
    <3>1. Detailing(w, found)
      BY <1>3, <2>4 DEF Right, AnalysisRight, Goes
    <3>2. w.todo \in Seq(ToSet(Paths)) /\ Enough(w.candidates \cup ToSet(w.todo), M)
      BY <1>1, <3>1 DEF Detailing
    <3>3. /\ Tail(w.todo) \in Seq(ToSet(Paths))
          /\ ToSet(w.todo) = {p} \cup ToSet(Tail(w.todo))
      BY <1>1, <3>2, HeadTail
    <3>4. p \in M
      BY <3>2, <3>3 DEF Enough
    <3>5. found[p].kind = "text"
      BY <3>4 DEF Matched, Hit
    <3> HIDE DEF p, M
    <3>6. c \cup ToSet(Tail(w.todo)) = w.candidates \cup ToSet(w.todo)
      BY <3>3, <3>5
    <3> QED BY <1>3, <3>2, <3>3, <3>6 DEF Detailing, Goes, M
  <2> QED BY <2>2, <2>3, <2>4 DEF AnalysisRight
<1> QED BY <1>4, <1>5, <1>6, AnalysedRight

LEMMA ConcludeRight ==
  ASSUME AllWorkTyped, NEW r \in Runs, Right(work[r], sheet, found, bases), Conclude(r)
  PROVE  Right(work'[r], sheet, found, bases) /\ Only(r)
<1> DEFINE w == work[r]
           x == Plan(w.profile, w.terms, w.candidates, bases)
           at == IF w.report \in Formats THEN "create"
                 ELSE IF w.job = "analysis" THEN "verify" ELSE "done"
<1>1. /\ WorkTyped(w) /\ w.pc = "detail" /\ w.todo = <<>>
      /\ work' = [work EXCEPT ![r].result = x, ![r].candidates = {}, ![r].pc = at]
  BY DEF AllWorkTyped, Conclude, Stands
<1>2. at \in {"create", "verify", "done"}
  OBVIOUS
<1> HIDE DEF at
<1>3. PICK u : u = [w EXCEPT !.result = x, !.candidates = {}, !.pc = at]
  OBVIOUS
<1>4. Goes(u, w) /\ u.pc = at /\ u.result = x /\ u.verdict = w.verdict
  <2> HIDE DEF x
  <2> QED BY <1>1, <1>3 DEF WorkTyped, Goes
<1>5. work' = [work EXCEPT ![r] = u]
  <2> HIDE DEF x
  <2> QED BY <1>1, <1>3 DEF AllWorkTyped
<1>6. u.job # "table"
  BY <1>1, <1>4, LooksOnly DEF Looking, Goes
<1>7. AnalysisRight(u, found, bases)
  <2> SUFFICES ASSUME u.job \in Analyses PROVE AnalysisRight(u, found, bases)
    BY DEF AnalysisRight
  <2>1. Stage(w)
    BY <1>4 DEF Right, AnalysisRight, Goes
  <2>2. Stage(u)
    <3>1. w.verdict # "passed" /\ w.terms \in Queries
      BY <1>1, <2>1 DEF Stage
    <3> HIDE DEF x
    <3> QED BY <1>1, <1>2, <1>4, <3>1 DEF Stage, Goes, Ended
  <2>3. Searching(u, found) /\ Detailing(u, found)
    BY <1>2, <1>4 DEF Searching, Detailing
  <2>4. ASSUME ~u.edited PROVE Concluded(u, found, bases)
    <3> DEFINE M == Matched(w.profile, w.terms, found)
    <3>1. Detailing(w, found)
      BY <1>4, <2>4 DEF Right, AnalysisRight, Goes
    <3>2. Enough(w.candidates \cup ToSet(w.todo), M)
      BY <1>1, <3>1 DEF Detailing
    <3>3. ToSet(w.todo) = {}
      BY <1>1 DEF ToSet
    <3>4. w.candidates \cup ToSet(w.todo) = w.candidates
      BY <3>3
    <3>5. Enough(w.candidates, M)
      BY <3>2, <3>4
    <3>6. M \subseteq ToSet(Paths)
      BY PathAssumption DEF Matched, Readable
    <3> HIDE DEF M
    <3>7. w.candidates \in SUBSET ToSet(Paths)
      BY <3>5, <3>6 DEF Enough
    <3> QED BY <1>4, <3>5, <3>7 DEF Concluded, Goes, M
  <2> QED BY <2>2, <2>3, <2>4 DEF AnalysisRight
<1> QED BY <1>5, <1>6, <1>7, AnalysedRight

-----------------------------------------------------------------------------
(***************************************************************************)
(* Registrations, edits, and every step.                                   *)
(***************************************************************************)
\* A registration has no verdict.
LEMMA RegistersRight ==
  ASSUME AllWorkTyped, NEW r \in Runs, NEW s, NEW f, NEW b,
         (\E profile : CreateTemporary(r, profile)) \/ FillTemporary(r)
  PROVE  Right(work'[r], s, f, b) /\ Only(r)
<1> DEFINE w == work[r]
<1>1. WorkTyped(w)
  BY DEF AllWorkTyped
<1>2. ASSUME NEW u, u.job = "register", work' = [work EXCEPT ![r] = u]
      PROVE  Right(work'[r], s, f, b) /\ Only(r)
  <2>1. work'[r] = u /\ Only(r)
    BY <1>2, Elsewhere
  <2>2. Right(u, s, f, b)
    BY <1>2, OtherJob
  <2> QED BY <2>1, <2>2
<1>3. ASSUME NEW profile, NEW at,
             work' = [work EXCEPT ![r].job = "register", ![r].profile = profile, ![r].pc = at]
      PROVE  Right(work'[r], s, f, b) /\ Only(r)
  <2>1. PICK u : u = [w EXCEPT !.job = "register", !.profile = profile, !.pc = at]
    OBVIOUS
  <2>2. u.job = "register"
    BY <1>1, <2>1 DEF WorkTyped
  <2>3. work' = [work EXCEPT ![r] = u]
    BY <1>3, <2>1 DEF AllWorkTyped
  <2> QED BY <1>2, <2>2, <2>3
<1>4. ASSUME work' = [work EXCEPT ![r].job = "register", ![r].pc = "failed"]
      PROVE  Right(work'[r], s, f, b) /\ Only(r)
  <2>1. PICK u : u = [w EXCEPT !.job = "register", !.pc = "failed"]
    OBVIOUS
  <2>2. u.job = "register"
    BY <1>1, <2>1 DEF WorkTyped
  <2>3. work' = [work EXCEPT ![r] = u]
    BY <1>4, <2>1 DEF AllWorkTyped
  <2> QED BY <1>2, <2>2, <2>3
<1>5. ASSUME w.job = "register", work' = [work EXCEPT ![r].pc = "replace"]
      PROVE  Right(work'[r], s, f, b) /\ Only(r)
  <2>1. PICK u : u = [w EXCEPT !.pc = "replace"]
    OBVIOUS
  <2>2. u.job = "register"
    BY <1>1, <1>5, <2>1 DEF WorkTyped
  <2>3. work' = [work EXCEPT ![r] = u]
    BY <1>5, <2>1 DEF AllWorkTyped
  <2> QED BY <1>2, <2>2, <2>3
<1> QED BY <1>3, <1>4, <1>5 DEF CreateTemporary, FillTemporary

\* Of what was read before an edit, nothing is claimed.
LEMMA EditedRight ==
  ASSUME NEW w, NEW u, u.profile = w.profile, u.report = w.report,
         u.job = w.job, u.pc = w.pc, u.recipe = w.recipe, u.terms = w.terms, u.hits = w.hits,
         u.candidates = w.candidates, u.result = w.result, u.verdict = w.verdict,
         u.place = w.place, u.edited,
         NEW s, NEW f, NEW b, Right(w, s, f, b), NEW s2, NEW f2, NEW b2
  PROVE  Right(u, s2, f2, b2)
<1>1. TableRight(u, s2)
  BY DEF Right, TableRight
<1>2. AnalysisRight(u, f2, b2)
  BY DEF Right, AnalysisRight, Stage, PlanPasses
<1> QED BY <1>1, <1>2 DEF Right

LEMMA DisturbedRight ==
  ASSUME AllWorkTyped, NEW self, NEW q \in Runs, q # self, NEW s, NEW f, NEW b,
         Right(work[q], s, f, b), NEW s2, NEW f2, NEW b2
  PROVE  Right(Disturbed(self)[q], s2, f2, b2)
<1>1. CASE Unstarted(q)
  <2>1. Disturbed(self)[q] = work[q] /\ work[q].job = "none"
    BY <1>1 DEF Disturbed, Unstarted
  <2> QED BY <2>1, OtherJob
<1>2. CASE ~Unstarted(q)
  <2> DEFINE w == work[q]
  <2>1. PICK u : u = [w EXCEPT !.edited = TRUE]
    OBVIOUS
  <2>2. Disturbed(self)[q] = u
    BY <1>2, <2>1 DEF Disturbed
  <2>3. WorkTyped(w)
    BY DEF AllWorkTyped
  <2>4. /\ u.job = w.job /\ u.pc = w.pc /\ u.recipe = w.recipe /\ u.terms = w.terms
        /\ u.profile = w.profile /\ u.report = w.report /\ u.hits = w.hits /\ u.candidates = w.candidates /\ u.result = w.result
        /\ u.verdict = w.verdict /\ u.place = w.place /\ u.edited
    BY <2>1, <2>3 DEF WorkTyped
  <2> QED BY <2>2, <2>4, EditedRight
<1> QED BY <1>1, <1>2

LEMMA ReplaceRight ==
  ASSUME AllWorkTyped, NEW r \in Runs, ReplaceRegistered(r), VerdictInv
  PROVE  \A q \in Runs : Right(work'[q], sheet, found, bases)
<1> DEFINE w == work[r]
<1>1. /\ WorkTyped(w) /\ w.pc = "replace" /\ Right(w, sheet, found, bases)
      /\ work' = [Disturbed(r) EXCEPT ![r].pc = "done"]
  BY DEF AllWorkTyped, ReplaceRegistered, Stands, VerdictInv
<1>2. w.job \notin {"table", "analysis", "prepare"}
  BY <1>1 DEF Right, TableRight, AnalysisRight, Stage, Analyses, Ended
<1>3. r \in DOMAIN Disturbed(r) /\ Disturbed(r)[r] = w
  BY DEF Disturbed
<1>4. PICK u : u = [w EXCEPT !.pc = "done"]
  OBVIOUS
<1>5. u.job = w.job
  BY <1>1, <1>4 DEF WorkTyped
<1>6. work' = [Disturbed(r) EXCEPT ![r] = u]
  BY <1>1, <1>3, <1>4
<1>7. work'[r] = u /\ \A q \in Runs \ {r} : work'[q] = Disturbed(r)[q]
  BY <1>6 DEF Disturbed
<1>8. Right(u, sheet, found, bases)
  BY <1>2, <1>5, OtherJob
<1>9. \A q \in Runs \ {r} : Right(Disturbed(r)[q], sheet, found, bases)
  BY DisturbedRight DEF VerdictInv
<1> QED BY <1>7, <1>8, <1>9

LEMMA EditRight ==
  ASSUME AllWorkTyped, VerdictInv, EditSheet \/ EditPath \/ EditDatabase
  PROVE  VerdictInv'
<1>1. work' = Disturbed(Absent)
  BY DEF EditSheet, EditPath, EditDatabase, Edit
<1>2. ASSUME NEW q \in Runs PROVE Right(work'[q], sheet', found', bases')
  <2>1. q # Absent
    BY PreparationAssumption
  <2> QED BY <1>1, <2>1, DisturbedRight DEF VerdictInv
<1>3. WorldTyped'
  BY DEF VerdictInv, WorldTyped, EditSheet, EditPath, EditDatabase
<1> QED BY <1>2, <1>3 DEF VerdictInv

LEMMA VerdictStarts ==
  PreparationInit => VerdictInv
<1> SUFFICES ASSUME PreparationInit PROVE VerdictInv
  OBVIOUS
<1>1. ASSUME NEW q \in Runs PROVE Right(work[q], sheet, found, bases)
  <2>1. work[q] = Idle
    BY DEF PreparationInit
  <2>2. Idle.job = "none"
    BY DEF Idle
  <2> QED BY <2>1, <2>2, OtherJob
<1>2. WorldTyped
  BY PreparationAssumption DEF PreparationInit, WorldTyped
<1> QED BY <1>1, <1>2 DEF VerdictInv

\* A step of one process, with the world as it was.
LEMMA OneIsRight ==
  ASSUME VerdictInv, UNCHANGED world, NEW r \in Runs,
         Right(work'[r], sheet, found, bases), Only(r)
  PROVE  VerdictInv'
<1>1. sheet' = sheet /\ found' = found /\ bases' = bases
  BY DEF world
<1>2. \A q \in Runs : Right(work'[q], sheet, found, bases)
  BY DEF Only, VerdictInv
<1> QED BY <1>1, <1>2 DEF VerdictInv, WorldTyped

LEMMA VerdictSteps ==
  PreparationInv /\ VerdictInv /\ [PreparationNext]_preparationVars => VerdictInv'
<1> SUFFICES ASSUME PreparationInv, VerdictInv, [PreparationNext]_preparationVars
             PROVE  VerdictInv'
  OBVIOUS
<1>1. AllWorkTyped /\ WorldTyped
  BY DEF PreparationInv, PreparationTypeOK, VerdictInv
<1>2. ASSUME NEW r \in Runs PROVE Right(work[r], sheet, found, bases) /\ OwnFile(r)
  BY DEF VerdictInv, PreparationInv
<1>3. ASSUME NEW r \in Runs,
             \/ \E recipe \in Recipes : BeginTable(r, recipe)
             \/ \E job \in MayDo[r], terms \in Queries, report \in {"none"} \cup Formats :
                  BeginCode(r, job, terms, report)
      PROVE  VerdictInv'
  <2>1. UNCHANGED world
    BY <1>3 DEF BeginTable, BeginCode
  <2>2. Right(work'[r], sheet, found, bases) /\ Only(r)
    BY <1>1, <1>3, BeginTableRight, BeginCodeRight
  <2> QED BY <2>1, <2>2, OneIsRight
<1>4. ASSUME NEW r \in Runs,
             ReadRows(r) \/ Digest(r) \/ Discover(r) \/ Search(r) \/ Rank(r) \/ Detail(r)
               \/ Conclude(r)
      PROVE  VerdictInv'
  <2>1. UNCHANGED world
    BY <1>4 DEF ReadRows, Digest, Discover, Search, Rank, Detail, Conclude
  <2>2. Right(work'[r], sheet, found, bases) /\ Only(r)
    BY <1>1, <1>2, <1>4, ReadRowsRight, DigestRight, DiscoverRight, SearchRight, RankRight,
       DetailRight, ConcludeRight
  <2> QED BY <2>1, <2>2, OneIsRight
<1>5. ASSUME NEW r \in Runs, CreateOutput(r) \/ FillOutput(r) \/ Verify(r)
      PROVE  VerdictInv'
  <2>1. UNCHANGED world
    BY <1>5 DEF CreateOutput, FillOutput, Verify
  <2>2. Right(work'[r], sheet, found, bases) /\ Only(r)
    BY <1>1, <1>2, <1>5, CreateOutputRight, FillOutputRight, VerifyRight
  <2> QED BY <2>1, <2>2, OneIsRight
<1>6. ASSUME NEW r \in Runs,
             (\E profile \in Profiles : CreateTemporary(r, profile)) \/ FillTemporary(r)
      PROVE  VerdictInv'
  <2>1. UNCHANGED world
    BY <1>6 DEF CreateTemporary, FillTemporary
  <2>2. Right(work'[r], sheet, found, bases) /\ Only(r)
    BY <1>1, <1>6, RegistersRight
  <2> QED BY <2>1, <2>2, OneIsRight
<1>7. ASSUME NEW r \in Runs, Stop(r)
      PROVE  VerdictInv'
  <2>1. UNCHANGED world
        /\ work' = [work EXCEPT ![r] = [Idle EXCEPT !.job = work[r].job, !.pc = "dead"]]
    BY <1>7 DEF Stop
  <2>2. Right(work'[r], sheet, found, bases) /\ Only(r)
    BY <1>1, <2>1, EndsRight
  <2> QED BY <2>1, <2>2, OneIsRight
<1>8. ASSUME NEW r \in Runs, ReplaceRegistered(r)
      PROVE  VerdictInv'
  <2>1. sheet' = sheet /\ found' = found /\ bases' = bases
    BY <1>8 DEF ReplaceRegistered, world
  <2>2. \A q \in Runs : Right(work'[q], sheet, found, bases)
    BY <1>1, <1>8, ReplaceRight
  <2> QED BY <1>1, <2>1, <2>2 DEF VerdictInv, WorldTyped
<1>9. CASE EditSheet \/ EditPath \/ EditDatabase
  BY <1>1, <1>9, EditRight
<1>10. CASE UNCHANGED preparationVars
  BY <1>10 DEF preparationVars, world, VerdictInv, WorldTyped
<1> QED BY <1>3, <1>4, <1>5, <1>6, <1>7, <1>8, <1>9, <1>10 DEF PreparationNext

-----------------------------------------------------------------------------
\* A verification that nothing was edited under passes an output exactly if the rows survive their
\* file type and the declared checks hold of them, for every accepted recipe, attachment and cell,
\* whatever XML, csv.reader and the limits of a workbook make of them.
THEOREM VerdictsAreRight == PreparationSpec => []VerdictIsRight
<1>1. VerdictInv => VerdictIsRight
  <2> SUFFICES ASSUME VerdictInv, NEW r \in Runs,
                      work[r].job = "table", work[r].pc = "done", ~work[r].edited
               PROVE  work[r].verdict = "passed" <=>
                        /\ work[r].result = Applied(work[r].recipe, sheet).rows
                        /\ Survives(work[r].recipe.output, work[r].result)
                        /\ \A k \in DOMAIN work[r].recipe.checks :
                             RuleHolds(work[r].recipe.checks[k], work[r].result, work[r].result)
    BY DEF VerdictIsRight
  <2> DEFINE w == work[r]
  <2>1. TableRight(w, sheet) /\ sheet \in Sheets
    BY DEF VerdictInv, Right, WorldTyped
  <2>2. /\ w.recipe \in Recipes /\ ValidTablePlan(w.recipe)
        /\ Applied(w.recipe, sheet).ok /\ w.result = Applied(w.recipe, sheet).rows
        /\ w.verdict = "passed" <=> Verified(w.recipe, w.result, sheet)
    BY <2>1 DEF TableRight
  <2> QED BY <2>1, <2>2, VerifiedIf
<1> QED BY <1>1, PreparationStarts, PreparationSteps, VerdictStarts, VerdictSteps, PTL
        DEF PreparationSpec

\* A plan that nothing was edited under is ready exactly if one readable file of the managed
\* directories really has one of the terms and all schemas were read, for every project, query, size
\* of chunks and limit above one; and only a ready one is verified, but for a Markdown report that
\* quotes the line it is searched for.
THEOREM OnlyMatchIsReady == PreparationSpec => []ReadyHasTheOnlyMatch
<1>1. VerdictInv => ReadyHasTheOnlyMatch
  <2> SUFFICES ASSUME VerdictInv, NEW r \in Runs, work[r].job \in Analyses,
                      work[r].result # Absent, ~work[r].edited
               PROVE  /\ work[r].result.state = "ready" <=>
                          /\ Cardinality(Matching(work[r].profile, work[r].terms)) = 1
                          /\ \A d \in work[r].profile.databases : bases[d] = "readable"
                          /\ work[r].terms \cap DatabaseTerms # {} => work[r].profile.databases # {}
                      /\ work[r].verdict = "passed" => PlanPasses(work[r], work[r].result)
    BY DEF ReadyHasTheOnlyMatch, Analyses, PlanPasses
  <2> DEFINE w == work[r]
             M == Matched(w.profile, w.terms, found)
  <2>1. Stage(w) /\ Concluded(w, found, bases)
    BY DEF VerdictInv, Right, AnalysisRight
  <2>2. w.pc \in {"create", "fill", "verify", "done"}
    BY <2>1 DEF Stage, Ended
  <2>3. PICK B \in SUBSET ToSet(Paths) :
          Enough(B, M) /\ w.result = Plan(w.profile, w.terms, B, bases)
    BY <2>1, <2>2 DEF Concluded
  <2>4. w.result.state = "ready" <=>
          /\ B # {} /\ ~(Cardinality(B) > 1)
          /\ \A d \in w.profile.databases : bases[d] = "readable"
          /\ w.terms \cap DatabaseTerms # {} => w.profile.databases # {}
    BY <2>3, PlanReady
  <2>5. M \subseteq ToSet(Paths)
    BY PathAssumption DEF Matched, Readable
  <2>6. M = Matching(w.profile, w.terms)
    BY MatchedIs
  <2>7. w.verdict = "passed" => PlanPasses(w, w.result)
    BY <2>1 DEF Stage
  <2> HIDE DEF M, w
  <2>8. IsFiniteSet(M)
    BY <2>5, PathShape, FS_Subset
  <2>9. (B # {} /\ ~(Cardinality(B) > 1)) <=> Cardinality(M) = 1
    BY <2>3, <2>8, EnoughForAll
  <2> QED BY <2>4, <2>6, <2>7, <2>9 DEF w
<1> QED BY <1>1, PreparationStarts, PreparationSteps, VerdictStarts, VerdictSteps, PTL
        DEF PreparationSpec
=============================================================================
