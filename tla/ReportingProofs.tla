--------------------------- MODULE ReportingProofs ---------------------------
(***************************************************************************)
(* Proofs about what a person is told and shown: Notifications, for any    *)
(* number of workers, keys, profiles and calls, and Dashboard, for any     *)
(* number of contents, versions, attempts and deaths.                      *)
(*                                                                         *)
(* The lines of one key have growing attempts, and only the last of them   *)
(* may say "delivered": so the latest delivery is the last line of a key.  *)
(* Between its look and its line a worker has the lock, so what it saw of  *)
(* the file is still true when it writes.                                  *)
(*                                                                         *)
(* The fold of the log is always at an attempt that no logged one is newer *)
(* than, and its verdict is that attempt's.  A record that says succeeded  *)
(* is never taken back, and is put before a verdict that says passed: so   *)
(* the verdicts and the records of a page may be read at different times.  *)
(***************************************************************************)
EXTENDS Notifications, Dashboard, FiniteSetTheorems, SequenceTheorems, WellFoundedInduction, TLAPS

-----------------------------------------------------------------------------
(***************************************************************************)
(* Numbers, and the operators Max, SetToSeq and FlattenSeq.                *)
(***************************************************************************)
Less == {x \in Nat \X Nat : x[1] < x[2]}

LEMMA Smallest ==
  ASSUME NEW T \in SUBSET Nat, T # {}
  PROVE  \E n \in T : \A k \in T : n <= k
<1>1. IsWellFoundedOn(Less, Nat)
  BY NatLessThanWellFounded DEF OpToRel, Less
<1>2. PICK n \in T : \A k \in T : ~(<<k, n>> \in Less)
  BY <1>1, WFMin
<1>3. ASSUME NEW k \in T PROVE n <= k
  <2>1. k \in Nat /\ n \in Nat /\ ~(<<k, n>> \in Less)
    BY <1>2
  <2>2. ~(k < n)
    BY <2>1 DEF Less
  <2> QED BY <2>1, <2>2
<1> QED BY <1>3

\* What Max returns of a set of numbers below a bound.
LEMMA MaxFacts ==
  ASSUME NEW N \in Nat, NEW S \in SUBSET (0..N), S # {}
  PROVE  Max(S) \in S /\ \A k \in S : k <= Max(S)
<1> DEFINE T == {k \in Nat : \A n \in S : n <= k}
<1>1. T \in SUBSET Nat /\ N \in T
  OBVIOUS
<1> HIDE DEF T
<1>2. PICK k \in T : \A j \in T : k <= j
  BY <1>1, Smallest
<1> USE DEF T
<1>3. k \in Nat /\ \A n \in S : n \in Nat /\ n <= k
  BY <1>2
<1>4. k \in S
  <2> SUFFICES ASSUME k \notin S PROVE FALSE
    OBVIOUS
  <2>1. \A n \in S : n < k
    BY <1>3
  <2>2. PICK m \in S : TRUE
    OBVIOUS
  <2>3. k - 1 \in Nat /\ \A n \in S : n <= k - 1
    <3>1. m \in Nat /\ m < k
      BY <1>3, <2>1
    <3> QED BY <1>3, <2>1, <3>1
  <2>4. k - 1 \in T
    BY <2>3
  <2> QED BY <1>2, <1>3, <2>4
<1>5. \E x \in S : \A y \in S : x >= y
  BY <1>3, <1>4
<1>6. Max(S) \in S /\ \A y \in S : Max(S) >= y
  BY <1>5 DEF Max
<1> QED BY <1>3, <1>6

LEMMA SetToSeqFacts ==
  ASSUME NEW S, IsFiniteSet(S)
  PROVE  SetToSeq(S) \in Seq(S)
<1>1. Cardinality(S) \in Nat /\ ExistsBijection(1..Cardinality(S), S)
  BY FS_CardinalityType
<1>2. \E f \in [1..Cardinality(S) -> S] : IsInjective(f)
  BY <1>1 DEF ExistsBijection, Bijection, Injection, IsInjective
<1>3. SetToSeq(S) \in [1..Cardinality(S) -> S]
  BY <1>2 DEF SetToSeq
<1> QED BY <1>1, <1>3

IsFlat(f, ss, n) ==
  f = [i \in 1..n |-> IF i = 1 THEN ss[i] ELSE f[i - 1] \o ss[i]]

Flat(ss) == CHOOSE f : IsFlat(f, ss, Len(ss))

LEMMA FlatExists ==
  ASSUME NEW ss, NEW n \in Nat
  PROVE  \E f : IsFlat(f, ss, n)
<1> DEFINE T == {k \in Nat : ~\E f : IsFlat(f, ss, k)}
<1> SUFFICES ASSUME T # {} PROVE FALSE
  OBVIOUS
<1>1. PICK k \in T : \A j \in T : k <= j
  BY Smallest
<1>2. k # 0
  <2>1. IsFlat([i \in 1..0 |-> 0], ss, 0)
    BY DEF IsFlat
  <2> QED BY <2>1
<1>3. k - 1 \in Nat /\ k - 1 \notin T
  BY <1>1, <1>2
<1>4. PICK f : IsFlat(f, ss, k - 1)
  BY <1>3
<1> DEFINE g == [i \in 1..k |-> IF i = 1 THEN ss[i] ELSE f[i - 1] \o ss[i]]
<1>5. \A i \in 1..(k - 1) : g[i] = f[i]
  <2>1. \A i \in 1..(k - 1) : f[i] = IF i = 1 THEN ss[i] ELSE f[i - 1] \o ss[i]
    BY <1>4 DEF IsFlat
  <2>2. \A i \in 1..(k - 1) : i \in 1..k
    BY <1>3
  <2> QED BY <2>1, <2>2
<1>6. \A i \in 1..k : g[i] = IF i = 1 THEN ss[i] ELSE g[i - 1] \o ss[i]
  <2>1. \A i \in 1..k : i # 1 => i - 1 \in 1..(k - 1)
    BY <1>3
  <2>2. \A i \in 1..k : i # 1 => f[i - 1] = g[i - 1]
    BY <1>5, <2>1
  <2>3. \A i \in 1..k : g[i] = IF i = 1 THEN ss[i] ELSE f[i - 1] \o ss[i]
    OBVIOUS
  <2> HIDE DEF g
  <2> QED BY <2>2, <2>3
<1>7. IsFlat(g, ss, k)
  BY <1>6 DEF IsFlat
<1> QED BY <1>7

LEMMA FlattenFacts ==
  ASSUME NEW S, NEW ss \in Seq(Seq(S))
  PROVE  FlattenSeq(ss) \in Seq(S)
<1>1. CASE Len(ss) = 0
  BY <1>1 DEF FlattenSeq
<1>2. CASE Len(ss) # 0
  <2>1. FlattenSeq(ss) = Flat(ss)[Len(ss)]
    BY <1>2 DEF FlattenSeq, Flat, IsFlat
  <2>2. IsFlat(Flat(ss), ss, Len(ss))
    <3>1. \E f : IsFlat(f, ss, Len(ss))
      <4>1. Len(ss) \in Nat
        OBVIOUS
      <4> QED BY <4>1, FlatExists
    <3> QED BY <3>1 DEF Flat
  <2> DEFINE T == {k \in Nat : k \in 1..Len(ss) /\ Flat(ss)[k] \notin Seq(S)}
  <2>3. T = {}
    <3> SUFFICES ASSUME T # {} PROVE FALSE
      OBVIOUS
    <3>1. PICK k \in T : \A j \in T : k <= j
      BY Smallest
    <3>2. k \in 1..Len(ss) /\ ss[k] \in Seq(S)
      BY <3>1
    <3>3. Flat(ss)[k] = IF k = 1 THEN ss[k] ELSE Flat(ss)[k - 1] \o ss[k]
      BY <2>2, <3>2 DEF IsFlat
    <3>4. k # 1 => Flat(ss)[k - 1] \in Seq(S)
      <4>1. k # 1 => k - 1 \in Nat /\ k - 1 \in 1..Len(ss) /\ ~(k <= k - 1)
        BY <3>2
      <4> QED BY <3>1, <4>1
    <3>5. Flat(ss)[k] \in Seq(S)
      BY <3>2, <3>3, <3>4
    <3> QED BY <3>1, <3>5
  <2> QED BY <1>2, <2>1, <2>3
<1> QED BY <1>1, <1>2

-----------------------------------------------------------------------------
(***************************************************************************)
(* Types.                                                                  *)
(***************************************************************************)
Most     == Max({p.max : p \in Offered \cup {Default}})
Points   == {"idle", "next", "send", "write"}
Statuses == {"queued", "delivered", "failed"}
JobSet   == [key : Keys, batched : BOOLEAN, max : 0..Most]
Work     == [jobs : Seq(JobSet), transport : BOOLEAN, flush : BOOLEAN,
             status : Statuses \cup {None}, again : BOOLEAN]
Record   == [key : Keys, status : Statuses, attempt : 1..(Most + 1), again : BOOLEAN]
Busy     == {"send", "write"}

TypeOK ==
  /\ profiles \in [Ids -> Offered \cup {None}] /\ IsFiniteSet(Configured)
  /\ records \in Seq(Record)
  /\ torn \in {"no", "line", "end", "char"} /\ (torn = "end" => records # <<>>)
  /\ young \in Nat \ {0}
  /\ lock \in Workers \cup {None}
  /\ pc \in [Workers -> Points]
  /\ mem \in [Workers -> Work]
  /\ calls \in Nat /\ crashes \in Nat /\ saves \in Nat
  /\ rounds \in [Keys -> Nat] /\ unrecorded \in [Keys -> Nat]

\* A worker in a call has a key to go on with; between its look and its line it has the lock, and
\* the next attempt is one its profile allows, or one more if it flushes what was queued.
WorkerInv(w) ==
  /\ pc[w] # "idle" => mem[w].jobs # <<>>
  /\ pc[w] \in Busy => /\ lock = w
                       /\ NextAttempt(Key(w)) <= Most + 1
                       /\ ~mem[w].flush => NextAttempt(Key(w)) <= Most
  /\ pc[w] = "write" => /\ mem[w].status \in Statuses
                        /\ mem[w].status = "queued" => ~mem[w].flush
  /\ mem[w].flush => /\ mem[w].transport
                     /\ \A n \in DOMAIN mem[w].jobs : ~mem[w].jobs[n].batched

QueuedInTime ==
  \A n \in DOMAIN records : records[n].status = "queued" => records[n].attempt <= Most

TypeInv == TypeOK /\ QueuedInTime /\ \A w \in Workers : WorkerInv(w)

LEMMA MostFacts ==
  Most \in Nat /\ \A p \in Offered \cup {Default} : p.max <= Most
<1> DEFINE S == {p.max : p \in Offered \cup {Default}}
<1>1. \A p \in Offered \cup {Default} : p.max \in 0..10
  BY NotificationsAssumption DEF Default
<1>2. S \in SUBSET (0..10) /\ S # {}
  BY <1>1
<1>3. Max(S) \in S /\ \A k \in S : k <= Max(S)
  BY <1>2, MaxFacts
<1>4. Most = Max(S)
  BY DEF Most
<1>5. \A p \in Offered \cup {Default} : p.max \in S
  OBVIOUS
<1> HIDE DEF S
<1>6. Most \in S /\ \A k \in S : k <= Most
  BY <1>3, <1>4
<1>7. Most \in Nat
  BY <1>2, <1>6
<1> QED BY <1>5, <1>6, <1>7

LEMMA ClassTypes ==
  ASSUME NEW s, Class(s) # None
  PROVE  Class(s) \in Classes
BY DEF Class, Classes

LEMMA JobsTypes ==
  ASSUME NEW p \in Offered \cup {Default}, NEW c \in Classes
  PROVE  Jobs(p, c) \in Seq(JobSet)
<1>1. p.channels \in Seq(Channels) /\ p.max \in Nat
  <2>1. CASE p \in Offered
    BY <2>1, NotificationsAssumption
  <2>2. CASE p = Default
    BY <2>2, NotificationsAssumption DEF Default
  <2> QED BY <2>1, <2>2
<1>2. p.max \in 0..Most
  BY <1>1, MostFacts
<1>3. \A n \in 1..Len(p.channels) : p.channels[n] \in Channels
  BY <1>1
<1>4. \A n \in 1..Len(p.channels) :
        [key |-> <<c, p.channels[n]>>, batched |-> c \in p.batched, max |-> p.max] \in JobSet
  BY <1>2, <1>3 DEF JobSet, Keys
<1>5. DOMAIN p.channels = 1..Len(p.channels) /\ Len(p.channels) \in Nat
  BY <1>1
<1> QED BY <1>4, <1>5 DEF Jobs

LEMMA TailFacts ==
  ASSUME NEW S, NEW s \in Seq(S), s # <<>>, Len(s) # 1
  PROVE  Tail(s) # <<>>
<1>1. Tail(s) \in Seq(S) /\ Len(Tail(s)) = Len(s) - 1 /\ Len(s) \in Nat
  OBVIOUS
<1>2. Len(s) # 0
  BY EmptySeq
<1>3. Len(Tail(s)) # 0
  BY <1>1, <1>2
<1> QED BY <1>1, <1>3, EmptySeq

LEMMA HeadJob ==
  ASSUME TypeInv, NEW w \in Workers, pc[w] # "idle"
  PROVE  /\ mem[w] \in Work /\ mem[w].jobs \in Seq(JobSet) /\ mem[w].jobs # <<>>
         /\ Job(w) \in JobSet /\ Key(w) \in Keys
         /\ Tail(mem[w].jobs) \in Seq(JobSet)
         /\ Len(mem[w].jobs) # 1 => Tail(mem[w].jobs) # <<>>
<1>1. mem[w] \in Work /\ mem[w].jobs \in Seq(JobSet) /\ mem[w].jobs # <<>>
  BY DEF TypeInv, TypeOK, WorkerInv, Work
<1>2. Job(w) \in JobSet /\ Tail(mem[w].jobs) \in Seq(JobSet)
  BY <1>1 DEF Job
<1>3. Len(mem[w].jobs) # 1 => Tail(mem[w].jobs) # <<>>
  BY <1>1, TailFacts
<1> QED BY <1>1, <1>2, <1>3 DEF Key, JobSet

LEMMA OfFacts ==
  ASSUME TypeOK, NEW k
  PROVE  /\ Of(k) \in SUBSET (1..Len(records)) /\ Len(records) \in Nat
         /\ DOMAIN records = 1..Len(records)
         /\ \A n \in DOMAIN records : records[n] \in Record
BY DEF TypeOK, Of

\* The attempts of a key have a highest one, and the next one is above it.
LEMMA NextAttemptFacts ==
  ASSUME TypeOK, NEW k
  PROVE  /\ NextAttempt(k) \in Nat /\ NextAttempt(k) >= 1
         /\ torn # "char" => \A n \in Of(k) : records[n].attempt < NextAttempt(k)
         /\ \A b \in Nat : (\A n \in Of(k) : records[n].attempt <= b) => NextAttempt(k) <= b + 1
<1> DEFINE A == {records[n].attempt : n \in Of(k)}
           S == A \cup {0}
<1>1. Most + 1 \in Nat /\ \A n \in Of(k) : records[n].attempt \in 1..(Most + 1)
  BY OfFacts, MostFacts DEF Record
<1>2. S \in SUBSET (0..(Most + 1)) /\ S # {}
  BY <1>1
<1>3. Max(S) \in S /\ \A x \in S : x <= Max(S)
  BY <1>1, <1>2, MaxFacts
<1>4. NextAttempt(k) = IF torn = "char" THEN 1 ELSE Max(S) + 1
  BY DEF NextAttempt
<1>5. \A n \in Of(k) : records[n].attempt \in S
  OBVIOUS
<1>6. ASSUME NEW b \in Nat, \A n \in Of(k) : records[n].attempt <= b
      PROVE  Max(S) <= b
  <2>1. \A x \in S : x <= b
    BY <1>6
  <2> HIDE DEF S
  <2> QED BY <1>3, <2>1
<1> HIDE DEF A, S
<1>7. Max(S) \in 0..(Most + 1)
  BY <1>2, <1>3
<1>8. Max(S) \in Nat /\ \A n \in Of(k) : records[n].attempt <= Max(S)
  BY <1>1, <1>3, <1>5, <1>7
<1> QED BY <1>1, <1>4, <1>6, <1>8

\* The latest delivery of a key has its highest attempt.
LEMMA LatestFacts ==
  ASSUME TypeOK, NEW k, Of(k) # {}, torn # "char"
  PROVE  \E n \in Of(k) : /\ LatestDelivery(k) = records[n]
                          /\ \A m \in Of(k) : records[m].attempt <= records[n].attempt
<1> DEFINE A == {records[n].attempt : n \in Of(k)}
           top == Max(A)
           T == {n \in Of(k) : records[n].attempt = top}
<1>1. Most + 1 \in Nat /\ \A n \in Of(k) : records[n].attempt \in 1..(Most + 1)
  BY OfFacts, MostFacts DEF Record
<1>2. A \in SUBSET (0..(Most + 1)) /\ A # {}
  BY <1>1
<1>3. top \in A /\ \A x \in A : x <= top
  BY <1>1, <1>2, MaxFacts
<1>4. T # {}
  BY <1>3
<1>5. T \in SUBSET (0..Len(records)) /\ Len(records) \in Nat
  BY OfFacts
<1>6. Max(T) \in T
  BY <1>4, <1>5, MaxFacts
<1>7. LatestDelivery(k) = records[Max(T)]
  BY DEF LatestDelivery
<1>8. \A m \in Of(k) : records[m].attempt \in A
  OBVIOUS
<1>9. Max(T) \in Of(k) /\ records[Max(T)].attempt = top
  BY <1>6
<1> HIDE DEF A, top, T
<1> QED BY <1>3, <1>7, <1>8, <1>9

\* What is read of the file does not change with anything but its lines.
LEMMA SameFile ==
  ASSUME records' = records, torn' = torn, NEW k
  PROVE  /\ Of(k)' = Of(k) /\ NextAttempt(k)' = NextAttempt(k)
         /\ LatestDelivery(k)' = LatestDelivery(k) /\ Told(k)' = Told(k)
<1>1. Of(k)' = Of(k)
  BY DEF Of
<1> QED BY <1>1 DEF NextAttempt, LatestDelivery, Told, Nothing

\* A worker that moves, and the others that do not.
Moves(w) == \A v \in Workers \ {w} : pc'[v] = pc[v] /\ mem'[v] = mem[v]

LEMMA NobodyElse ==
  ASSUME TypeInv, NEW w \in Workers, pc[w] \in Busy \/ lock = None
  PROVE  \A v \in Workers \ {w} : pc[v] \notin Busy
BY NotificationsAssumption DEF TypeInv, WorkerInv

LEMMA OthersKept ==
  ASSUME TypeInv, NEW w \in Workers, Moves(w),
         \/ records' = records /\ torn' = torn /\ lock' = lock
         \/ \A v \in Workers \ {w} : pc[v] \notin Busy
  PROVE  \A v \in Workers \ {w} : WorkerInv(v)'
<1> SUFFICES ASSUME NEW v \in Workers \ {w}
             PROVE  WorkerInv(v)'
  OBVIOUS
<1>1. pc'[v] = pc[v] /\ mem'[v] = mem[v] /\ Key(v)' = Key(v) /\ WorkerInv(v)
  BY DEF Moves, Key, Job, TypeInv
<1>2. CASE pc[v] \notin Busy
  BY <1>1, <1>2 DEF WorkerInv
<1>3. CASE records' = records /\ torn' = torn /\ lock' = lock
  <2>1. NextAttempt(Key(v))' = NextAttempt(Key(v))
    <3> DEFINE k == Key(v)
    <3>1. k' = k
      BY <1>1
    <3> HIDE DEF k
    <3>2. ASSUME NEW c, c = k
          PROVE  NextAttempt(c)' = NextAttempt(c)
      BY <1>3, SameFile
    <3> QED BY <3>1, <3>2 DEF k, NextAttempt
  <2> QED BY <1>1, <1>3, <2>1 DEF WorkerInv
<1> QED BY <1>2, <1>3

LEMMA GoOnFacts ==
  ASSUME TypeInv, NEW w \in Workers, pc[w] # "idle", GoOn(w)
  PROVE  /\ mem' \in [Workers -> Work] /\ pc' \in [Workers -> Points]
         /\ Moves(w) /\ pc'[w] \notin Busy
         /\ WorkerInv(w)'
<1>1. /\ mem[w] \in Work /\ mem[w].jobs \in Seq(JobSet) /\ mem[w].jobs # <<>>
      /\ Tail(mem[w].jobs) \in Seq(JobSet)
      /\ Len(mem[w].jobs) # 1 => Tail(mem[w].jobs) # <<>>
  BY HeadJob
<1>2. mem \in [Workers -> Work] /\ pc \in [Workers -> Points]
  BY DEF TypeInv, TypeOK
<1>3. CASE Len(mem[w].jobs) = 1
  <2>1. NoWork \in Work
    BY DEF NoWork, Work
  <2>2. mem' = [mem EXCEPT ![w] = NoWork] /\ pc' = [pc EXCEPT ![w] = "idle"]
    BY <1>2, <1>3 DEF GoOn, Goto
  <2> QED BY <1>2, <2>1, <2>2 DEF Moves, WorkerInv, NoWork, Busy, Points
<1>4. CASE Len(mem[w].jobs) # 1
  <2> DEFINE rest == [mem[w] EXCEPT !.jobs = Tail(mem[w].jobs)]
  <2>1. mem' = [mem EXCEPT ![w] = rest] /\ pc' = [pc EXCEPT ![w] = "next"]
    BY <1>2, <1>4 DEF GoOn, Goto
  <2>2. /\ rest \in Work /\ rest.jobs = Tail(mem[w].jobs) /\ rest.flush = mem[w].flush
        /\ rest.transport = mem[w].transport
    BY <1>1 DEF Work
  <2>3. \A n \in DOMAIN Tail(mem[w].jobs) :
          n + 1 \in DOMAIN mem[w].jobs /\ Tail(mem[w].jobs)[n] = mem[w].jobs[n + 1]
    BY <1>1
  <2> HIDE DEF rest
  <2>4. mem'[w] = rest /\ pc'[w] = "next" /\ Moves(w)
    BY <1>2, <2>1 DEF Moves
  <2>5. mem' \in [Workers -> Work] /\ pc' \in [Workers -> Points]
    BY <1>2, <2>1, <2>2 DEF Points
  <2>6. WorkerInv(w)'
    <3>1. mem[w].flush =>
            mem[w].transport /\ \A n \in DOMAIN mem[w].jobs : ~mem[w].jobs[n].batched
      BY DEF WorkerInv, TypeInv
    <3>2. rest.flush => rest.transport /\ \A n \in DOMAIN rest.jobs : ~rest.jobs[n].batched
      <4>1. rest.flush => rest.transport
        BY <2>2, <3>1
      <4>2. ASSUME rest.flush, NEW n \in DOMAIN rest.jobs
            PROVE  ~rest.jobs[n].batched
        BY <2>2, <2>3, <3>1, <4>2
      <4> QED BY <4>1, <4>2
    <3>3. rest.jobs # <<>>
      BY <1>1, <1>4, <2>2
    <3> QED BY <2>4, <3>2, <3>3 DEF WorkerInv, Busy
  <2> QED BY <2>4, <2>5, <2>6 DEF Busy
<1> QED BY <1>3, <1>4

LEMMA BeginTypes ==
  ASSUME TypeInv, NEW w \in Workers, NEW jobs \in Seq(JobSet), NEW t \in BOOLEAN, NEW f \in BOOLEAN,
         f => t /\ \A n \in DOMAIN jobs : ~jobs[n].batched,
         Begin(w, jobs, t, f)
  PROVE  TypeInv'
<1> DEFINE work == [NoWork EXCEPT !.jobs = jobs, !.transport = t, !.flush = f]
<1>1. /\ mem' = [mem EXCEPT ![w] = work] /\ pc' = [pc EXCEPT ![w] = "next"] /\ jobs # <<>>
      /\ calls' = calls + 1 /\ UNCHANGED <<profiles, store, lock, crashes, saves, rounds, unrecorded>>
  BY DEF Begin, Goto
<1>2. work \in Work /\ work.jobs = jobs /\ work.transport = t /\ work.flush = f
  BY DEF NoWork, Work
<1> HIDE DEF work
<1>3. mem'[w] = work /\ pc'[w] = "next" /\ Moves(w)
  BY <1>1 DEF TypeInv, TypeOK, Moves
<1>4. WorkerInv(w)'
  BY <1>1, <1>2, <1>3 DEF WorkerInv, Busy
<1>5. TypeOK'
  BY <1>1, <1>2 DEF TypeInv, TypeOK, Points, store, Configured
<1>6. QueuedInTime'
  BY <1>1 DEF TypeInv, QueuedInTime, store
<1> QED BY <1>1, <1>3, <1>4, <1>5, <1>6, OthersKept DEF TypeInv, store

LEMMA ProfileTypes ==
  ASSUME TypeOK, NEW i \in Ids
  PROVE  ProfileOf(i) \in Offered \cup {Default}
BY DEF TypeOK, ProfileOf

LEMMA NotifyTypes ==
  ASSUME TypeInv, NEW w \in Workers, NEW s, NotifyPipelineEvent(w, s)
  PROVE  TypeInv'
<1> DEFINE named == SetToSeq(Configured)
           all == IF named = <<>> THEN <<Default>> ELSE [n \in DOMAIN named |-> profiles[named[n]]]
           each == [n \in DOMAIN all |-> Jobs(all[n], Class(s))]
<1>1. Class(s) \in Classes /\ Begin(w, FlattenSeq(each), FALSE, FALSE)
  BY ClassTypes DEF NotifyPipelineEvent
<1>2. named \in Seq(Configured)
  BY SetToSeqFacts DEF TypeInv, TypeOK
<1>3. \A i \in Configured : profiles[i] \in Offered
  BY DEF Configured, TypeInv, TypeOK
<1> HIDE DEF named
<1>4. all \in Seq(Offered \cup {Default})
  <2>1. CASE named = <<>>
    BY <2>1
  <2>2. CASE named # <<>>
    <3>1. DOMAIN named = 1..Len(named) /\ Len(named) \in Nat
      BY <1>2
    <3>2. \A n \in 1..Len(named) : named[n] \in Configured
      BY <1>2
    <3>3. \A n \in 1..Len(named) : profiles[named[n]] \in Offered \cup {Default}
      BY <1>3, <3>2
    <3>4. [n \in 1..Len(named) |-> profiles[named[n]]] \in Seq(Offered \cup {Default})
      BY <3>1, <3>3
    <3> QED BY <2>2, <3>1, <3>4
  <2> QED BY <2>1, <2>2
<1> HIDE DEF all
<1>5. each \in Seq(Seq(JobSet))
  <2>1. DOMAIN all = 1..Len(all) /\ Len(all) \in Nat
    BY <1>4
  <2>2. \A n \in 1..Len(all) : all[n] \in Offered \cup {Default}
    BY <1>4
  <2>3. \A n \in 1..Len(all) : Jobs(all[n], Class(s)) \in Seq(JobSet)
    BY <1>1, <2>2, JobsTypes
  <2> QED BY <2>1, <2>3
<1> HIDE DEF each
<1>6. FlattenSeq(each) \in Seq(JobSet)
  BY <1>5, FlattenFacts
<1> QED BY <1>1, <1>6, BeginTypes

LEMMA FlushTypes ==
  ASSUME TypeInv, NEW w \in Workers, FlushBatched(w)
  PROVE  TypeInv'
<1> DEFINE seen == IF Unreadable THEN {} ELSE {records[n].key : n \in young..Len(records)}
           Flush(k) == [key |-> k, batched |-> FALSE, max |-> 0]
           keys == SetToSeq(seen)
           jobs == [n \in DOMAIN keys |-> Flush(keys[n])]
<1>1. Begin(w, jobs, TRUE, TRUE)
  BY DEF FlushBatched
<1>2. seen \in SUBSET Keys /\ IsFiniteSet(seen)
  <2>1. young \in Nat /\ Len(records) \in Nat /\ young..Len(records) \subseteq DOMAIN records
    BY DEF TypeInv, TypeOK
  <2>2. \A n \in young..Len(records) : records[n].key \in Keys
    BY <2>1, OfFacts DEF TypeInv, Record
  <2>3. IsFiniteSet(young..Len(records))
    BY <2>1, FS_Interval
  <2>4. IsFiniteSet({records[n].key : n \in young..Len(records)})
    <3> DEFINE I == young..Len(records)
               T == {records[n].key : n \in I}
               f == [n \in I |-> records[n].key]
    <3>1. f \in Surjection(I, T)
      BY DEF Surjection
    <3> HIDE DEF f, T, I
    <3>2. IsFiniteSet(I)
      BY <2>3 DEF I
    <3>3. IsFiniteSet(T)
      BY <3>1, <3>2, FS_Surjection
    <3> QED BY <3>3 DEF T, I
  <2>5. IsFiniteSet({})
    BY FS_EmptySet
  <2> QED BY <2>2, <2>4, <2>5
<1> HIDE DEF seen
<1>3. keys \in Seq(Keys)
  <2>1. keys \in Seq(seen)
    BY <1>2, SetToSeqFacts
  <2> HIDE DEF keys
  <2> QED BY <1>2, <2>1
<1> HIDE DEF keys
<1>4. 0 \in 0..Most
  BY MostFacts
<1>5. /\ jobs \in Seq(JobSet)
      /\ \A n \in DOMAIN jobs : ~jobs[n].batched
  <2>1. DOMAIN keys = 1..Len(keys) /\ Len(keys) \in Nat /\ \A n \in 1..Len(keys) : keys[n] \in Keys
    BY <1>3
  <2>2. \A n \in 1..Len(keys) : Flush(keys[n]) \in JobSet /\ ~Flush(keys[n]).batched
    BY <1>4, <2>1 DEF JobSet
  <2> HIDE DEF Flush
  <2> QED BY <2>1, <2>2
<1> HIDE DEF jobs
<1> QED BY <1>1, <1>5, BeginTypes

LEMMA CallTypes ==
  ASSUME TypeInv, NEW w \in Workers, Call(w)
  PROVE  TypeInv'
<1>1. ASSUME NEW s \in States, NEW i \in Ids, NotifyByHand(w, s, i) \/ DeliverWithProfile(w, s, i)
      PROVE  TypeInv'
  <2>1. ProfileOf(i) \in Offered \cup {Default}
    BY ProfileTypes DEF TypeInv
  <2>2. \A c \in Classes : Jobs(ProfileOf(i), c) \in Seq(JobSet)
    BY <2>1, JobsTypes
  <2>3. CASE NotifyByHand(w, s, i)
    <3>1. \E c \in Classes : Begin(w, Jobs(ProfileOf(i), c), FALSE, FALSE)
      BY <2>3 DEF NotifyByHand, Classes
    <3> QED BY <2>2, <3>1, BeginTypes
  <2>4. CASE DeliverWithProfile(w, s, i)
    <3>1. \E c \in Classes : Begin(w, Jobs(ProfileOf(i), c), TRUE, FALSE)
      BY <2>4, ClassTypes DEF DeliverWithProfile
    <3> QED BY <2>2, <3>1, BeginTypes
  <2> QED BY <1>1, <2>3, <2>4
<1> QED BY <1>1, NotifyTypes, FlushTypes DEF Call

-----------------------------------------------------------------------------
(***************************************************************************)
(* A line at the end of the file, and the end of the file taken away.      *)
(***************************************************************************)
LEMMA AppendFacts ==
  ASSUME TypeOK, NEW r \in Record, records' = Append(records, r)
  PROVE  /\ records' \in Seq(Record) /\ records' # <<>> /\ Len(records) \in Nat
         /\ DOMAIN records = 1..Len(records) /\ DOMAIN records' = 1..(Len(records) + 1)
         /\ \A n \in 1..Len(records) : records'[n] = records[n]
         /\ records'[Len(records) + 1] = r
BY AppendProperties DEF TypeOK

LEMMA FrontFacts ==
  ASSUME TypeOK, records # <<>>, records' = Front(records)
  PROVE  /\ records' \in Seq(Record) /\ Len(records) \in Nat /\ Len(records) >= 1
         /\ DOMAIN records = 1..Len(records) /\ DOMAIN records' = 1..(Len(records) - 1)
         /\ \A n \in 1..(Len(records) - 1) : records'[n] = records[n]
<1>1. records \in Seq(Record) /\ Len(records) \in Nat /\ Len(records) # 0
  BY EmptySeq DEF TypeOK
<1>2. \A n \in 1..(Len(records) - 1) : records[n] \in Record
  BY <1>1
<1>3. records' = SubSeq(records, 1, Len(records) - 1)
  BY DEF Front
<1>4. 1 \in Int /\ Len(records) - 1 \in Int
  BY <1>1
<1>5. /\ records' \in Seq(Record)
      /\ Len(records') = IF 1 <= Len(records) - 1 THEN Len(records) - 1 - 1 + 1 ELSE 0
      /\ \A n \in 1..(Len(records) - 1 - 1 + 1) : records'[n] = records[1 + n - 1]
  BY <1>2, <1>3, <1>4, SubSeqProperties
<1>6. Len(records') = Len(records) - 1
  <2> DEFINE l == Len(records)
             m == Len(records')
  <2>1. l \in Nat /\ l # 0 /\ m = IF 1 <= l - 1 THEN l - 1 - 1 + 1 ELSE 0
    BY <1>1, <1>5
  <2> HIDE DEF l, m
  <2>2. m = l - 1
    BY <2>1
  <2> QED BY <2>2 DEF l, m
<1>7. \A n \in 1..(Len(records) - 1) : n \in 1..(Len(records) - 1 - 1 + 1) /\ 1 + n - 1 = n
  BY <1>1
<1> QED BY <1>1, <1>5, <1>6, <1>7

LEMMA LineFacts ==
  ASSUME TypeInv, NEW w \in Workers, pc[w] = "write"
  PROVE  /\ Line(w) \in Record /\ Line(w).key = Key(w) /\ Line(w).status = mem[w].status
         /\ Line(w).attempt = NextAttempt(Key(w))
         /\ Line(w).status = "queued" => Line(w).attempt <= Most
<1>1. Key(w) \in Keys /\ mem[w] \in Work
  BY HeadJob
<1>2. WorkerInv(w) /\ TypeOK
  BY DEF TypeInv
<1>3. NextAttempt(Key(w)) \in Nat /\ NextAttempt(Key(w)) >= 1
  BY <1>2, NextAttemptFacts
<1>4. NextAttempt(Key(w)) \in 1..(Most + 1) /\ mem[w].status \in Statuses /\ mem[w].again \in BOOLEAN
  BY <1>1, <1>2, <1>3, MostFacts DEF WorkerInv, Busy, Work
<1>5. mem[w].status = "queued" => NextAttempt(Key(w)) <= Most
  BY <1>2 DEF WorkerInv, Busy
<1> QED BY <1>1, <1>4, <1>5 DEF Line, Record

\* What a line that is lost adds to the count.
LEMMA MissedFacts ==
  ASSUME TypeOK, NEW r \in Record, Missed(r)
  PROVE  /\ unrecorded' \in [Keys -> Nat]
         /\ \A k \in Keys : unrecorded'[k] = unrecorded[k] + (IF r.key = k /\ IsRound(r) THEN 1 ELSE 0)
BY DEF TypeOK, Missed, Miss, Record

Spoiled(k, r) == {x \in {Last(records), r} : x.key = k /\ IsRound(x)}

LEMMA SpoiledFacts ==
  ASSUME TypeOK, records # <<>>, NEW r \in Record, NEW k
  PROVE  IsFiniteSet(Spoiled(k, r)) /\ Cardinality(Spoiled(k, r)) \in Nat
<1>1. IsFiniteSet({Last(records)} \cup {r})
  BY FS_Singleton, FS_AddElement
<1>2. Spoiled(k, r) \in SUBSET ({Last(records)} \cup {r})
  BY DEF Spoiled
<1> QED BY <1>1, <1>2, FS_Subset, FS_CardinalityType

LEMMA AppendedFacts ==
  ASSUME TypeOK, QueuedInTime, NEW r \in Record, r.status = "queued" => r.attempt <= Most,
         Appended(r), torn # "char"
  PROVE  /\ records' \in Seq(Record) /\ torn' \in {"no", "line", "end", "char"}
         /\ torn' = "end" => records' # <<>>
         /\ young' \in Nat \ {0}
         /\ unrecorded' \in [Keys -> Nat]
         /\ QueuedInTime'
<1>1. CASE UNCHANGED <<store, unrecorded>>
  BY <1>1 DEF store, TypeOK, QueuedInTime
<1>2. CASE records' = Append(records, r) /\ torn = "no" /\ UNCHANGED <<torn, young, unrecorded>>
  BY <1>2, AppendFacts DEF TypeOK, QueuedInTime
<1>3. CASE torn = "line" /\ torn' = "no" /\ Missed(r) /\ UNCHANGED <<records, young>>
  BY <1>3, MissedFacts DEF TypeOK, QueuedInTime
<1>4. CASE /\ torn = "end" /\ torn' = "no" /\ records' = Front(records)
           /\ young' = Min({young, Len(records)})
           /\ unrecorded' = [k \in Keys |-> unrecorded[k] + Cardinality(Spoiled(k, r))]
  <2>1. records # <<>>
    BY <1>4 DEF TypeOK
  <2>2. records' \in Seq(Record) /\ QueuedInTime'
    BY <1>4, <2>1, FrontFacts DEF QueuedInTime
  <2>3. young' \in Nat \ {0}
    <3> DEFINE S == {young, Len(records)}
    <3>1. S \subseteq Nat \ {0}
      BY <2>1, <1>4, FrontFacts DEF TypeOK
    <3>2. \E x \in S : \A y \in S : x =< y
      BY <3>1
    <3>3. Min(S) \in S
      BY <3>2 DEF Min
    <3> HIDE DEF S
    <3>4. young' = Min(S)
      BY <1>4 DEF S
    <3> QED BY <3>1, <3>3, <3>4
  <2>4. unrecorded' \in [Keys -> Nat]
    <3>1. \A k \in Keys : unrecorded[k] \in Nat /\ Cardinality(Spoiled(k, r)) \in Nat
      BY <2>1, SpoiledFacts DEF TypeOK
    <3> QED BY <1>4, <3>1
  <2> QED BY <1>4, <2>2, <2>3, <2>4
<1> QED BY <1>1, <1>2, <1>3, <1>4 DEF Appended, Spoiled, TypeOK

-----------------------------------------------------------------------------
(***************************************************************************)
(* Every step keeps the types.                                             *)
(***************************************************************************)
LEMMA SaveTypes ==
  ASSUME TypeInv, NEW i \in Ids, NEW p \in Offered, SaveProfile(i, p)
  PROVE  TypeInv'
<1>1. profiles' \in [Ids -> Offered \cup {None}]
  BY DEF SaveProfile, TypeInv, TypeOK
<1>2. Configured' \in SUBSET (Configured \cup {i})
  BY DEF SaveProfile, Configured, TypeInv, TypeOK
<1>3. IsFiniteSet(Configured')
  <2>1. IsFiniteSet(Configured \cup {i})
    BY FS_AddElement DEF TypeInv, TypeOK
  <2> DEFINE now == Configured'
  <2>2. now \in SUBSET (Configured \cup {i})
    BY <1>2
  <2> HIDE DEF now
  <2>3. IsFiniteSet(now)
    BY <2>1, <2>2, FS_Subset
  <2> QED BY <2>3 DEF now
<1>4. TypeOK'
  BY <1>1, <1>3 DEF SaveProfile, TypeInv, TypeOK, store
<1>5. QueuedInTime'
  BY DEF SaveProfile, TypeInv, QueuedInTime, store
<1>6. ASSUME NEW w \in Workers PROVE WorkerInv(w)'
  <2>1. Moves(w) /\ records' = records /\ torn' = torn /\ lock' = lock /\ mem' = mem /\ pc' = pc
    BY DEF SaveProfile, Moves, store
  <2>2. NextAttempt(Key(w))' = NextAttempt(Key(w))
    BY <2>1 DEF NextAttempt, Key, Job, Of
  <2>3. WorkerInv(w) /\ Key(w)' = Key(w)
    BY <2>1 DEF TypeInv, Key, Job
  <2> QED BY <2>1, <2>2, <2>3 DEF WorkerInv
<1> QED BY <1>4, <1>5, <1>6 DEF TypeInv

\* What a look finds of a key that is not settled.
LEMMA LookFacts ==
  ASSUME TypeInv, NEW w \in Workers, MayLook(w), ~Settled(w)
  PROVE  /\ NextAttempt(Key(w)) <= Most + 1
         /\ ~mem[w].flush => NextAttempt(Key(w)) <= Most
<1>1. TypeOK /\ WorkerInv(w) /\ QueuedInTime /\ pc[w] # "idle"
  BY DEF TypeInv, MayLook
<1>2. NextAttempt(Key(w)) \in Nat
  BY <1>1, NextAttemptFacts
<1>3. Job(w).max \in 0..Most /\ Most \in Nat
  BY <1>1, HeadJob, MostFacts DEF JobSet
<1>4. CASE ~mem[w].flush
  <2>1. ~(NextAttempt(Key(w)) > Job(w).max)
    BY <1>4 DEF Settled
  <2> QED BY <1>2, <1>3, <2>1
<1>5. CASE mem[w].flush
  <2>1. LatestDelivery(Key(w)).status = "queued"
    BY <1>5 DEF Settled
  <2>2. Of(Key(w)) # {} /\ torn # "char"
    BY <2>1, NotificationsAssumption DEF LatestDelivery, Nothing
  <2>3. PICK n \in Of(Key(w)) : /\ LatestDelivery(Key(w)) = records[n]
                               /\ \A m \in Of(Key(w)) : records[m].attempt <= records[n].attempt
    BY <1>1, <2>2, LatestFacts
  <2>4. records[n].attempt <= Most /\ \A m \in Of(Key(w)) : records[m].attempt \in 1..(Most + 1)
    BY <1>1, <2>1, <2>3, OfFacts DEF QueuedInTime, Record
  <2>5. \A m \in Of(Key(w)) : records[m].attempt <= Most
    BY <1>3, <2>3, <2>4
  <2> QED BY <1>1, <1>3, <1>5, <2>5, NextAttemptFacts
<1> QED BY <1>4, <1>5

LEMMA SkipTypes ==
  ASSUME TypeInv, NEW w \in Workers, Skip(w)
  PROVE  TypeInv'
<1>1. /\ pc[w] = "next" /\ lock = None /\ GoOn(w)
      /\ UNCHANGED <<profiles, records, torn, young, lock, bounds, rounds, unrecorded>>
  BY DEF Skip, MayLook, store
<1>2. /\ mem' \in [Workers -> Work] /\ pc' \in [Workers -> Points]
      /\ Moves(w) /\ WorkerInv(w)'
  BY <1>1, GoOnFacts
<1>3. \A v \in Workers \ {w} : WorkerInv(v)'
  BY <1>1, <1>2, OthersKept
<1>4. TypeOK' /\ QueuedInTime'
  BY <1>1, <1>2 DEF TypeInv, TypeOK, QueuedInTime, bounds, Configured
<1> QED BY <1>2, <1>3, <1>4 DEF TypeInv

\* A look that takes the lock.
LEMMA TakenTypes ==
  ASSUME TypeInv, NEW w \in Workers, MayLook(w), ~Settled(w), lock' = w,
         UNCHANGED <<profiles, records, torn, young, bounds, unrecorded>>,
         NEW p \in Busy, pc' = [pc EXCEPT ![w] = p],
         mem' \in [Workers -> Work], Moves(w),
         mem'[w].jobs = mem[w].jobs, mem'[w].flush = mem[w].flush,
         mem'[w].transport = mem[w].transport,
         p = "write" => /\ mem'[w].status \in Statuses
                        /\ mem'[w].status = "queued" => ~mem[w].flush,
         rounds' \in [Keys -> Nat]
  PROVE  TypeInv'
<1>1. TypeOK /\ WorkerInv(w) /\ pc[w] = "next" /\ lock = None /\ pc'[w] = p
  BY DEF TypeInv, TypeOK, MayLook
<1>2. Key(w)' = Key(w)
  BY DEF Key, Job
<1>3. NextAttempt(Key(w))' = NextAttempt(Key(w))
  BY <1>2 DEF NextAttempt, Of
<1>4. /\ NextAttempt(Key(w)) <= Most + 1
      /\ ~mem[w].flush => NextAttempt(Key(w)) <= Most
  BY LookFacts
<1>5. WorkerInv(w)'
  BY <1>1, <1>2, <1>3, <1>4 DEF WorkerInv
<1>6. \A v \in Workers \ {w} : WorkerInv(v)'
  BY <1>1, NobodyElse, OthersKept
<1>7. TypeOK' /\ QueuedInTime'
  BY <1>1 DEF TypeInv, TypeOK, QueuedInTime, bounds, Configured, Busy, Points
<1> QED BY <1>5, <1>6, <1>7 DEF TypeInv

LEMMA QueueTypes ==
  ASSUME TypeInv, NEW w \in Workers, Queue(w)
  PROVE  TypeInv'
<1> DEFINE work == [mem[w] EXCEPT !.status = "queued", !.again = TRUE]
<1>1. MayLook(w) /\ pc[w] # "idle" /\ WorkerInv(w) /\ mem[w] \in Work /\ mem \in [Workers -> Work]
  BY DEF Queue, MayLook, TypeInv, TypeOK
<1>2. mem' = [mem EXCEPT ![w] = work]
  BY <1>1 DEF Queue, Result
<1>3. /\ work \in Work /\ work.jobs = mem[w].jobs /\ work.flush = mem[w].flush
      /\ work.transport = mem[w].transport /\ work.status = "queued"
  BY <1>1 DEF Work, Statuses
<1> HIDE DEF work
<1>4. ~mem[w].flush
  <2>1. Job(w) = mem[w].jobs[1] /\ 1 \in DOMAIN mem[w].jobs
    <3>1. mem[w].jobs \in Seq(JobSet) /\ mem[w].jobs # <<>>
      BY <1>1, HeadJob
    <3> QED BY <3>1 DEF Job
  <2> QED BY <1>1, <2>1 DEF Queue, WorkerInv
<1>5. mem'[w] = work /\ Moves(w) /\ mem' \in [Workers -> Work]
  BY <1>1, <1>2, <1>3 DEF Moves, Queue, Goto
<1>6. rounds' \in [Keys -> Nat]
  BY DEF Queue, TypeInv, TypeOK
<1>7. /\ lock' = w /\ pc' = [pc EXCEPT ![w] = "write"] /\ ~Settled(w)
      /\ UNCHANGED <<profiles, records, torn, young, bounds, unrecorded>>
  BY DEF Queue, Goto, store
<1> QED BY <1>1, <1>3, <1>4, <1>5, <1>6, <1>7, TakenTypes DEF Busy, Statuses

LEMMA SendTypes ==
  ASSUME TypeInv, NEW w \in Workers, Send(w)
  PROVE  TypeInv'
<1>1. MayLook(w) /\ pc[w] # "idle" /\ mem' = mem /\ mem \in [Workers -> Work]
  BY DEF Send, MayLook, TypeInv, TypeOK
<1>2. Key(w) \in Keys
  BY <1>1, HeadJob
<1>3. rounds' \in [Keys -> Nat]
  BY <1>2 DEF Send, TypeInv, TypeOK
<1>4. /\ lock' = w /\ pc' = [pc EXCEPT ![w] = "send"] /\ ~Settled(w) /\ Moves(w)
      /\ UNCHANGED <<profiles, records, torn, young, bounds, unrecorded>>
  BY DEF Send, Goto, store, Moves, TypeInv, TypeOK
<1> QED BY <1>1, <1>3, <1>4, TakenTypes DEF Busy

LEMMA SentTypes ==
  ASSUME TypeInv, NEW w \in Workers, NEW ok \in BOOLEAN, NEW passing \in BOOLEAN,
         Sent(w, ok, passing)
  PROVE  TypeInv'
<1> DEFINE last == ~mem[w].flush /\ NextAttempt(Key(w)) >= Job(w).max
           st == IF ok THEN "delivered" ELSE "failed"
           ag == ~ok /\ passing /\ ~last
           work == [mem[w] EXCEPT !.status = st, !.again = ag]
<1>1. pc[w] = "send" /\ WorkerInv(w) /\ mem[w] \in Work /\ mem \in [Workers -> Work]
      /\ pc \in [Workers -> Points]
  BY DEF Sent, TypeInv, TypeOK
<1>2. mem' = [mem EXCEPT ![w] = work]
  BY <1>1 DEF Sent, Result
<1>3. ag \in BOOLEAN /\ st \in {"delivered", "failed"}
  OBVIOUS
<1> HIDE DEF ag, st
<1>4. /\ work \in Work /\ work.jobs = mem[w].jobs /\ work.flush = mem[w].flush
      /\ work.transport = mem[w].transport /\ work.status = st
  BY <1>1, <1>3 DEF Work, Statuses
<1> HIDE DEF work
<1>5. mem'[w] = work /\ pc'[w] = "write" /\ Moves(w)
  BY <1>1, <1>2 DEF Moves, Sent, Goto
<1>6. /\ UNCHANGED <<profiles, records, torn, young, lock, bounds, rounds, unrecorded>>
      /\ mem' \in [Workers -> Work] /\ pc' \in [Workers -> Points]
  BY <1>1, <1>2, <1>4 DEF Sent, Goto, store, Points
<1>7. Key(w)' = Key(w)
  BY <1>4, <1>5 DEF Key, Job
<1>8. NextAttempt(Key(w))' = NextAttempt(Key(w))
  BY <1>6, <1>7 DEF NextAttempt, Of
<1>9. WorkerInv(w)'
  BY <1>1, <1>3, <1>4, <1>5, <1>6, <1>7, <1>8 DEF WorkerInv, Busy, Statuses
<1>10. \A v \in Workers \ {w} : WorkerInv(v)'
  BY <1>5, <1>6, OthersKept
<1>11. TypeOK' /\ QueuedInTime'
  BY <1>6 DEF TypeInv, TypeOK, QueuedInTime, bounds, Configured
<1> QED BY <1>9, <1>10, <1>11 DEF TypeInv

LEMMA WriteTypes ==
  ASSUME TypeInv, NEW w \in Workers, Write(w)
  PROVE  TypeInv'
<1>1. /\ pc[w] = "write" /\ pc[w] # "idle" /\ torn # "char" /\ Appended(Line(w)) /\ GoOn(w)
      /\ lock' = None /\ UNCHANGED <<profiles, bounds, rounds>>
  BY DEF Write, WriteFails, Unreadable
<1>2. Line(w) \in Record /\ (Line(w).status = "queued" => Line(w).attempt <= Most)
  BY <1>1, LineFacts
<1>3. /\ records' \in Seq(Record) /\ torn' \in {"no", "line", "end", "char"}
      /\ torn' = "end" => records' # <<>>
      /\ young' \in Nat \ {0} /\ unrecorded' \in [Keys -> Nat] /\ QueuedInTime'
  BY <1>1, <1>2, AppendedFacts DEF TypeInv
<1>4. /\ mem' \in [Workers -> Work] /\ pc' \in [Workers -> Points]
      /\ Moves(w) /\ WorkerInv(w)'
  BY <1>1, GoOnFacts
<1>5. \A v \in Workers \ {w} : WorkerInv(v)'
  BY <1>1, <1>4, NobodyElse, OthersKept DEF Busy
<1>6. TypeOK'
  BY <1>1, <1>3, <1>4 DEF TypeInv, TypeOK, bounds, Configured
<1> QED BY <1>3, <1>4, <1>5, <1>6 DEF TypeInv

\* A worker whose call ends.
LEMMA EndedFacts ==
  ASSUME TypeInv, NEW w \in Workers, pc' = [pc EXCEPT ![w] = "idle"],
         mem' = [mem EXCEPT ![w] = NoWork]
  PROVE  /\ mem' \in [Workers -> Work] /\ pc' \in [Workers -> Points]
         /\ Moves(w) /\ WorkerInv(w)'
<1>1. mem \in [Workers -> Work] /\ pc \in [Workers -> Points] /\ NoWork \in Work
  BY DEF TypeInv, TypeOK, NoWork, Work
<1> QED BY <1>1 DEF Moves, WorkerInv, NoWork, Points, Busy

LEMMA WriteRaisesTypes ==
  ASSUME TypeInv, NEW w \in Workers, WriteRaises(w)
  PROVE  TypeInv'
<1>1. /\ pc[w] = "write" /\ Missed(Line(w)) /\ lock' = None
      /\ pc' = [pc EXCEPT ![w] = "idle"] /\ mem' = [mem EXCEPT ![w] = NoWork]
      /\ UNCHANGED <<profiles, records, torn, young, bounds, rounds>>
  BY DEF WriteRaises, Goto, store
<1>2. unrecorded' \in [Keys -> Nat]
  BY <1>1, LineFacts, MissedFacts DEF TypeInv
<1>3. /\ mem' \in [Workers -> Work] /\ pc' \in [Workers -> Points]
      /\ Moves(w) /\ WorkerInv(w)'
  BY <1>1, EndedFacts
<1>4. \A v \in Workers \ {w} : WorkerInv(v)'
  BY <1>1, <1>3, NobodyElse, OthersKept DEF Busy
<1>5. TypeOK' /\ QueuedInTime'
  BY <1>1, <1>2, <1>3 DEF TypeInv, TypeOK, bounds, Configured, QueuedInTime
<1> QED BY <1>3, <1>4, <1>5 DEF TypeInv

LEMMA GoneFacts ==
  ASSUME TypeInv, NEW w \in Workers, Gone(w)
  PROVE  /\ mem' \in [Workers -> Work] /\ pc' \in [Workers -> Points]
         /\ Moves(w) /\ WorkerInv(w)'
         /\ lock' \in Workers \cup {None}
         /\ lock # w => lock' = lock
         /\ crashes' \in Nat /\ UNCHANGED <<profiles, calls, saves, rounds>>
<1>1. pc' = [pc EXCEPT ![w] = "idle"] /\ mem' = [mem EXCEPT ![w] = NoWork]
  BY DEF Gone, Goto
<1>2. /\ lock' \in Workers \cup {None}
      /\ lock # w => lock' = lock
      /\ crashes' \in Nat /\ UNCHANGED <<profiles, calls, saves, rounds>>
  BY DEF Gone, TypeInv, TypeOK
<1> QED BY <1>1, <1>2, EndedFacts

LEMMA DieTypes ==
  ASSUME TypeInv, NEW w \in Workers, Die(w)
  PROVE  TypeInv'
<1>1. pc[w] # "idle" /\ Gone(w) /\ records' = records /\ torn' = torn /\ young' = young
  BY DEF Die, store
<1>2. unrecorded' \in [Keys -> Nat]
  <2>1. CASE pc[w] = "next" /\ UNCHANGED unrecorded
    BY <2>1 DEF TypeInv, TypeOK
  <2>2. CASE pc[w] = "send" /\ unrecorded' = Miss(Key(w))
    <3>1. Key(w) \in Keys
      BY <1>1, HeadJob
    <3> QED BY <2>2, <3>1 DEF Miss, TypeInv, TypeOK
  <2>3. CASE pc[w] = "write" /\ Missed(Line(w))
    BY <2>3, LineFacts, MissedFacts DEF TypeInv
  <2> QED BY <2>1, <2>2, <2>3 DEF Die
<1>3. /\ mem' \in [Workers -> Work] /\ pc' \in [Workers -> Points]
      /\ Moves(w) /\ WorkerInv(w)'
      /\ lock' \in Workers \cup {None} /\ (lock # w => lock' = lock)
      /\ crashes' \in Nat /\ UNCHANGED <<profiles, calls, saves, rounds>>
  BY <1>1, GoneFacts
<1>4. \A v \in Workers \ {w} : WorkerInv(v)'
  <2>1. CASE lock # w
    BY <1>1, <1>3, <2>1, OthersKept
  <2>2. CASE lock = w
    <3>1. \A v \in Workers \ {w} : pc[v] \notin Busy
      BY <2>2 DEF TypeInv, WorkerInv
    <3> QED BY <1>3, <3>1, OthersKept
  <2> QED BY <2>1, <2>2
<1>5. TypeOK' /\ QueuedInTime'
  BY <1>1, <1>2, <1>3 DEF TypeInv, TypeOK, Configured, QueuedInTime
<1> QED BY <1>3, <1>4, <1>5 DEF TypeInv

LEMMA DieInWriteTypes ==
  ASSUME TypeInv, NEW w \in Workers, NEW how \in {"line", "end", "char"}, DieInWrite(w, how)
  PROVE  TypeInv'
<1>1. /\ pc[w] = "write" /\ Gone(w) /\ torn' = how
      /\ \/ how = "end" /\ records' = Append(records, Line(w)) /\ UNCHANGED <<young, unrecorded>>
         \/ how # "end" /\ Missed(Line(w)) /\ UNCHANGED <<records, young>>
  BY DEF DieInWrite
<1>2. Line(w) \in Record /\ (Line(w).status = "queued" => Line(w).attempt <= Most)
  BY <1>1, LineFacts
<1>3. /\ records' \in Seq(Record) /\ torn' \in {"no", "line", "end", "char"}
      /\ torn' = "end" => records' # <<>>
      /\ young' \in Nat \ {0} /\ unrecorded' \in [Keys -> Nat] /\ QueuedInTime'
  <2>1. CASE how = "end"
    <3>1. TypeOK /\ QueuedInTime /\ records' = Append(records, Line(w))
      BY <1>1, <2>1 DEF TypeInv
    <3> DEFINE r == Line(w)
               l == Len(records)
    <3> HIDE DEF r
    <3>2. r \in Record /\ (r.status = "queued" => r.attempt <= Most) /\ records' = Append(records, r)
      BY <1>2, <3>1 DEF r
    <3>3. /\ records' \in Seq(Record) /\ records' # <<>> /\ l \in Nat
          /\ DOMAIN records = 1..l /\ DOMAIN records' = 1..(l + 1)
          /\ \A n \in 1..l : records'[n] = records[n]
          /\ records'[l + 1] = r
      BY <3>1, <3>2, AppendFacts
    <3>4. QueuedInTime'
      BY <3>1, <3>2, <3>3 DEF QueuedInTime
    <3> QED BY <1>1, <2>1, <3>1, <3>3, <3>4 DEF TypeOK
  <2>2. CASE how # "end"
    BY <1>1, <1>2, <2>2, MissedFacts DEF TypeInv, TypeOK, QueuedInTime
  <2> QED BY <2>1, <2>2
<1>4. /\ mem' \in [Workers -> Work] /\ pc' \in [Workers -> Points]
      /\ Moves(w) /\ WorkerInv(w)' /\ lock' \in Workers \cup {None}
      /\ crashes' \in Nat /\ UNCHANGED <<profiles, calls, saves, rounds>>
  BY <1>1, GoneFacts
<1>5. \A v \in Workers \ {w} : WorkerInv(v)'
  BY <1>1, <1>4, NobodyElse, OthersKept DEF Busy
<1>6. TypeOK'
  BY <1>3, <1>4 DEF TypeInv, TypeOK, Configured
<1> QED BY <1>3, <1>4, <1>5, <1>6 DEF TypeInv

LEMMA SameTypes ==
  ASSUME TypeInv, young' \in Nat \ {0},
         UNCHANGED <<profiles, records, torn, lock, pc, mem, bounds, rounds, unrecorded>>
  PROVE  TypeInv'
<1>1. TypeOK' /\ QueuedInTime'
  BY DEF TypeInv, TypeOK, bounds, Configured, QueuedInTime
<1>2. ASSUME NEW w \in Workers PROVE WorkerInv(w)'
  <2>1. NextAttempt(Key(w))' = NextAttempt(Key(w)) /\ Key(w)' = Key(w)
    BY DEF NextAttempt, Key, Job, Of
  <2> QED BY <2>1 DEF TypeInv, WorkerInv
<1> QED BY <1>1, <1>2 DEF TypeInv

LEMMA InitTypes ==
  ASSUME Init
  PROVE  TypeInv
<1>1. Configured = {} /\ IsFiniteSet(Configured)
  BY FS_EmptySet DEF Init, Configured
<1>2. NoWork \in Work
  BY DEF NoWork, Work
<1> QED BY <1>1, <1>2 DEF Init, TypeInv, TypeOK, QueuedInTime, WorkerInv, NoWork, Points, Busy

LEMMA NextTypes ==
  ASSUME TypeInv, [Next]_vars
  PROVE  TypeInv'
<1>1. ASSUME NEW w \in Workers, Step(w) PROVE TypeInv'
  BY <1>1, SkipTypes, QueueTypes, SendTypes, SentTypes, WriteTypes, WriteRaisesTypes DEF Step
<1>2. CASE Age
  BY <1>2, SameTypes DEF Age, TypeInv, TypeOK
<1>3. CASE UNCHANGED vars
  BY <1>3, SameTypes DEF vars, store, TypeInv, TypeOK
<1> QED BY <1>1, <1>2, <1>3, SaveTypes, CallTypes, DieTypes, DieInWriteTypes DEF Next

\* Every state has the types of its variables; a worker that sends or records has the lock of
\* the delivery file, and no attempt is above the one after the most patient profile's last.
THEOREM TypesHold == Spec => []TypeInv
<1>1. Init => TypeInv
  BY InitTypes
<1>2. TypeInv /\ [Next]_vars => TypeInv'
  BY NextTypes
<1> QED BY <1>1, <1>2, PTL DEF Spec

-----------------------------------------------------------------------------
(***************************************************************************)
(* The lines of one key, and what a worker saw of them.                    *)
(***************************************************************************)
\* Of two lines of one key the later has the higher attempt, and none follows a delivery.
OneStory ==
  \A n, m \in DOMAIN records :
    n < m /\ records[n].key = records[m].key =>
      records[n].status # "delivered" /\ records[n].attempt < records[m].attempt

\* A worker sends and records what the file, if it can be read, does not call delivered.
LookInv(w) == pc[w] \in Busy /\ torn # "char" => ~Told(Key(w))

StoryInv == OneStory /\ \A w \in Workers : LookInv(w)

\* A delivery is the latest record of its key, so a look settles the key.
LEMMA ToldIsSettled ==
  ASSUME TypeInv, OneStory, NEW w \in Workers, MayLook(w), torn # "char", Told(Key(w))
  PROVE  Settled(w)
<1> DEFINE k == Key(w)
<1>1. TypeOK /\ k \in Keys
  BY HeadJob DEF TypeInv, MayLook
<1> HIDE DEF k
<1>2. PICK n \in Of(k) : records[n].status = "delivered"
  BY DEF Told, k
<1>3. PICK l \in Of(k) : /\ LatestDelivery(k) = records[l]
                        /\ \A m \in Of(k) : records[m].attempt <= records[l].attempt
  BY <1>1, <1>2, LatestFacts
<1>4. /\ n \in 1..Len(records) /\ l \in 1..Len(records) /\ Len(records) \in Nat
      /\ DOMAIN records = 1..Len(records) /\ records[n].key = k /\ records[l].key = k
      /\ records[n].attempt \in Nat /\ records[l].attempt \in Nat
      /\ records[n].attempt <= records[l].attempt
  <2>1. n \in 1..Len(records) /\ l \in 1..Len(records)
    BY <1>1, <1>2, <1>3, OfFacts
  <2>2. \A m \in DOMAIN records : records[m].attempt \in 1..(Most + 1)
    BY <1>1, OfFacts DEF Record
  <2> QED BY <1>1, <1>2, <1>3, <2>1, <2>2, OfFacts, MostFacts DEF Of
<1>5. ~(n < l) /\ ~(l < n)
  BY <1>2, <1>4 DEF OneStory
<1>6. n = l
  BY <1>4, <1>5
<1>7. LatestDelivery(Key(w)).status = "delivered"
  BY <1>2, <1>3, <1>6 DEF k
<1> QED BY <1>7 DEF Settled

\* What a worker with the lock records is accepted.
LEMMA LineIsAccepted ==
  ASSUME TypeInv, StoryInv, NEW w \in Workers, pc[w] = "write", torn # "char"
  PROVE  Accepts(Line(w))
<1>1. ~Told(Key(w)) /\ TypeOK
  BY DEF StoryInv, LookInv, Busy, TypeInv
<1>2. \A n \in Of(Key(w)) : records[n].attempt < NextAttempt(Key(w))
  BY <1>1, NextAttemptFacts
<1>3. Line(w).key = Key(w) /\ Line(w).attempt = NextAttempt(Key(w))
  BY LineFacts
<1> QED BY <1>1, <1>2, <1>3 DEF Accepts, Told

LEMMA AppendStory ==
  ASSUME TypeOK, OneStory, NEW r \in Record, Accepts(r), records' = Append(records, r)
  PROVE  OneStory'
<1> DEFINE l == Len(records)
<1>1. /\ l \in Nat /\ DOMAIN records = 1..l /\ DOMAIN records' = 1..(l + 1)
      /\ \A n \in 1..l : records'[n] = records[n]
      /\ records'[l + 1] = r
  BY AppendFacts
<1>2. \A n \in 1..l : records[n].key = r.key =>
        records[n].status # "delivered" /\ records[n].attempt < r.attempt
  BY <1>1 DEF Accepts, Of
<1> HIDE DEF l
<1>3. SUFFICES ASSUME NEW n \in 1..(l + 1), NEW m \in 1..(l + 1), n < m,
                      records'[n].key = records'[m].key
               PROVE  records'[n].status # "delivered" /\ records'[n].attempt < records'[m].attempt
  BY <1>1 DEF OneStory
<1>4. n \in 1..l
  BY <1>1, <1>3
<1>5. CASE m \in 1..l
  BY <1>1, <1>3, <1>4, <1>5 DEF OneStory
<1>6. CASE m = l + 1
  BY <1>1, <1>2, <1>3, <1>4, <1>6
<1> QED BY <1>1, <1>5, <1>6

LEMMA FrontStory ==
  ASSUME TypeOK, OneStory, records # <<>>, records' = Front(records)
  PROVE  OneStory'
<1>1. /\ Len(records) \in Nat /\ DOMAIN records = 1..Len(records)
      /\ DOMAIN records' = 1..(Len(records) - 1)
      /\ \A n \in 1..(Len(records) - 1) : records'[n] = records[n] /\ n \in 1..Len(records)
  BY FrontFacts
<1> QED BY <1>1 DEF OneStory

LEMMA AppendedStory ==
  ASSUME TypeOK, OneStory, NEW r \in Record, Appended(r), torn # "char"
  PROVE  OneStory' /\ torn' # "char"
<1>1. CASE UNCHANGED <<store, unrecorded>>
  BY <1>1 DEF store, OneStory
<1>2. CASE Accepts(r) /\ records' = Append(records, r) /\ UNCHANGED torn
  BY <1>2, AppendStory
<1>3. CASE torn' = "no" /\ UNCHANGED records
  BY <1>3 DEF OneStory
<1>4. CASE torn = "end" /\ torn' = "no" /\ records' = Front(records)
  BY <1>4, FrontStory DEF TypeOK
<1> QED BY <1>1, <1>2, <1>3, <1>4 DEF Appended, TypeOK

\* The lines stay as they are, and who looks does so at what is not told.
LEMMA QuietStory ==
  ASSUME StoryInv, records' = records, torn' = torn,
         \A w \in Workers : pc'[w] \in Busy /\ torn # "char" =>
           \/ pc[w] \in Busy /\ mem'[w].jobs = mem[w].jobs
           \/ mem'[w].jobs = mem[w].jobs /\ ~Told(Key(w))
  PROVE  StoryInv'
<1>1. OneStory'
  BY DEF StoryInv, OneStory
<1>2. ASSUME NEW w \in Workers, pc'[w] \in Busy, torn # "char"
      PROVE  ~Told(Key(w))'
  <2>1. mem'[w].jobs = mem[w].jobs /\ ~Told(Key(w))
    BY <1>2 DEF StoryInv, LookInv
  <2>2. Key(w)' = Key(w)
    BY <2>1 DEF Key, Job
  <2> QED BY <2>1, <2>2 DEF Told, Of
<1> QED BY <1>1, <1>2 DEF StoryInv, LookInv

LEMMA StepStory ==
  ASSUME TypeInv, StoryInv, NEW w \in Workers, Step(w)
  PROVE  StoryInv'
<1>1. ASSUME MayLook(w), ~Settled(w), records' = records, torn' = torn, Moves(w),
             mem'[w].jobs = mem[w].jobs
      PROVE  StoryInv'
  <2>1. torn # "char" => ~Told(Key(w))
    BY <1>1, ToldIsSettled DEF StoryInv
  <2> QED BY <1>1, <2>1, QuietStory DEF Moves
<1>2. mem \in [Workers -> Work] /\ pc \in [Workers -> Points] /\ mem[w] \in Work
  BY DEF TypeInv, TypeOK
<1>3. CASE Skip(w)
  <2>1. pc[w] # "idle" /\ GoOn(w) /\ records' = records /\ torn' = torn
    BY <1>3 DEF Skip, MayLook, store
  <2>2. Moves(w) /\ pc'[w] \notin Busy
    BY <2>1, GoOnFacts
  <2> QED BY <2>1, <2>2, QuietStory DEF Moves
<1>4. CASE Queue(w)
  <2>1. Moves(w) /\ mem'[w].jobs = mem[w].jobs
    BY <1>2, <1>4 DEF Queue, Moves, Goto, Result, Work
  <2> QED BY <1>1, <1>4, <2>1 DEF Queue, store
<1>5. CASE Send(w)
  <2>1. Moves(w) /\ mem'[w].jobs = mem[w].jobs
    BY <1>2, <1>5 DEF Send, Moves, Goto
  <2> QED BY <1>1, <1>5, <2>1 DEF Send, store
<1>6. ASSUME NEW ok \in BOOLEAN, NEW passing \in BOOLEAN, Sent(w, ok, passing)
      PROVE  StoryInv'
  <2>1. Moves(w) /\ mem'[w].jobs = mem[w].jobs /\ pc[w] \in Busy
    BY <1>2, <1>6 DEF Sent, Moves, Goto, Result, Work, Busy
  <2>2. records' = records /\ torn' = torn
    BY <1>6 DEF Sent, store
  <2> QED BY <2>1, <2>2, QuietStory DEF Moves
<1>7. CASE Write(w)
  <2>1. /\ pc[w] = "write" /\ torn # "char" /\ Appended(Line(w)) /\ GoOn(w) /\ TypeOK
        /\ Line(w) \in Record
    BY <1>7, LineFacts DEF Write, WriteFails, Unreadable, TypeInv
  <2>2. OneStory'
    BY <2>1, AppendedStory DEF StoryInv
  <2>3. Moves(w) /\ pc'[w] \notin Busy
    BY <2>1, GoOnFacts
  <2>4. \A v \in Workers \ {w} : pc[v] \notin Busy
    BY <2>1, NobodyElse DEF Busy
  <2> QED BY <2>2, <2>3, <2>4 DEF StoryInv, LookInv, Moves
<1>8. CASE WriteRaises(w)
  <2>1. Moves(w) /\ pc'[w] \notin Busy /\ records' = records /\ torn' = torn
    BY <1>2, <1>8 DEF WriteRaises, Goto, Moves, Busy, store
  <2> QED BY <2>1, QuietStory DEF Moves
<1> QED BY <1>3, <1>4, <1>5, <1>6, <1>7, <1>8 DEF Step

LEMMA CallStory ==
  ASSUME TypeInv, StoryInv, NEW w \in Workers, Call(w)
  PROVE  StoryInv'
<1>1. pc' = [pc EXCEPT ![w] = "next"] /\ records' = records /\ torn' = torn /\ Moves(w)
  <2>1. \E jobs, t, f : Begin(w, jobs, t, f)
    BY DEF Call, NotifyPipelineEvent, NotifyByHand, DeliverWithProfile, FlushBatched
  <2> QED BY <2>1 DEF Begin, Goto, Moves, TypeInv, TypeOK, store
<1>2. pc'[w] \notin Busy
  BY <1>1 DEF Busy, TypeInv, TypeOK
<1> QED BY <1>1, <1>2, QuietStory DEF Moves

LEMMA DieStory ==
  ASSUME TypeInv, StoryInv, NEW w \in Workers, Die(w)
  PROVE  StoryInv'
<1>1. Gone(w) /\ records' = records /\ torn' = torn
  BY DEF Die, store
<1>2. Moves(w) /\ pc'[w] \notin Busy
  BY <1>1 DEF Gone, Goto, Moves, Busy, TypeInv, TypeOK
<1> QED BY <1>1, <1>2, QuietStory DEF Moves

LEMMA DieInWriteStory ==
  ASSUME TypeInv, StoryInv, NEW w \in Workers, NEW how \in {"line", "end", "char"},
         DieInWrite(w, how)
  PROVE  StoryInv'
<1>1. /\ pc[w] = "write" /\ Gone(w) /\ Accepts(Line(w)) /\ TypeOK /\ OneStory
      /\ records' = records \/ records' = Append(records, Line(w))
  BY DEF DieInWrite, TypeInv, StoryInv
<1>2. Line(w) \in Record
  BY <1>1, LineFacts
<1>3. OneStory'
  <2>1. CASE records' = records
    BY <1>1, <2>1 DEF OneStory
  <2>2. CASE records' = Append(records, Line(w))
    BY <1>1, <1>2, <2>2, AppendStory
  <2> QED BY <1>1, <2>1, <2>2
<1>4. Moves(w) /\ pc'[w] \notin Busy
  BY <1>1 DEF Gone, Goto, Moves, Busy, TypeInv, TypeOK
<1>5. \A v \in Workers \ {w} : pc[v] \notin Busy
  BY <1>1, NobodyElse DEF Busy
<1> QED BY <1>3, <1>4, <1>5 DEF StoryInv, LookInv, Moves

LEMMA NextStory ==
  ASSUME TypeInv, StoryInv, [Next]_vars
  PROVE  StoryInv'
<1>1. ASSUME records' = records, torn' = torn, pc' = pc, mem' = mem
      PROVE  StoryInv'
  BY <1>1, QuietStory
<1>2. ASSUME NEW i \in Ids, NEW p \in Offered, SaveProfile(i, p) PROVE StoryInv'
  BY <1>1, <1>2 DEF SaveProfile, store
<1>3. CASE Age \/ UNCHANGED vars
  BY <1>1, <1>3 DEF Age, vars, store
<1> QED BY <1>2, <1>3, StepStory, CallStory, DieStory, DieInWriteStory DEF Next

\* In the delivery file the attempts of a key grow from line to line, nothing follows a delivery,
\* and a worker that sends or records holds what is not yet delivered.
THEOREM StoryHolds == Spec => [](TypeInv /\ StoryInv)
<1>1. Init => TypeInv /\ StoryInv
  <2>1. Init => StoryInv
    BY DEF Init, StoryInv, OneStory, LookInv, Busy
  <2> QED BY <2>1, InitTypes
<1>2. TypeInv /\ StoryInv /\ [Next]_vars => (TypeInv /\ StoryInv)'
  BY NextTypes, NextStory
<1> QED BY <1>1, <1>2, PTL DEF Spec

\* Only Send begins a round of sending, and only for what its look did not settle.
LEMMA RoundsBegin ==
  ASSUME TypeInv, StoryInv, [Next]_vars, NEW k \in Keys, rounds'[k] > rounds[k], ~Unreadable
  PROVE  ~Told(k)
<1>1. rounds' # rounds
  BY DEF TypeInv, TypeOK
<1>2. ~UNCHANGED vars /\ ~Age /\ ~(\E i \in Ids, p \in Offered : SaveProfile(i, p))
  BY <1>1 DEF vars, Age, SaveProfile
<1>3. \A w \in Workers : ~Call(w)
  BY <1>1 DEF Call, NotifyPipelineEvent, NotifyByHand, DeliverWithProfile, FlushBatched, Begin
<1>4. \A w \in Workers, how \in {"line", "end", "char"} : ~Die(w) /\ ~DieInWrite(w, how)
  BY <1>1 DEF Die, DieInWrite, Gone
<1>5. PICK w \in Workers : Step(w)
  BY <1>2, <1>3, <1>4 DEF Next
<1>6. Send(w)
  BY <1>1, <1>5 DEF Step, Skip, Queue, Sent, Write, WriteRaises
<1>7. rounds' = [rounds EXCEPT ![Key(w)] = @ + 1] /\ Key(w) \in Keys /\ MayLook(w) /\ ~Settled(w)
  BY <1>6, HeadJob DEF Send, MayLook
<1>8. k = Key(w)
  BY <1>7 DEF TypeInv, TypeOK
<1> QED BY <1>7, <1>8, ToldIsSettled DEF StoryInv, Unreadable

\* DeliveredIsNotResent: no round of sending begins for what a readable file calls delivered.
THEOREM DeliveriesAreFinal == Spec => DeliveredIsNotResent
<1>1. TypeInv /\ StoryInv /\ [Next]_vars =>
        [\A k \in Keys : (rounds'[k] > rounds[k] /\ ~Unreadable) => ~Told(k)]_vars
  BY RoundsBegin
<1> QED BY <1>1, StoryHolds, PTL DEF Spec, DeliveredIsNotResent

-----------------------------------------------------------------------------
(***************************************************************************)
(* Every round of sending is counted once: it is on the file, under way,   *)
(* or lost.                                                                *)
(***************************************************************************)
Kept(k)   == {n \in Of(k) : IsRound(records[n])}
Flying(w) == pc[w] = "send" \/ (pc[w] = "write" /\ mem[w].status # "queued")
Flight(k) == {w \in Workers : Flying(w) /\ Key(w) = k}
One(p)    == IF p THEN 1 ELSE 0

Counted(k) == rounds[k] = Cardinality(Kept(k)) + Cardinality(Flight(k)) + unrecorded[k]
CountInv   == \A k \in Keys : Counted(k)

LEMMA OneAtMost ==
  ASSUME NEW S, NEW w, S \subseteq {w}
  PROVE  Cardinality(S) = One(w \in S)
<1>1. S = {} \/ S = {w}
  OBVIOUS
<1> QED BY <1>1, FS_EmptySet, FS_Singleton DEF One

\* With nobody else under way, a worker that moves is the only one that can be.
LEMMA FlightFacts ==
  ASSUME TypeInv, NEW w \in Workers, Moves(w), \A v \in Workers \ {w} : pc[v] \notin Busy, NEW k
  PROVE  /\ Cardinality(Flight(k)) = One(Flying(w) /\ Key(w) = k)
         /\ Cardinality(Flight(k)') = One(Flying(w)' /\ Key(w)' = k)
<1>1. \A v \in Workers \ {w} : ~Flying(v) /\ ~Flying(v)'
  BY DEF Moves, Flying, Busy
<1>2. Flight(k) \subseteq {w} /\ (w \in Flight(k) <=> Flying(w) /\ Key(w) = k)
  BY <1>1 DEF Flight
<1>3. Flight(k)' \subseteq {w} /\ (w \in Flight(k)' <=> Flying(w)' /\ Key(w)' = k)
  BY <1>1 DEF Flight
<1>4. Cardinality(Flight(k)) = One(w \in Flight(k))
  BY <1>2, OneAtMost
<1>5. Cardinality(Flight(k)') = One(w \in Flight(k)')
  <2> DEFINE S == Flight(k)'
  <2>1. S \subseteq {w}
    BY <1>3
  <2> HIDE DEF S
  <2>2. Cardinality(S) = One(w \in S)
    BY <2>1, OneAtMost
  <2> QED BY <2>2 DEF S
<1> QED BY <1>2, <1>3, <1>4, <1>5 DEF One

LEMMA FiniteBelow ==
  ASSUME NEW l \in Nat, NEW S \in SUBSET (1..l)
  PROVE  IsFiniteSet(S) /\ Cardinality(S) \in Nat
<1>1. IsFiniteSet(1..l)
  BY FS_Interval
<1>2. IsFiniteSet(S)
  BY <1>1, FS_Subset
<1> QED BY <1>2, FS_CardinalityType

LEMMA KeptFacts ==
  ASSUME TypeOK, NEW k
  PROVE  IsFiniteSet(Kept(k)) /\ Cardinality(Kept(k)) \in Nat /\ Kept(k) \subseteq 1..Len(records)
<1>1. Kept(k) \in SUBSET (1..Len(records)) /\ Len(records) \in Nat
  BY OfFacts DEF Kept
<1> QED BY <1>1, FiniteBelow

LEMMA KeptLater ==
  ASSUME TypeInv', NEW k
  PROVE  Cardinality(Kept(k)') \in Nat
<1> DEFINE l == Len(records')
           S == Kept(k)'
<1>1. l \in Nat /\ S \in SUBSET (1..l)
  BY DEF Kept, Of, TypeInv, TypeOK
<1> HIDE DEF l, S
<1>2. Cardinality(S) \in Nat
  BY <1>1, FiniteBelow
<1> QED BY <1>2 DEF S

LEMMA SameKept ==
  ASSUME records' = records, NEW k
  PROVE  Cardinality(Kept(k)') = Cardinality(Kept(k))
<1>1. Kept(k)' = Kept(k)
  BY DEF Kept, Of
<1> QED BY <1>1

LEMMA AppendKept ==
  ASSUME TypeOK, NEW r \in Record, records' = Append(records, r), NEW k
  PROVE  Cardinality(Kept(k)') = Cardinality(Kept(k)) + One(r.key = k /\ IsRound(r))
<1> DEFINE l == Len(records) + 1
<1>1. /\ Len(records) \in Nat
      /\ DOMAIN records = 1..Len(records) /\ DOMAIN records' = 1..l
      /\ \A n \in 1..Len(records) : records'[n] = records[n]
      /\ records'[l] = r
  BY AppendFacts
<1>2. l \notin Kept(k) /\ IsFiniteSet(Kept(k)) /\ Cardinality(Kept(k)) \in Nat
  BY <1>1, KeptFacts
<1>3. \A n : n \in DOMAIN records' <=> n \in DOMAIN records \/ n = l
  BY <1>1
<1>4. l \notin DOMAIN records
  BY <1>1
<1> HIDE DEF l
<1>5. CASE r.key = k /\ IsRound(r)
  <2>1. Kept(k)' = Kept(k) \cup {l}
    BY <1>1, <1>3, <1>4, <1>5 DEF Kept, Of, IsRound
  <2> QED BY <1>2, <1>5, <2>1, FS_AddElement DEF One
<1>6. CASE ~(r.key = k /\ IsRound(r))
  <2>1. Kept(k)' = Kept(k)
    BY <1>1, <1>3, <1>4, <1>6 DEF Kept, Of, IsRound
  <2> QED BY <1>2, <1>6, <2>1 DEF One
<1> QED BY <1>5, <1>6

LEMMA FrontKept ==
  ASSUME TypeOK, records # <<>>, records' = Front(records), NEW k
  PROVE  Cardinality(Kept(k)) = Cardinality(Kept(k)') + One(Last(records).key = k /\ IsRound(Last(records)))
<1> DEFINE l == Len(records)
<1>1. /\ l \in Nat /\ l >= 1 /\ DOMAIN records = 1..l /\ DOMAIN records' = 1..(l - 1)
      /\ \A n \in 1..(l - 1) : records'[n] = records[n]
  BY FrontFacts
<1>2. l \in DOMAIN records /\ l \notin DOMAIN records' /\ Last(records) = records[l]
  BY <1>1 DEF Last
<1>3. \A n : n \in DOMAIN records <=> n \in DOMAIN records' \/ n = l
  BY <1>1
<1>4. \A n \in DOMAIN records' : records'[n] = records[n]
  BY <1>1
<1> HIDE DEF l
<1>5. IsFiniteSet(Kept(k)) /\ Cardinality(Kept(k)) \in Nat
  BY KeptFacts
<1>6. Kept(k)' = Kept(k) \ {l}
  BY <1>2, <1>3, <1>4 DEF Kept, Of, IsRound
<1>7. Cardinality(Kept(k) \ {l}) = IF l \in Kept(k) THEN Cardinality(Kept(k)) - 1 ELSE Cardinality(Kept(k))
  BY <1>5, FS_RemoveElement
<1>8. l \in Kept(k) <=> Last(records).key = k /\ IsRound(Last(records))
  BY <1>2 DEF Kept, Of
<1> QED BY <1>5, <1>6, <1>7, <1>8 DEF One

\* Two lines spoiled at once are counted as two: a line is never accepted twice.
LEMMA SpoiledCount ==
  ASSUME TypeOK, records # <<>>, NEW r \in Record, Accepts(r), NEW k
  PROVE  Cardinality(Spoiled(k, r)) =
           One(Last(records).key = k /\ IsRound(Last(records))) + One(r.key = k /\ IsRound(r))
<1> DEFINE a == Last(records)
<1>1. Len(records) \in DOMAIN records /\ a = records[Len(records)]
  <2>1. records \in Seq(Record) /\ Len(records) \in Nat /\ Len(records) # 0
    BY EmptySeq DEF TypeOK
  <2> QED BY <2>1 DEF Last
<1>2. a # r
  <2> SUFFICES ASSUME a = r PROVE FALSE
    OBVIOUS
  <2>1. Len(records) \in Of(r.key) /\ records[Len(records)] = r
    BY <1>1 DEF Of
  <2>2. r.attempt < r.attempt
    BY <2>1 DEF Accepts
  <2>3. r.attempt \in Nat
    BY MostFacts DEF Record
  <2> QED BY <2>2, <2>3
<1> HIDE DEF a
<1>3. Spoiled(k, r) = {x \in {a, r} : x.key = k /\ IsRound(x)}
  BY DEF Spoiled, a
<1> DEFINE pa == a.key = k /\ IsRound(a)
           pr == r.key = k /\ IsRound(r)
<1>4. CASE ~pa
  <2>1. Spoiled(k, r) \subseteq {r} /\ (r \in Spoiled(k, r) <=> pr)
    BY <1>3, <1>4
  <2> QED BY <1>4, <2>1, OneAtMost DEF One, a
<1>5. CASE pa /\ ~pr
  <2>1. Spoiled(k, r) \subseteq {a} /\ a \in Spoiled(k, r)
    BY <1>3, <1>5
  <2> QED BY <1>5, <2>1, OneAtMost DEF One, a
<1>6. CASE pa /\ pr
  <2>1. Spoiled(k, r) = {a} \cup {r}
    BY <1>3, <1>6
  <2>2. IsFiniteSet({a}) /\ Cardinality({a}) = 1 /\ r \notin {a}
    BY <1>2, FS_Singleton
  <2>3. Cardinality({a} \cup {r}) = 1 + 1
    BY <2>2, FS_AddElement
  <2> QED BY <1>6, <2>1, <2>3 DEF One, a
<1> QED BY <1>4, <1>5, <1>6

LEMMA AppendedCount ==
  ASSUME TypeOK, NEW r \in Record, Accepts(r), Appended(r), torn # "char", NEW k \in Keys
  PROVE  /\ Cardinality(Kept(k)') \in Nat
         /\ Cardinality(Kept(k)') + unrecorded'[k]
              = Cardinality(Kept(k)) + unrecorded[k] + One(r.key = k /\ IsRound(r))
<1>1. Cardinality(Kept(k)) \in Nat /\ unrecorded[k] \in Nat
  BY KeptFacts DEF TypeOK
<1>2. CASE records' = Append(records, r) /\ unrecorded' = unrecorded
  BY <1>1, <1>2, AppendKept DEF One
<1>3. CASE Missed(r) /\ records' = records
  <2>1. unrecorded'[k] = unrecorded[k] + One(r.key = k /\ IsRound(r))
    BY <1>3, MissedFacts DEF One
  <2>2. Cardinality(Kept(k)') = Cardinality(Kept(k))
    BY <1>3, SameKept
  <2> QED BY <1>1, <2>1, <2>2 DEF One
<1>4. CASE /\ torn = "end" /\ records' = Front(records)
           /\ unrecorded' = [c \in Keys |-> unrecorded[c] + Cardinality(Spoiled(c, r))]
  <2> DEFINE a == One(Last(records).key = k /\ IsRound(Last(records)))
             b == One(r.key = k /\ IsRound(r))
             n == Cardinality(Kept(k)')
  <2>1. records # <<>>
    BY <1>4 DEF TypeOK
  <2>2. Cardinality(Kept(k)) = n + a
    BY <1>4, <2>1, FrontKept
  <2>3. unrecorded'[k] = unrecorded[k] + (a + b)
    BY <1>4, <2>1, SpoiledCount
  <2>4. a \in {0, 1} /\ b \in {0, 1}
    BY DEF One
  <2>5. n \in Nat
    <3>1. Kept(k)' \subseteq Kept(k)
      BY <1>4, <2>1, FrontFacts DEF Kept, Of, IsRound
    <3>2. IsFiniteSet(Kept(k))
      BY KeptFacts
    <3> DEFINE S == Kept(k)'
    <3>3. S \in SUBSET Kept(k)
      BY <3>1
    <3> HIDE DEF S
    <3>4. Cardinality(S) \in Nat
      BY <3>2, <3>3, FS_Subset, FS_CardinalityType
    <3> QED BY <3>4 DEF S
  <2> HIDE DEF a, b, n
  <2>6. n + unrecorded'[k] = Cardinality(Kept(k)) + unrecorded[k] + b
    BY <1>1, <2>2, <2>3, <2>4, <2>5
  <2> QED BY <2>5, <2>6 DEF n, b
<1> QED BY <1>2, <1>3, <1>4 DEF Appended, Spoiled, TypeOK

\* A step of a worker that leaves the file and what is lost alone moves a round with its flight.
LEMMA MovedCount ==
  ASSUME TypeInv, NEW w \in Workers, Moves(w), \A v \in Workers \ {w} : pc[v] \notin Busy,
         NEW k \in Keys, Counted(k), rounds'[k] \in Nat,
         Cardinality(Kept(k)') \in Nat, unrecorded'[k] \in Nat,
         rounds'[k] + One(Flying(w) /\ Key(w) = k) + Cardinality(Kept(k)) + unrecorded[k]
           = rounds[k] + One(Flying(w)' /\ Key(w)' = k) + Cardinality(Kept(k)') + unrecorded'[k]
  PROVE  Counted(k)'
<1> DEFINE a == Cardinality(Kept(k))
           b == Cardinality(Kept(k)')
           c == One(Flying(w) /\ Key(w) = k)
           d == One(Flying(w)' /\ Key(w)' = k)
<1>1. Cardinality(Flight(k)) = c /\ Cardinality(Flight(k)') = d
  BY FlightFacts
<1>2. a \in Nat /\ rounds[k] \in Nat /\ unrecorded[k] \in Nat
  BY KeptFacts DEF TypeInv, TypeOK
<1>3. c \in {0, 1} /\ d \in {0, 1} /\ b \in Nat
  BY DEF One
<1>4. rounds[k] = a + c + unrecorded[k]
  BY <1>1 DEF Counted
<1>5. rounds'[k] + c + a + unrecorded[k] = rounds[k] + d + b + unrecorded'[k]
  OBVIOUS
<1> HIDE DEF a, b, c, d
<1>6. rounds'[k] = b + d + unrecorded'[k]
  BY <1>2, <1>3, <1>4, <1>5
<1> QED BY <1>1, <1>6 DEF Counted, b

\* Nothing that is counted changes.
LEMMA QuietCount ==
  ASSUME CountInv, records' = records, rounds' = rounds, unrecorded' = unrecorded,
         \A w \in Workers : \/ pc'[w] = pc[w] /\ mem'[w] = mem[w]
                            \/ pc[w] \notin Busy /\ pc'[w] \notin Busy
  PROVE  CountInv'
<1> SUFFICES ASSUME NEW k \in Keys
             PROVE  Counted(k)'
  BY DEF CountInv
<1>1. Flight(k)' = Flight(k)
  BY DEF Flight, Flying, Key, Job, Busy
<1>2. Cardinality(Kept(k)') = Cardinality(Kept(k))
  BY SameKept
<1> QED BY <1>1, <1>2 DEF CountInv, Counted

\* A worker with the lock records, loses or keeps its round.
LEMMA HolderCount ==
  ASSUME TypeInv, TypeInv', CountInv, NEW w \in Workers, Moves(w),
         pc[w] \in Busy \/ lock = None, rounds' = rounds,
         \A k \in Keys : One(Flying(w) /\ Key(w) = k) + Cardinality(Kept(k)) + unrecorded[k]
           = One(Flying(w)' /\ Key(w)' = k) + Cardinality(Kept(k)') + unrecorded'[k]
  PROVE  CountInv'
<1> SUFFICES ASSUME NEW k \in Keys
             PROVE  Counted(k)'
  BY DEF CountInv
<1>1. \A v \in Workers \ {w} : pc[v] \notin Busy
  BY NobodyElse
<1>2. Cardinality(Kept(k)') \in Nat
  BY KeptLater
<1>3. rounds'[k] \in Nat /\ unrecorded'[k] \in Nat /\ Counted(k)
  BY DEF TypeInv, TypeOK, CountInv
<1> DEFINE a == Cardinality(Kept(k))
           b == Cardinality(Kept(k)')
           c == One(Flying(w) /\ Key(w) = k)
           d == One(Flying(w)' /\ Key(w)' = k)
<1>4. c + a + unrecorded[k] = d + b + unrecorded'[k]
  OBVIOUS
<1>5. c \in {0, 1} /\ d \in {0, 1} /\ a \in Nat /\ b \in Nat /\ unrecorded[k] \in Nat /\ rounds'[k] = rounds[k]
  BY <1>2, KeptFacts DEF One, TypeInv, TypeOK
<1> HIDE DEF a, b, c, d
<1>6. rounds'[k] + c + a + unrecorded[k] = rounds[k] + d + b + unrecorded'[k]
  BY <1>3, <1>4, <1>5
<1> QED BY <1>1, <1>2, <1>3, <1>6, MovedCount DEF a, b, c, d

LEMMA SentCount ==
  ASSUME TypeInv, TypeInv', CountInv, NEW w \in Workers, NEW ok \in BOOLEAN, NEW passing \in BOOLEAN,
         Sent(w, ok, passing)
  PROVE  CountInv'
<1>1. /\ mem \in [Workers -> Work] /\ pc \in [Workers -> Points] /\ pc[w] = "send"
      /\ pc' = [pc EXCEPT ![w] = "write"]
      /\ records' = records /\ rounds' = rounds /\ unrecorded' = unrecorded
  BY DEF TypeInv, TypeOK, Sent, Goto, store
<1>2. /\ mem'[w].jobs = mem[w].jobs /\ mem'[w].status \in {"delivered", "failed"}
      /\ \A v \in Workers \ {w} : mem'[v] = mem[v]
  BY <1>1 DEF Sent, Result, Work
<1>3. Flying(w) /\ Flying(w)' /\ Key(w)' = Key(w) /\ Moves(w)
  BY <1>1, <1>2 DEF Flying, Key, Job, Moves
<1>4. \A k \in Keys : Cardinality(Kept(k)') = Cardinality(Kept(k))
  BY <1>1, SameKept
<1>5. \A k \in Keys : One(Flying(w)' /\ Key(w)' = k) = One(Flying(w) /\ Key(w) = k)
  BY <1>3 DEF One
<1> QED BY <1>1, <1>3, <1>4, <1>5, HolderCount DEF Busy

LEMMA QueueCount ==
  ASSUME TypeInv, TypeInv', CountInv, NEW w \in Workers, Queue(w)
  PROVE  CountInv'
<1>1. /\ mem \in [Workers -> Work] /\ pc \in [Workers -> Points] /\ pc[w] = "next" /\ lock = None
      /\ pc' = [pc EXCEPT ![w] = "write"]
      /\ records' = records /\ rounds' = rounds /\ unrecorded' = unrecorded
  BY DEF TypeInv, TypeOK, Queue, MayLook, Goto, store
<1>2. mem'[w].status = "queued" /\ \A v \in Workers \ {w} : mem'[v] = mem[v]
  BY <1>1 DEF Queue, Result, Work
<1>3. ~Flying(w) /\ ~Flying(w)' /\ Moves(w)
  BY <1>1, <1>2 DEF Flying, Moves
<1>4. \A k \in Keys : Cardinality(Kept(k)') = Cardinality(Kept(k))
  BY <1>1, SameKept
<1>5. \A k \in Keys : One(Flying(w)' /\ Key(w)' = k) = One(Flying(w) /\ Key(w) = k)
  BY <1>3 DEF One
<1> QED BY <1>1, <1>3, <1>4, <1>5, HolderCount

LEMMA SendCount ==
  ASSUME TypeInv, CountInv, NEW w \in Workers, Send(w)
  PROVE  CountInv'
<1> SUFFICES ASSUME NEW k \in Keys
             PROVE  Counted(k)'
  BY DEF CountInv
<1>1. /\ mem' = mem /\ pc \in [Workers -> Points] /\ pc[w] = "next" /\ lock = None
      /\ pc' = [pc EXCEPT ![w] = "send"] /\ rounds' = [rounds EXCEPT ![Key(w)] = @ + 1]
      /\ records' = records /\ unrecorded' = unrecorded
  BY DEF TypeInv, TypeOK, Send, MayLook, Goto, store
<1>2. ~Flying(w) /\ Flying(w)' /\ Key(w)' = Key(w) /\ Moves(w)
  BY <1>1 DEF Flying, Key, Job, Moves
<1>3. Cardinality(Kept(k)') = Cardinality(Kept(k)) /\ Cardinality(Kept(k)) \in Nat
  BY <1>1, SameKept, KeptFacts DEF TypeInv
<1>4. One(Flying(w) /\ Key(w) = k) = 0 /\ One(Flying(w)' /\ Key(w)' = k) = One(Key(w) = k)
  BY <1>2 DEF One
<1>5. rounds[k] \in Nat /\ rounds'[k] = rounds[k] + One(Key(w) = k) /\ unrecorded[k] \in Nat
  BY <1>1 DEF One, TypeInv, TypeOK
<1>6. One(Key(w) = k) \in {0, 1} /\ rounds'[k] \in Nat
  BY <1>5 DEF One
<1>7. \A v \in Workers \ {w} : pc[v] \notin Busy
  BY <1>1, NobodyElse
<1>8. rounds'[k] + One(Flying(w) /\ Key(w) = k) + Cardinality(Kept(k)) + unrecorded[k]
        = rounds[k] + One(Flying(w)' /\ Key(w)' = k) + Cardinality(Kept(k)') + unrecorded'[k]
  BY <1>1, <1>3, <1>4, <1>5, <1>6
<1> QED BY <1>1, <1>2, <1>3, <1>5, <1>6, <1>7, <1>8, MovedCount DEF CountInv

\* The line of a worker is a round of sending just when one is under way.
LEMMA LineIsFlight ==
  ASSUME TypeInv, NEW w \in Workers, pc[w] = "write", NEW k
  PROVE  One(Flying(w) /\ Key(w) = k) = One(Line(w).key = k /\ IsRound(Line(w)))
BY LineFacts DEF Flying, IsRound, One

\* A worker with the lock gives it up, its line on the file or lost.
LEMMA LandedCount ==
  ASSUME TypeInv, TypeInv', CountInv, NEW w \in Workers, Moves(w), pc[w] = "write",
         pc'[w] \notin Busy, rounds' = rounds,
         \A k \in Keys : Cardinality(Kept(k)') + unrecorded'[k]
           = Cardinality(Kept(k)) + unrecorded[k] + One(Line(w).key = k /\ IsRound(Line(w)))
  PROVE  CountInv'
<1>1. ASSUME NEW k \in Keys, Cardinality(Kept(k)') \in Nat
      PROVE  One(Flying(w) /\ Key(w) = k) + Cardinality(Kept(k)) + unrecorded[k]
               = One(Flying(w)' /\ Key(w)' = k) + Cardinality(Kept(k)') + unrecorded'[k]
  <2>1. One(Flying(w)' /\ Key(w)' = k) = 0
    BY DEF Flying, One, Busy
  <2>2. One(Flying(w) /\ Key(w) = k) = One(Line(w).key = k /\ IsRound(Line(w)))
    BY LineIsFlight
  <2>3. unrecorded[k] \in Nat /\ unrecorded'[k] \in Nat /\ Cardinality(Kept(k)) \in Nat
    BY KeptFacts DEF TypeInv, TypeOK
  <2>4. One(Line(w).key = k /\ IsRound(Line(w))) \in {0, 1}
    BY DEF One
  <2>5. Cardinality(Kept(k)') + unrecorded'[k]
          = Cardinality(Kept(k)) + unrecorded[k] + One(Line(w).key = k /\ IsRound(Line(w)))
    OBVIOUS
  <2> QED BY <1>1, <2>1, <2>2, <2>3, <2>4, <2>5
<1>2. \A k \in Keys : Cardinality(Kept(k)') \in Nat
  BY KeptLater
<1> QED BY <1>1, <1>2, HolderCount DEF Busy

LEMMA MissedCount ==
  ASSUME TypeInv, NEW w \in Workers, pc[w] = "write", Missed(Line(w)), records' = records,
         NEW k \in Keys
  PROVE  Cardinality(Kept(k)') + unrecorded'[k]
           = Cardinality(Kept(k)) + unrecorded[k] + One(Line(w).key = k /\ IsRound(Line(w)))
<1>1. Line(w) \in Record /\ TypeOK
  BY LineFacts DEF TypeInv
<1>2. unrecorded'[k] = unrecorded[k] + One(Line(w).key = k /\ IsRound(Line(w)))
  BY <1>1, MissedFacts DEF One
<1>3. Cardinality(Kept(k)') = Cardinality(Kept(k)) /\ Cardinality(Kept(k)) \in Nat
  BY <1>1, SameKept, KeptFacts
<1>4. unrecorded[k] \in Nat /\ One(Line(w).key = k /\ IsRound(Line(w))) \in {0, 1}
  BY <1>1 DEF TypeOK, One
<1> QED BY <1>2, <1>3, <1>4

LEMMA WriteCount ==
  ASSUME TypeInv, TypeInv', StoryInv, CountInv, NEW w \in Workers, Write(w)
  PROVE  CountInv'
<1>1. pc[w] = "write" /\ torn # "char" /\ Appended(Line(w)) /\ GoOn(w) /\ rounds' = rounds
  BY DEF Write, WriteFails, Unreadable
<1>2. Line(w) \in Record /\ Accepts(Line(w)) /\ TypeOK
  BY <1>1, LineFacts, LineIsAccepted DEF TypeInv
<1>3. Moves(w) /\ pc'[w] \notin Busy
  BY <1>1, GoOnFacts
<1> QED BY <1>1, <1>2, <1>3, AppendedCount, LandedCount

LEMMA WriteRaisesCount ==
  ASSUME TypeInv, TypeInv', CountInv, NEW w \in Workers, WriteRaises(w)
  PROVE  CountInv'
<1>1. /\ pc[w] = "write" /\ Missed(Line(w)) /\ records' = records /\ rounds' = rounds
      /\ Moves(w) /\ pc'[w] \notin Busy
  BY DEF WriteRaises, store, Goto, Moves, Busy, TypeInv, TypeOK
<1> QED BY <1>1, MissedCount, LandedCount

LEMMA DieCount ==
  ASSUME TypeInv, TypeInv', CountInv, NEW w \in Workers, Die(w)
  PROVE  CountInv'
<1>1. /\ records' = records /\ rounds' = rounds /\ Moves(w) /\ pc'[w] \notin Busy
      /\ pc[w] # "idle"
  BY DEF Die, Gone, store, Goto, Moves, Busy, TypeInv, TypeOK
<1>2. CASE pc[w] = "next" /\ unrecorded' = unrecorded
  BY <1>1, <1>2, QuietCount DEF Moves, Busy
<1>3. CASE pc[w] = "write" /\ Missed(Line(w))
  BY <1>1, <1>3, MissedCount, LandedCount
<1>4. CASE pc[w] = "send" /\ unrecorded' = Miss(Key(w))
  <2>1. ASSUME NEW k \in Keys
        PROVE  One(Flying(w) /\ Key(w) = k) + Cardinality(Kept(k)) + unrecorded[k]
                 = One(Flying(w)' /\ Key(w)' = k) + Cardinality(Kept(k)') + unrecorded'[k]
    <3>1. One(Flying(w)' /\ Key(w)' = k) = 0 /\ One(Flying(w) /\ Key(w) = k) = One(Key(w) = k)
      BY <1>1, <1>4 DEF Flying, One, Busy
    <3>2. unrecorded[k] \in Nat /\ unrecorded'[k] = unrecorded[k] + One(Key(w) = k)
      BY <1>4 DEF Miss, One, TypeInv, TypeOK
    <3>3. Cardinality(Kept(k)') = Cardinality(Kept(k)) /\ Cardinality(Kept(k)) \in Nat
      BY <1>1, SameKept, KeptFacts DEF TypeInv
    <3>4. One(Key(w) = k) \in {0, 1}
      BY DEF One
    <3> QED BY <3>1, <3>2, <3>3, <3>4
  <2> QED BY <1>1, <1>4, <2>1, HolderCount DEF Busy
<1> QED BY <1>2, <1>3, <1>4 DEF Die

LEMMA DieInWriteCount ==
  ASSUME TypeInv, TypeInv', CountInv, NEW w \in Workers, NEW how \in {"line", "end", "char"},
         DieInWrite(w, how)
  PROVE  CountInv'
<1>1. /\ pc[w] = "write" /\ rounds' = rounds /\ Moves(w) /\ pc'[w] \notin Busy
  BY DEF DieInWrite, Gone, Goto, Moves, Busy, TypeInv, TypeOK
<1>2. CASE Missed(Line(w)) /\ records' = records
  BY <1>1, <1>2, MissedCount, LandedCount
<1>3. CASE records' = Append(records, Line(w)) /\ unrecorded' = unrecorded
  <2>1. ASSUME NEW k \in Keys
        PROVE  Cardinality(Kept(k)') + unrecorded'[k]
                 = Cardinality(Kept(k)) + unrecorded[k] + One(Line(w).key = k /\ IsRound(Line(w)))
    <3>1. Line(w) \in Record /\ TypeOK
      BY <1>1, LineFacts DEF TypeInv
    <3>2. Cardinality(Kept(k)') = Cardinality(Kept(k)) + One(Line(w).key = k /\ IsRound(Line(w)))
      BY <1>3, <3>1, AppendKept
    <3>3. Cardinality(Kept(k)) \in Nat /\ unrecorded[k] \in Nat /\ unrecorded'[k] = unrecorded[k]
      BY <1>3, <3>1, KeptFacts DEF TypeOK
    <3>4. One(Line(w).key = k /\ IsRound(Line(w))) \in {0, 1}
      BY DEF One
    <3> QED BY <3>2, <3>3, <3>4
  <2> QED BY <1>1, <2>1, LandedCount
<1> QED BY <1>2, <1>3 DEF DieInWrite

LEMMA StepCount ==
  ASSUME TypeInv, TypeInv', StoryInv, CountInv, NEW w \in Workers, Step(w)
  PROVE  CountInv'
<1>1. CASE Skip(w)
  <2>1. pc[w] = "next" /\ GoOn(w) /\ records' = records /\ rounds' = rounds /\ unrecorded' = unrecorded
    BY <1>1 DEF Skip, MayLook, store
  <2>2. Moves(w) /\ pc'[w] \notin Busy /\ pc[w] \notin Busy
    BY <2>1, GoOnFacts DEF Busy
  <2> QED BY <2>1, <2>2, QuietCount DEF Moves
<1> QED BY <1>1, QueueCount, SendCount, SentCount, WriteCount, WriteRaisesCount DEF Step

LEMMA CallCount ==
  ASSUME TypeInv, CountInv, NEW w \in Workers, Call(w)
  PROVE  CountInv'
<1>1. \E jobs, t, f : Begin(w, jobs, t, f)
  BY DEF Call, NotifyPipelineEvent, NotifyByHand, DeliverWithProfile, FlushBatched
<1>2. /\ pc[w] \notin Busy /\ pc'[w] \notin Busy /\ Moves(w)
      /\ records' = records /\ rounds' = rounds /\ unrecorded' = unrecorded
  BY <1>1 DEF Begin, Goto, Moves, TypeInv, TypeOK, store, Busy
<1> QED BY <1>2, QuietCount DEF Moves

LEMMA NextCount ==
  ASSUME TypeInv, TypeInv', StoryInv, CountInv, [Next]_vars
  PROVE  CountInv'
<1>1. ASSUME NEW i \in Ids, NEW p \in Offered, SaveProfile(i, p) PROVE CountInv'
  BY <1>1, QuietCount DEF SaveProfile, store
<1>2. CASE Age \/ UNCHANGED vars
  BY <1>2, QuietCount DEF Age, vars, store
<1> QED BY <1>1, <1>2, StepCount, CallCount, DieCount, DieInWriteCount DEF Next

LEMMA InitCount ==
  ASSUME Init
  PROVE  CountInv
<1> SUFFICES ASSUME NEW k \in Keys
             PROVE  Counted(k)
  BY DEF CountInv
<1>1. Kept(k) = {} /\ Flight(k) = {}
  BY DEF Init, Kept, Of, Flight, Flying
<1> QED BY <1>1, FS_EmptySet DEF Init, Counted

\* The attempts of the rounds on the file differ and are at most Most + 1, so they are no more.
LEMMA KeptIsBounded ==
  ASSUME TypeInv, OneStory, NEW k
  PROVE  Cardinality(Kept(k)) <= 1 + Most
<1> DEFINE T == 1..(Most + 1)
           f == [n \in Kept(k) |-> records[n].attempt]
<1>1. TypeOK /\ Most \in Nat /\ Kept(k) \subseteq DOMAIN records
  BY MostFacts DEF TypeInv, Kept, Of
<1>2. \A n \in DOMAIN records : n \in Nat /\ records[n].attempt \in T
  BY <1>1, OfFacts DEF Record
<1>3. ASSUME NEW n \in Kept(k), NEW m \in Kept(k), records[n].attempt = records[m].attempt
      PROVE  n = m
  <2>1. n \in DOMAIN records /\ m \in DOMAIN records /\ records[n].key = k /\ records[m].key = k
    BY DEF Kept, Of
  <2>2. n \in Nat /\ m \in Nat /\ records[n].attempt \in Nat
    BY <1>1, <1>2, <2>1
  <2>3. ~(n < m) /\ ~(m < n)
    BY <1>3, <2>1, <2>2 DEF OneStory
  <2> QED BY <2>2, <2>3
<1>4. f \in [Kept(k) -> T] /\ \A n, m \in Kept(k) : f[n] = f[m] => n = m
  BY <1>1, <1>2, <1>3
<1> HIDE DEF f
<1>5. f \in Injection(Kept(k), T)
  BY <1>4 DEF Injection, IsInjective
<1>6. IsFiniteSet(T) /\ Cardinality(T) = Most + 1
  BY <1>1, FS_Interval
<1> HIDE DEF T
<1>7. Cardinality(Kept(k)) <= Cardinality(T)
  BY <1>5, <1>6, FS_Injection
<1> QED BY <1>1, <1>6, <1>7

\* AttemptsAreCounted: every round of sending is on the file, under way or lost by a crash or an
\* unreadable file, and the file has at most one more than the most patient profile allows.
THEOREM RoundsAreCounted == Spec => []AttemptsAreCounted
<1>1. Init => TypeInv /\ StoryInv /\ CountInv
  <2>1. Init => StoryInv
    BY DEF Init, StoryInv, OneStory, LookInv, Busy
  <2> QED BY <2>1, InitTypes, InitCount
<1>2. TypeInv /\ StoryInv /\ CountInv /\ [Next]_vars => (TypeInv /\ StoryInv /\ CountInv)'
  BY NextTypes, NextStory, NextCount
<1>3. TypeInv /\ StoryInv /\ CountInv => AttemptsAreCounted
  <2> SUFFICES ASSUME TypeInv, StoryInv, CountInv, NEW k \in Keys
               PROVE  /\ rounds[k] = Cardinality(Kept(k)) + InFlight(k) + unrecorded[k]
                      /\ Cardinality(Kept(k)) <= 1 + Most
    BY DEF AttemptsAreCounted, Kept, Most
  <2>1. InFlight(k) = Cardinality(Flight(k))
    BY DEF InFlight, Flight, Flying
  <2> QED BY <2>1, KeptIsBounded DEF StoryInv, CountInv, Counted
<1> QED BY <1>1, <1>2, <1>3, PTL DEF Spec

-----------------------------------------------------------------------------
(***************************************************************************)
(* The dashboard: types.                                                   *)
(***************************************************************************)
TaskStates ==
  {Absent, "requested", "approved", "executing", "succeeded", "failed", "actual_completed",
   "verification_failed", "verification_unverifiable"} \cup Technical \cup Settling \cup Outcomes
Verdicts  == {"passed", Absent} \cup Rejections
Decisions == [action : Actions \cup {Absent}, version : Nat]
AnyRank   == Ranks \cup {NoRank}

EventSet ==
  [type : {Absent, "execution", "verification", "decision", "actual_completion"},
   state : TaskStates, version : Nat, rank : AnyRank, execution : TaskStates,
   quarantined : BOOLEAN, verdict : Verdicts, decision : Decisions, completion : BOOLEAN]
ViewSet ==
  [state : TaskStates, version : Nat, rank : AnyRank, execution : TaskStates,
   quarantine : AnyRank, verdict : Verdicts, decision : Decisions, completion : BOOLEAN]
Executed == [state : {"none", "executing", "succeeded", "failed"}, attempt : 0..MaxAttempt]
PageSet ==
  [at : {"closed", "events", "model", "shown"}, verdicts : [Ranks -> Verdicts], version : Nat,
   decision : Actions \cup {Absent}, verdict : Verdicts, completed : BOOLEAN,
   rows : [Versions -> Executed]]

TaskTypes ==
  /\ revision \in Nat /\ content \in Contents /\ run \in {Absent, "stored", "judged"}
  /\ ids \subseteq ({"stored"} \cup Outcomes) \X Contents
CoreTypes ==
  /\ executions \in [Versions -> Executed]
  /\ requests \in Seq(Nat \X Nat) /\ Len(requests) < MaxVersion
  /\ live \subseteq Ranks
  /\ unlogged \in [Ranks -> Seq(EventSet)]
ShownTypes ==
  /\ view \in ViewSet /\ verdicts \in [Ranks -> Verdicts] /\ logged \subseteq Ranks
SessionTypes ==
  /\ page \in PageSet
  /\ session \in [nonce : Nat, counter : Nat, waits : AnyRank]
  /\ deaths \in Nat /\ made \in Nat

DashboardTypeOK == TaskTypes /\ CoreTypes /\ ShownTypes /\ SessionTypes

\* The record of an attempt and the events of it that are still to come.
Done(r) == executions[r[1]] = [state |-> "succeeded", attempt |-> r[2]]

CoreInv ==
  /\ \A v \in Versions : executions[v].state # "none" => executions[v].attempt > 0
  /\ \A r \in live : executions[r[1]] = [state |-> "executing", attempt |-> r[2]]
  /\ \A r \in Ranks : \A i \in DOMAIN unlogged[r] :
       unlogged[r][i].rank = r /\ (unlogged[r][i].verdict = "passed" => Done(r))

ShownInv ==
  /\ ShownIsNewestResult
  /\ view.rank = NoRank => view.verdict = Absent
  /\ \A r \in Ranks : verdicts[r] # Absent => r \in logged

\* What is called passed, in the log or on the page, is an attempt whose record says succeeded.
PassedInv ==
  /\ \A r \in Ranks : verdicts[r] = "passed" \/ page.verdicts[r] = "passed" => Done(r)
  /\ PassedRowSucceeded

\* A session counts one on when it is told of a rebuild, and what it asked for is known by the
\* counter of that time.
SessionInv ==
  /\ session.nonce > 0 /\ session.counter = made + 1
  /\ \A n \in DOMAIN requests :
       /\ requests[n][1] <= session.nonce
       /\ requests[n][1] = session.nonce => requests[n][2] \in 1..session.counter
  /\ \A n, m \in DOMAIN requests : requests[n] = requests[m] => n = m

-----------------------------------------------------------------------------
(***************************************************************************)
(* The fold of the log.                                                    *)
(***************************************************************************)
LEMMA RankFacts ==
  /\ \A r \in AnyRank : r[1] \in Nat /\ r[2] \in Nat /\ r = <<r[1], r[2]>>
  /\ NoRank \in AnyRank /\ NoRank \notin Ranks /\ \A r \in Ranks : r \in AnyRank
  /\ \A r \in Ranks : Older(NoRank, r)
  /\ \A v \in Versions, n \in 1..MaxAttempt : <<v, n>> \in Ranks
  /\ \A r \in Ranks : r[1] \in Versions /\ r[2] \in 1..MaxAttempt
BY DEF AnyRank, Ranks, NoRank, Versions, Older

LEMMA OlderFacts ==
  ASSUME NEW a \in AnyRank, NEW b \in AnyRank, NEW c \in AnyRank
  PROVE  /\ ~Older(a, a)
         /\ Older(a, b) => ~Older(b, a)
         /\ ~Older(a, b) /\ ~Older(b, a) => a = b
         /\ ~Older(a, b) /\ ~Older(b, c) => ~Older(a, c)
<1>1. /\ a[1] \in Nat /\ a[2] \in Nat /\ a = <<a[1], a[2]>>
      /\ b[1] \in Nat /\ b[2] \in Nat /\ b = <<b[1], b[2]>>
      /\ c[1] \in Nat /\ c[2] \in Nat
  BY RankFacts
<1>2. ~Older(a, b) /\ ~Older(b, a) => a[1] = b[1] /\ a[2] = b[2]
  BY <1>1 DEF Older
<1>3. ~Older(a, b) /\ ~Older(b, a) => a = b
  BY <1>1, <1>2
<1> QED BY <1>1, <1>3 DEF Older

LEMMA ToldFacts ==
  ASSUME NEW m \in ViewSet, NEW e \in EventSet
  PROVE  /\ StateShown(m, e) \in TaskStates /\ VersionShown(m, e) \in Nat
         /\ [m EXCEPT !.state = StateShown(m, e), !.version = VersionShown(m, e)] \in ViewSet
<1>1. StateShown(m, e) \in TaskStates /\ VersionShown(m, e) \in Nat
  BY DEF StateShown, VersionShown, ViewSet, EventSet
<1> QED BY <1>1 DEF ViewSet

LEMMA RankedFacts ==
  ASSUME NEW m \in ViewSet, NEW e \in EventSet
  PROVE  /\ Ranked(m, e) \in ViewSet
         /\ e.rank = NoRank \/ Older(e.rank, m.rank) => Ranked(m, e) = m
         /\ ~(e.rank = NoRank \/ Older(e.rank, m.rank)) =>
              LET newer == Older(m.rank, e.rank) /\ m.rank # NoRank
              IN /\ Ranked(m, e).rank = e.rank
                 /\ Ranked(m, e).verdict = IF newer THEN Absent ELSE m.verdict
                 /\ Ranked(m, e).quarantine \in {NoRank} \cup (IF newer THEN {} ELSE {m.quarantine})
<1> DEFINE newer == Older(m.rank, e.rank) /\ m.rank # NoRank
           vd == IF newer THEN Absent ELSE m.verdict
           qr == IF newer \/ e.execution # "failed" THEN NoRank ELSE m.quarantine
           k == [m EXCEPT !.rank = e.rank, !.execution = e.execution, !.verdict = vd, !.quarantine = qr]
<1>1. vd \in Verdicts /\ qr \in AnyRank /\ e.rank \in AnyRank /\ e.execution \in TaskStates
  BY RankFacts DEF ViewSet, EventSet, Verdicts
<1>2. qr \in {NoRank} \cup (IF newer THEN {} ELSE {m.quarantine})
  OBVIOUS
<1>3. Ranked(m, e) = IF e.rank = NoRank \/ Older(e.rank, m.rank) THEN m ELSE k
  BY DEF Ranked
<1> HIDE DEF vd, qr
<1>4. k \in ViewSet /\ k.rank = e.rank /\ k.verdict = vd /\ k.quarantine = qr
  BY <1>1 DEF ViewSet
<1> HIDE DEF k
<1> QED BY <1>2, <1>3, <1>4 DEF vd

LEMMA RestoredFacts ==
  ASSUME NEW m \in ViewSet, NEW o \in ViewSet, NEW e \in EventSet
  PROVE  /\ Restored(m, o, e) \in ViewSet /\ Restored(m, o, e).rank = m.rank
         /\ Restored(m, o, e).verdict = m.verdict /\ Restored(m, o, e).quarantine = m.quarantine
BY DEF Restored, ViewSet

LEMMA QuarantinedFacts ==
  ASSUME NEW m \in ViewSet, NEW e \in EventSet
  PROVE  /\ Quarantined(m, e) \in ViewSet /\ Quarantined(m, e).rank = m.rank
         /\ Quarantined(m, e).verdict = m.verdict
         /\ Quarantined(m, e).quarantine \in {m.quarantine, m.rank}
BY DEF Quarantined, ViewSet, EventSet

LEMMA VerifiedFacts ==
  ASSUME NEW m \in ViewSet, NEW e \in EventSet
  PROVE  /\ Verified(m, e) \in ViewSet /\ Verified(m, e).rank = m.rank
         /\ Verified(m, e).quarantine = m.quarantine
         /\ Verified(m, e).verdict =
              IF e.verdict = Absent \/ (e.rank # NoRank /\ e.rank # m.rank) THEN m.verdict ELSE e.verdict
<1> DEFINE st == CASE e.verdict = "failed"       -> "verification_failed"
                   [] e.verdict = "unverifiable" -> "verification_unverifiable"
                   [] OTHER                      -> m.state
<1>1. st \in TaskStates /\ e.verdict \in Verdicts
  BY DEF TaskStates, ViewSet, EventSet
<1>2. Verified(m, e) = IF e.verdict = Absent \/ (e.rank # NoRank /\ e.rank # m.rank) THEN m
                       ELSE [m EXCEPT !.verdict = e.verdict, !.state = st]
  BY DEF Verified
<1> HIDE DEF st
<1> QED BY <1>1, <1>2 DEF ViewSet

LEMMA DecidedFacts ==
  ASSUME NEW m \in ViewSet, NEW e \in EventSet
  PROVE  /\ Decided(m, e) \in ViewSet /\ Decided(m, e).rank = m.rank
         /\ Decided(m, e).quarantine = m.quarantine /\ Decided(m, e).verdict = m.verdict
<1> DEFINE d == IF e.decision.action # Absent THEN e.decision ELSE m.decision
           c == m.completion \/ e.completion
<1>1. d \in Decisions /\ c \in BOOLEAN
  BY DEF ViewSet, EventSet
<1>2. Decided(m, e) = [m EXCEPT !.decision = d, !.completion = c]
  BY DEF Decided
<1> HIDE DEF d, c
<1> QED BY <1>1, <1>2 DEF ViewSet

\* Nothing is taken from an event of an older attempt, and an event of a newer one ends what was
\* known of the attempt before it.
Stale(m, e) == e.rank = NoRank \/ Older(e.rank, m.rank)
Newer(m, e) == ~Stale(m, e) /\ Older(m.rank, e.rank) /\ m.rank # NoRank

LEMMA FoldedFacts ==
  ASSUME NEW m \in ViewSet, NEW e \in EventSet
  PROVE  /\ Folded(m, e) \in ViewSet
         /\ Folded(m, e).rank = IF Stale(m, e) THEN m.rank ELSE e.rank
         /\ Folded(m, e).verdict =
              IF e.verdict # Absent /\ (e.rank = NoRank \/ e.rank = Folded(m, e).rank) THEN e.verdict
              ELSE IF Newer(m, e) THEN Absent ELSE m.verdict
         /\ \/ Folded(m, e).quarantine \in {NoRank, Folded(m, e).rank}
            \/ ~Newer(m, e) /\ Folded(m, e).quarantine = m.quarantine
<1> DEFINE t == [m EXCEPT !.state = StateShown(m, e), !.version = VersionShown(m, e)]
           a == Ranked(t, e)
           b == Restored(a, m, e)
           c == Quarantined(b, e)
           d == Verified(c, e)
<1>1. t \in ViewSet /\ t.rank = m.rank /\ t.verdict = m.verdict /\ t.quarantine = m.quarantine
  BY ToldFacts DEF ViewSet
<1> HIDE DEF t
<1>2. /\ a \in ViewSet
      /\ Stale(m, e) => a.rank = m.rank /\ a.verdict = m.verdict /\ a.quarantine = m.quarantine
      /\ ~Stale(m, e) =>
           /\ a.rank = e.rank /\ a.verdict = (IF Newer(m, e) THEN Absent ELSE m.verdict)
           /\ a.quarantine \in {NoRank} \cup (IF Newer(m, e) THEN {} ELSE {m.quarantine})
  BY <1>1, RankedFacts DEF Stale, Newer
<1> HIDE DEF a
<1>3. b \in ViewSet /\ b.rank = a.rank /\ b.verdict = a.verdict /\ b.quarantine = a.quarantine
  BY <1>2, RestoredFacts
<1> HIDE DEF b
<1>4. /\ c \in ViewSet /\ c.rank = b.rank /\ c.verdict = b.verdict
      /\ c.quarantine \in {b.quarantine, b.rank}
  BY <1>3, QuarantinedFacts
<1> HIDE DEF c
<1>5. /\ d \in ViewSet /\ d.rank = c.rank /\ d.quarantine = c.quarantine
      /\ d.verdict = IF e.verdict = Absent \/ (e.rank # NoRank /\ e.rank # c.rank)
                     THEN c.verdict ELSE e.verdict
  BY <1>4, VerifiedFacts
<1> HIDE DEF d
<1>6. /\ Folded(m, e) \in ViewSet /\ Folded(m, e).rank = d.rank
      /\ Folded(m, e).quarantine = d.quarantine /\ Folded(m, e).verdict = d.verdict
  <2>1. Folded(m, e) = Decided(d, e)
    BY DEF Folded, t, a, b, c, d
  <2> QED BY <1>5, <2>1, DecidedFacts
<1>7. Folded(m, e).rank = IF Stale(m, e) THEN m.rank ELSE e.rank
  BY <1>2, <1>3, <1>4, <1>5, <1>6
<1>8. Folded(m, e).verdict =
        IF e.verdict # Absent /\ (e.rank = NoRank \/ e.rank = Folded(m, e).rank) THEN e.verdict
        ELSE IF Newer(m, e) THEN Absent ELSE m.verdict
  BY <1>2, <1>3, <1>4, <1>5, <1>6 DEF Newer
<1>9. \/ Folded(m, e).quarantine \in {NoRank, Folded(m, e).rank}
      \/ ~Newer(m, e) /\ Folded(m, e).quarantine = m.quarantine
  BY <1>2, <1>3, <1>4, <1>5, <1>6 DEF Newer
<1> QED BY <1>6, <1>7, <1>8, <1>9

\* An event of an attempt says what it says of that attempt, and a verdict is always of one.
Logged(e) == e \in EventSet /\ (e.verdict # Absent => e.rank \in Ranks)

LEMMA LogsTypes ==
  ASSUME ShownTypes, NEW e, Logged(e), Logs(e)
  PROVE  /\ ShownTypes'
         /\ e.rank # NoRank => e.rank \in Ranks
         /\ logged' = logged \cup ({e.rank} \ {NoRank})
         /\ \A r \in Ranks : verdicts'[r] = IF r = e.rank /\ e.verdict # Absent
                                            THEN e.verdict ELSE verdicts[r]
<1>1. /\ e \in EventSet /\ e.rank \in AnyRank /\ e.verdict \in Verdicts /\ view \in ViewSet
      /\ verdicts \in [Ranks -> Verdicts] /\ logged \subseteq Ranks
  BY DEF Logged, EventSet, ShownTypes
<1>2. e.rank # NoRank => e.rank \in Ranks
  BY <1>1 DEF AnyRank
<1>3. view' \in ViewSet
  BY <1>1, FoldedFacts DEF Logs
<1>4. logged' = logged \cup ({e.rank} \ {NoRank}) /\ logged' \subseteq Ranks
  BY <1>1, <1>2 DEF Logs
<1>5. verdicts' \in [Ranks -> Verdicts]
  BY <1>1 DEF Logs
<1>6. \A r \in Ranks : verdicts'[r] = IF r = e.rank /\ e.verdict # Absent
                                      THEN e.verdict ELSE verdicts[r]
  BY <1>1 DEF Logs
<1> QED BY <1>2, <1>3, <1>4, <1>5, <1>6 DEF ShownTypes

LEMMA LogsKeepShown ==
  ASSUME ShownTypes, ShownInv, NEW e, Logged(e), Logs(e)
  PROVE  ShownInv'
<1>1. /\ e.rank # NoRank => e.rank \in Ranks
      /\ logged' = logged \cup ({e.rank} \ {NoRank})
      /\ \A r \in Ranks : verdicts'[r] = IF r = e.rank /\ e.verdict # Absent
                                         THEN e.verdict ELSE verdicts[r]
  BY LogsTypes
<1>2. /\ e \in EventSet /\ e.rank \in AnyRank /\ view \in ViewSet /\ view.rank \in AnyRank
      /\ logged \subseteq Ranks
      /\ e.verdict # Absent => e.rank \in Ranks
  BY DEF Logged, EventSet, ShownTypes, ViewSet
<1> DEFINE q == view.rank
           p == view'.rank
<1>3. /\ p = IF Stale(view, e) THEN q ELSE e.rank
      /\ view'.verdict = IF e.verdict # Absent /\ (e.rank = NoRank \/ e.rank = p) THEN e.verdict
                         ELSE IF Newer(view, e) THEN Absent ELSE view.verdict
      /\ \/ view'.quarantine \in {NoRank, p}
         \/ ~Newer(view, e) /\ view'.quarantine = view.quarantine
  BY <1>2, FoldedFacts DEF Logs
<1>4. /\ \A r \in logged : ~Older(q, r)
      /\ q \in logged \cup {NoRank}
      /\ q # NoRank => view.verdict = verdicts[q]
      /\ view.quarantine \in {NoRank, q}
      /\ q = NoRank => view.verdict = Absent
      /\ \A r \in Ranks : verdicts[r] # Absent => r \in logged
  BY DEF ShownInv, ShownIsNewestResult
<1>5. Stale(view, e) <=> e.rank = NoRank \/ Older(e.rank, q)
  BY DEF Stale
<1>6. Newer(view, e) <=> ~Stale(view, e) /\ Older(q, e.rank) /\ q # NoRank
  BY DEF Newer
<1>7. p \in AnyRank
  BY <1>2, <1>3
<1> HIDE DEF p, q
<1>8. \A r \in logged' : ~Older(p, r)
  <2> SUFFICES ASSUME NEW r \in logged'
               PROVE  ~Older(p, r)
    OBVIOUS
  <2>1. CASE r \in logged
    <3>1. r \in AnyRank /\ q \in AnyRank
      BY <1>2, <2>1, RankFacts DEF q
    <3> QED BY <1>2, <1>3, <1>4, <1>5, <2>1, <3>1, OlderFacts
  <2>2. CASE r = e.rank /\ r # NoRank
    BY <1>2, <1>3, <1>5, <2>2, OlderFacts DEF q
  <2> QED BY <1>1, <2>1, <2>2
<1>9. p \in logged' \cup {NoRank}
  BY <1>1, <1>3, <1>4, <1>5
<1>10. ~Stale(view, e) /\ ~Newer(view, e) => q \in {NoRank, e.rank}
  BY <1>2, <1>5, <1>6, OlderFacts DEF q
<1>11. ~Stale(view, e) /\ q # e.rank => e.rank \notin logged
  <2>1. CASE q = NoRank
    BY <1>4, <2>1, <1>2, RankFacts
  <2>2. CASE q # NoRank
    BY <1>2, <1>4, <1>6, <1>10, <2>2
  <2> QED BY <2>1, <2>2
<1>12. p # NoRank => view'.verdict = verdicts'[p]
  <2> SUFFICES ASSUME p # NoRank
               PROVE  view'.verdict = verdicts'[p]
    OBVIOUS
  <2>1. p \in Ranks
    BY <1>7 DEF AnyRank
  <2>2. CASE Stale(view, e)
    <3>1. p = q /\ e.rank # q
      BY <1>2, <1>3, <1>5, <2>2, OlderFacts DEF q
    <3>2. verdicts'[p] = verdicts[q] /\ view'.verdict = view.verdict
      BY <1>1, <1>2, <1>3, <1>6, <2>1, <2>2, <3>1, RankFacts
    <3> QED BY <1>4, <3>1, <3>2
  <2>3. CASE ~Stale(view, e)
    <3>1. p = e.rank
      BY <1>3, <2>3
    <3>2. CASE e.verdict # Absent
      BY <1>1, <1>3, <2>1, <3>1, <3>2
    <3>3. CASE e.verdict = Absent /\ q # e.rank
      <4>1. verdicts'[p] = Absent
        BY <1>1, <1>4, <1>11, <2>1, <2>3, <3>1, <3>3
      <4>2. view'.verdict = Absent
        BY <1>3, <1>4, <1>10, <2>3, <3>3
      <4> QED BY <4>1, <4>2
    <3>4. CASE e.verdict = Absent /\ q = e.rank
      <4>1. ~Newer(view, e)
        BY <1>2, <1>6, <3>4, OlderFacts
      <4> QED BY <1>1, <1>3, <1>4, <2>1, <3>1, <3>4, <4>1
    <3> QED BY <3>2, <3>3, <3>4
  <2> QED BY <2>2, <2>3
<1>13. view'.quarantine \in {NoRank, p}
  BY <1>3, <1>4, <1>10
<1>14. p = NoRank => view'.verdict = Absent
  <2> SUFFICES ASSUME p = NoRank
               PROVE  view'.verdict = Absent
    OBVIOUS
  <2>1. Stale(view, e) /\ q = NoRank
    BY <1>3, <1>5
  <2>2. e.rank = NoRank
    BY <1>1, <1>2, <1>5, <2>1, RankFacts, OlderFacts
  <2> QED BY <1>2, <1>3, <1>4, <1>6, <2>1, <2>2, RankFacts
<1>15. \A r \in Ranks : verdicts'[r] # Absent => r \in logged'
  BY <1>1, <1>4, RankFacts
<1> QED BY <1>8, <1>9, <1>12, <1>13, <1>14, <1>15 DEF ShownInv, ShownIsNewestResult, p
-----------------------------------------------------------------------------
(***************************************************************************)
(* Executions: no two processes run one attempt, and a record that says    *)
(* succeeded is the last word.                                             *)
(***************************************************************************)
\* A record that says succeeded is never taken back.
Final == \A r \in Ranks : Done(r) => Done(r)'

LEMMA NoEventTypes ==
  /\ NoEvent \in EventSet /\ NoEvent.verdict = Absent /\ NoEvent.rank = NoRank
  /\ [action |-> Absent, version |-> 0] \in Decisions
<1>1. NoRank \in AnyRank /\ Absent \in TaskStates /\ Absent \in Verdicts
  BY RankFacts DEF TaskStates, Verdicts
<1>2. [action |-> Absent, version |-> 0] \in Decisions
  BY DEF Decisions
<1> QED BY <1>1, <1>2 DEF NoEvent, NoView, EventSet

LEMMA EventTypes ==
  ASSUME NEW r \in Ranks, NEW state \in {"requested", "executing", "succeeded", "failed"}
  PROVE  Event(r, state) \in EventSet /\ Event(r, state).rank = r /\ Event(r, state).verdict = Absent
<1>1. state \in TaskStates /\ r \in AnyRank
  BY RankFacts DEF TaskStates
<1> QED BY <1>1, NoEventTypes DEF Event, EventSet

LEMMA QuarantineTypes ==
  ASSUME NEW r \in Ranks, NEW moved \in BOOLEAN
  PROVE  /\ Quarantine(r, moved) \in EventSet /\ Quarantine(r, moved).rank = r
         /\ Quarantine(r, moved).verdict = Absent
BY EventTypes DEF Quarantine, EventSet

LEMMA VerificationTypes ==
  ASSUME NEW r \in Ranks, NEW state \in {"succeeded", "failed"}, NEW verdict \in Verdicts
  PROVE  /\ Verification(r, state, verdict) \in EventSet
         /\ Verification(r, state, verdict).rank = r
         /\ Verification(r, state, verdict).verdict = verdict
<1> DEFINE st == CASE verdict = "failed"       -> "verification_failed"
                   [] verdict = "unverifiable" -> "verification_unverifiable"
                   [] OTHER                    -> "verification_recorded"
<1>1. state \in TaskStates /\ st \in TaskStates /\ r \in AnyRank
  BY RankFacts DEF TaskStates, Technical
<1>2. Verification(r, state, verdict) =
        [NoEvent EXCEPT !.type = "verification", !.rank = r, !.execution = state,
                        !.verdict = verdict, !.state = st]
  BY DEF Verification
<1> HIDE DEF st
<1> QED BY <1>1, <1>2, NoEventTypes DEF EventSet

LEMMA StartsFacts ==
  ASSUME CoreTypes, CoreInv, NEW v \in Versions, Starts(v)
  PROVE  /\ executions' \in [Versions -> Executed]
         /\ live' \subseteq Ranks /\ unlogged' \in [Ranks -> Seq(EventSet)]
         /\ CoreInv' /\ Final
         /\ \A r \in live' \ live : r \in Ranks
<1> DEFINE a == Attempt(v)
           es == <<Event(a, "requested"), Event(a, "executing")>>
           rec == [state |-> "executing", attempt |-> executions[v].attempt + 1]
<1>1. /\ executions \in [Versions -> Executed] /\ executions[v] \in Executed
      /\ executions[v].state \in {"none", "failed"} /\ executions[v].attempt < MaxAttempt
      /\ live \subseteq Ranks /\ unlogged \in [Ranks -> Seq(EventSet)]
      /\ MaxAttempt \in Nat
  BY DashboardAssumption DEF CoreTypes, Starts, MayExecute
<1>2. rec \in Executed /\ rec.attempt \in 1..MaxAttempt /\ rec.state = "executing"
  BY <1>1 DEF Executed
<1>3. a \in Ranks /\ a[1] = v /\ a[2] = rec.attempt
  BY <1>2 DEF Attempt, Ranks
<1>4. es \in Seq(EventSet) /\ \A i \in DOMAIN es : es[i].rank = a /\ es[i].verdict = Absent
  <2>1. /\ Event(a, "requested") \in EventSet /\ Event(a, "executing") \in EventSet
        /\ Event(a, "requested").rank = a /\ Event(a, "requested").verdict = Absent
        /\ Event(a, "executing").rank = a /\ Event(a, "executing").verdict = Absent
    BY <1>3, EventTypes
  <2> QED BY <2>1
<1>5. /\ executions' = [executions EXCEPT ![v] = rec] /\ live' = live \cup {a}
      /\ unlogged' = [unlogged EXCEPT ![a] = es]
  BY DEF Starts
<1> HIDE DEF a, es, rec
<1>6. executions' \in [Versions -> Executed] /\ executions'[v] = rec
  BY <1>1, <1>2, <1>5
<1>7. \A u \in Versions \ {v} : executions'[u] = executions[u]
  BY <1>1, <1>5
<1>8. live' \subseteq Ranks /\ unlogged' \in [Ranks -> Seq(EventSet)] /\ unlogged'[a] = es
  BY <1>1, <1>3, <1>4, <1>5
<1>9. \A r \in Ranks \ {a} : unlogged'[r] = unlogged[r]
  BY <1>1, <1>5
<1>10. Final
  BY <1>1, <1>7, RankFacts DEF Final, Done
<1>11. \A r \in live' : executions'[r[1]] = [state |-> "executing", attempt |-> r[2]]
  <2> SUFFICES ASSUME NEW r \in live'
               PROVE  executions'[r[1]] = [state |-> "executing", attempt |-> r[2]]
    OBVIOUS
  <2>1. CASE r = a
    BY <1>3, <1>6, <2>1 DEF rec
  <2>2. CASE r \in live
    <3>1. r[1] \in Versions /\ executions[r[1]] = [state |-> "executing", attempt |-> r[2]]
      BY <1>1, <2>2, RankFacts DEF CoreInv
    <3>2. r[1] # v
      BY <1>1, <3>1
    <3> QED BY <1>7, <3>1, <3>2
  <2> QED BY <1>5, <2>1, <2>2
<1>12. ASSUME NEW r \in Ranks, NEW i \in DOMAIN unlogged'[r]
       PROVE  unlogged'[r][i].rank = r /\ (unlogged'[r][i].verdict = "passed" => Done(r)')
  <2>1. CASE r = a
    BY <1>4, <1>8, <1>12, <2>1, DashboardAssumption
  <2>2. CASE r # a
    BY <1>9, <1>10, <1>12, <2>2 DEF CoreInv, Final
  <2> QED BY <2>1, <2>2
<1>13. \A u \in Versions : executions'[u].state # "none" => executions'[u].attempt > 0
  BY <1>2, <1>6, <1>7 DEF CoreInv
<1> QED BY <1>1, <1>5, <1>3, <1>6, <1>8, <1>10, <1>11, <1>12, <1>13 DEF CoreInv

LEMMA FinishFacts ==
  ASSUME CoreTypes, CoreInv, NEW r \in Ranks, NEW state \in {"succeeded", "failed"},
         NEW events \in Seq(EventSet), Finish(r, state, events),
         \A i \in DOMAIN events :
           events[i].rank = r /\ (events[i].verdict = "passed" => state = "succeeded")
  PROVE  CoreTypes' /\ CoreInv' /\ Final
<1> DEFINE rec == [state |-> state, attempt |-> r[2]]
           v == r[1]
<1>1. /\ executions \in [Versions -> Executed] /\ live \subseteq Ranks
      /\ unlogged \in [Ranks -> Seq(EventSet)] /\ r \in live
      /\ v \in Versions /\ r[2] \in 1..MaxAttempt
  BY RankFacts DEF CoreTypes, Finish
<1>2. rec \in Executed /\ rec.attempt = r[2] /\ rec.state # "executing" /\ r[2] > 0
  BY <1>1, DashboardAssumption DEF Executed
<1>3. /\ executions' = [executions EXCEPT ![v] = rec] /\ live' = live \ {r}
      /\ unlogged' = [unlogged EXCEPT ![r] = events] /\ requests' = requests
  BY DEF Finish
<1>4. executions[v] = [state |-> "executing", attempt |-> r[2]]
  BY <1>1 DEF CoreInv
<1>5. Done(r)' <=> state = "succeeded"
  BY <1>1, <1>3 DEF Done
<1> HIDE DEF rec
<1>6. executions' \in [Versions -> Executed] /\ executions'[v] = rec
  BY <1>1, <1>2, <1>3
<1>7. \A u \in Versions \ {v} : executions'[u] = executions[u]
  BY <1>1, <1>3
<1>8. CoreTypes'
  BY <1>1, <1>3, <1>6 DEF CoreTypes
<1>9. Final
  BY <1>4, <1>7, RankFacts DEF Final, Done
<1>10. \A l \in live' : executions'[l[1]] = [state |-> "executing", attempt |-> l[2]]
  <2> SUFFICES ASSUME NEW l \in live'
               PROVE  executions'[l[1]] = [state |-> "executing", attempt |-> l[2]]
    OBVIOUS
  <2>1. l \in live /\ l # r /\ l \in Ranks
    BY <1>1, <1>3
  <2>2. l[1] \in Versions /\ executions[l[1]] = [state |-> "executing", attempt |-> l[2]]
    BY <2>1, RankFacts DEF CoreInv
  <2>3. l[1] # v
    <3> SUFFICES ASSUME l[1] = v
                 PROVE  FALSE
      OBVIOUS
    <3>1. l[2] = r[2]
      BY <1>4, <2>2
    <3> QED BY <2>1, <3>1, RankFacts
  <2> QED BY <1>7, <2>2, <2>3
<1>11. ASSUME NEW s \in Ranks, NEW i \in DOMAIN unlogged'[s]
       PROVE  unlogged'[s][i].rank = s /\ (unlogged'[s][i].verdict = "passed" => Done(s)')
  <2>1. CASE s = r
    BY <1>1, <1>3, <1>5, <1>11, <2>1
  <2>2. CASE s # r
    BY <1>1, <1>3, <1>9, <1>11, <2>2 DEF CoreInv, Final
  <2> QED BY <2>1, <2>2
<1>12. \A u \in Versions : executions'[u].state # "none" => executions'[u].attempt > 0
  BY <1>2, <1>6, <1>7 DEF CoreInv
<1> QED BY <1>8, <1>9, <1>10, <1>11, <1>12 DEF CoreInv

\* Events that are lost or appended leave the rest of them in order.
LEMMA FewerEvents ==
  ASSUME CoreTypes, CoreInv, NEW r \in Ranks, NEW rest \in Seq(EventSet),
         rest = <<>> \/ (unlogged[r] # <<>> /\ rest = Tail(unlogged[r])),
         unlogged' = [unlogged EXCEPT ![r] = rest], live' \subseteq live,
         executions' = executions, requests' = requests
  PROVE  CoreTypes' /\ CoreInv' /\ Final
<1>1. unlogged \in [Ranks -> Seq(EventSet)] /\ unlogged[r] \in Seq(EventSet)
  BY DEF CoreTypes
<1>2. CoreTypes'
  BY DEF CoreTypes
<1>3. \A s \in Ranks : Done(s)' <=> Done(s)
  BY DEF Done
<1>4. ASSUME NEW i \in DOMAIN rest
      PROVE  rest[i].rank = r /\ (rest[i].verdict = "passed" => Done(r))
  <2>1. unlogged[r] # <<>> /\ rest = Tail(unlogged[r])
    BY <1>4
  <2>2. i + 1 \in DOMAIN unlogged[r] /\ rest[i] = unlogged[r][i + 1]
    BY <1>1, <1>4, <2>1
  <2> QED BY <2>2 DEF CoreInv
<1>5. ASSUME NEW s \in Ranks, NEW i \in DOMAIN unlogged'[s]
      PROVE  unlogged'[s][i].rank = s /\ (unlogged'[s][i].verdict = "passed" => Done(s)')
  <2>1. CASE s = r
    <3>1. unlogged'[s] = rest
      BY <1>1, <2>1
    <3> QED BY <1>3, <1>4, <1>5, <2>1, <3>1
  <2>2. CASE s # r
    BY <1>1, <1>3, <1>5, <2>2 DEF CoreInv
  <2> QED BY <2>1, <2>2
<1>6. \A l \in live' : executions'[l[1]] = [state |-> "executing", attempt |-> l[2]]
  BY DEF CoreInv
<1>7. \A v \in Versions : executions'[v].state # "none" => executions'[v].attempt > 0
  BY DEF CoreInv
<1> QED BY <1>2, <1>3, <1>5, <1>6, <1>7 DEF CoreInv, Final

\* A person who says that nobody runs an attempt fails the one that is recorded.
LEMMA RecoverFacts ==
  ASSUME CoreTypes, CoreInv, Recover
  PROVE  CoreTypes' /\ CoreInv' /\ Final
<1> DEFINE v == Newest
           r == <<v, executions[v].attempt>>
           rec == [executions[v] EXCEPT !.state = "failed"]
<1>1. /\ executions \in [Versions -> Executed] /\ live \subseteq Ranks
      /\ unlogged \in [Ranks -> Seq(EventSet)] /\ r \notin live
      /\ live' = live /\ requests' = requests
  BY DEF CoreTypes, Recover
<1>2. CASE UNCHANGED <<executions, unlogged>>
  BY <1>1, <1>2 DEF CoreTypes, CoreInv, Final, Done
<1>3. ASSUME executions[v].state = "executing", NEW moved \in Moved,
             executions' = [executions EXCEPT ![v] = rec],
             unlogged' = [unlogged EXCEPT ![r] = <<Quarantine(r, moved)>>]
      PROVE  CoreTypes' /\ CoreInv' /\ Final
  <2>1. CASE v \notin Versions
    <3>1. r \notin Ranks
      BY <2>1 DEF Ranks
    <3>2. executions' = executions /\ unlogged' = unlogged
      BY <1>1, <1>3, <2>1, <3>1
    <3> QED BY <1>2, <3>2
  <2>2. CASE v \in Versions
    <3>1. executions[v] \in Executed /\ executions[v].attempt > 0
      BY <1>1, <1>3, <2>2 DEF CoreInv
    <3>2. r \in Ranks /\ r[1] = v /\ r[2] = executions[v].attempt
      BY <2>2, <3>1 DEF Ranks, Executed
    <3>3. rec \in Executed /\ rec.state = "failed" /\ rec.attempt = executions[v].attempt
      BY <3>1 DEF Executed
    <3>4. moved \in BOOLEAN
      BY DashboardAssumption
    <3> DEFINE q == Quarantine(r, moved)
    <3>5. q \in EventSet /\ q.rank = r /\ q.verdict = Absent
      BY <3>2, <3>4, QuarantineTypes
    <3> HIDE DEF q, rec
    <3>6. executions' \in [Versions -> Executed] /\ executions'[v] = rec
      BY <1>1, <1>3, <2>2, <3>3
    <3>7. \A u \in Versions \ {v} : executions'[u] = executions[u]
      BY <1>1, <1>3
    <3>8. unlogged' \in [Ranks -> Seq(EventSet)] /\ unlogged'[r] = <<q>>
      BY <1>1, <1>3, <3>2, <3>5 DEF q
    <3>9. \A s \in Ranks \ {r} : unlogged'[s] = unlogged[s]
      BY <1>1, <1>3
    <3>10. CoreTypes'
      BY <1>1, <3>6, <3>8 DEF CoreTypes
    <3>11. Final
      BY <1>3, <3>7, RankFacts DEF Final, Done
    <3>12. \A l \in live' : executions'[l[1]] = [state |-> "executing", attempt |-> l[2]]
      <4> SUFFICES ASSUME NEW l \in live
                   PROVE  executions'[l[1]] = [state |-> "executing", attempt |-> l[2]]
        BY <1>1
      <4>1. /\ l \in Ranks /\ l[1] \in Versions /\ l = <<l[1], l[2]>>
            /\ executions[l[1]] = [state |-> "executing", attempt |-> l[2]]
        BY <1>1, RankFacts DEF CoreInv
      <4>2. l[1] # v
        <5> SUFFICES ASSUME l[1] = v
                     PROVE  FALSE
          OBVIOUS
        <5>1. l[2] = executions[v].attempt
          BY <4>1
        <5>2. l = r
          BY <4>1, <5>1
        <5> QED BY <1>1, <5>2
      <4> QED BY <3>7, <4>1, <4>2
    <3>13. ASSUME NEW s \in Ranks, NEW i \in DOMAIN unlogged'[s]
           PROVE  unlogged'[s][i].rank = s /\ (unlogged'[s][i].verdict = "passed" => Done(s)')
      <4>1. CASE s = r
        BY <3>5, <3>8, <3>13, <4>1, DashboardAssumption
      <4>2. CASE s # r
        BY <3>9, <3>11, <3>13, <4>2 DEF CoreInv, Final
      <4> QED BY <4>1, <4>2
    <3>14. \A u \in Versions : executions'[u].state # "none" => executions'[u].attempt > 0
      BY <3>1, <3>3, <3>6, <3>7 DEF CoreInv
    <3> QED BY <3>10, <3>11, <3>12, <3>13, <3>14 DEF CoreInv
  <2> QED BY <2>1, <2>2
<1> QED BY <1>2, <1>3 DEF Recover

\* A request of a rebuild keeps its version, or takes the next one.
LEMMA RebuildFacts ==
  ASSUME CoreTypes, NEW id \in Nat \X Nat, StartsRebuild(id)
  PROVE  /\ \E v \in Versions : Starts(v)
         /\ \/ requests' = requests
            \/ ~IsReserved(id) /\ requests' = Append(requests, id)
         /\ requests' \in Seq(Nat \X Nat) /\ Len(requests') < MaxVersion
<1>1. requests \in Seq(Nat \X Nat) /\ Len(requests) < MaxVersion /\ MaxVersion \in Nat
  BY DashboardAssumption DEF CoreTypes
<1>2. CASE IsReserved(id)
  <2>1. PICK n \in DOMAIN requests : requests[n] = id
    BY <1>2 DEF IsReserved
  <2>2. n + 1 \in 2..(Len(requests) + 1) /\ requests[(n + 1) - 1] = id
    BY <1>1, <2>1
  <2>3. VersionOf(id) \in 2..(Len(requests) + 1)
    BY <2>2 DEF VersionOf
  <2>4. VersionOf(id) \in Versions
    BY <1>1, <2>3 DEF Versions
  <2> QED BY <1>1, <1>2, <2>4 DEF StartsRebuild
<1>3. CASE ~IsReserved(id)
  <2>1. Len(requests) + 2 \in Versions
    BY <1>1, <1>3 DEF StartsRebuild, Versions
  <2>2. Starts(Len(requests) + 2) /\ requests' = Append(requests, id) /\ Len(requests) + 1 < MaxVersion
    BY <1>3 DEF StartsRebuild
  <2>3. requests' \in Seq(Nat \X Nat) /\ Len(requests') = Len(requests) + 1
    BY <1>1, <2>2
  <2> QED BY <1>1, <1>3, <2>1, <2>2, <2>3
<1> QED BY <1>2, <1>3

\* What a step does to the requests.
Requested ==
  \/ requests' = requests
  \/ \E id \in {<<0, 1>>, RequestId} : ~IsReserved(id) /\ requests' = Append(requests, id)

LEMMA StartsKeepCore ==
  ASSUME CoreTypes, CoreInv, requests' \in Seq(Nat \X Nat), Len(requests') < MaxVersion,
         NEW v \in Versions, Starts(v)
  PROVE  CoreTypes' /\ CoreInv' /\ Final
BY StartsFacts DEF CoreTypes

LEMMA RebuildKeepsCore ==
  ASSUME CoreTypes, CoreInv, NEW id \in {<<0, 1>>, RequestId}, id \in Nat \X Nat, StartsRebuild(id)
  PROVE  CoreTypes' /\ CoreInv' /\ Final /\ Requested
<1>1. PICK v \in Versions : Starts(v)
  BY RebuildFacts
<1>2. /\ requests' = requests \/ (~IsReserved(id) /\ requests' = Append(requests, id))
      /\ requests' \in Seq(Nat \X Nat) /\ Len(requests') < MaxVersion
  BY RebuildFacts
<1> QED BY <1>1, <1>2, StartsKeepCore DEF Requested

LEMMA CoreStep ==
  ASSUME CoreTypes, CoreInv, SessionTypes, [DashboardNext]_dashboardVars
  PROVE  CoreTypes' /\ CoreInv' /\ Final /\ Requested
<1>1. /\ RequestId \in Nat \X Nat /\ <<0, 1>> \in Nat \X Nat
      /\ requests \in Seq(Nat \X Nat) /\ Len(requests) < MaxVersion
      /\ 1 \in Versions /\ \A r \in Ranks : unlogged[r] \in Seq(EventSet)
  BY DashboardAssumption DEF SessionTypes, RequestId, CoreTypes, Versions
<1>2. CASE UNCHANGED core
  BY <1>2 DEF core, CoreTypes, CoreInv, Final, Done, Requested
<1>3. CASE ExecuteByHand
  <2>1. CASE Starts(1) /\ UNCHANGED requests
    BY <1>1, <2>1, StartsKeepCore DEF Requested
  <2>2. CASE StartsRebuild(<<0, 1>>)
    BY <1>1, <2>2, RebuildKeepsCore
  <2> QED BY <1>3, <2>1, <2>2 DEF ExecuteByHand
<1>4. ASSUME NEW r \in Ranks, AppendEvent(r)
      PROVE  CoreTypes' /\ CoreInv' /\ Final /\ Requested
  <2>1. Tail(unlogged[r]) \in Seq(EventSet)
    BY <1>1, <1>4 DEF AppendEvent
  <2> QED BY <1>4, <2>1, FewerEvents DEF AppendEvent, Requested
<1>5. ASSUME NEW r \in Ranks, AppendRefused(r) \/ Crash(r)
      PROVE  CoreTypes' /\ CoreInv' /\ Final /\ Requested
  <2>1. <<>> \in Seq(EventSet)
    OBVIOUS
  <2>2. /\ unlogged' = [unlogged EXCEPT ![r] = <<>>] /\ live' \subseteq live
        /\ executions' = executions /\ requests' = requests
    BY <1>5 DEF AppendRefused, Crash
  <2> QED BY <2>1, <2>2, FewerEvents DEF Requested
<1>6. ASSUME NEW r \in Ranks, Succeed(r)
      PROVE  CoreTypes' /\ CoreInv' /\ Final /\ Requested
  <2> DEFINE es == <<Event(r, "succeeded"), Verification(r, "succeeded", "passed")>>
  <2>1. /\ Event(r, "succeeded") \in EventSet /\ Event(r, "succeeded").rank = r
        /\ Event(r, "succeeded").verdict = Absent
    BY EventTypes
  <2>2. /\ Verification(r, "succeeded", "passed") \in EventSet
        /\ Verification(r, "succeeded", "passed").rank = r
    BY VerificationTypes DEF Verdicts
  <2>3. es \in Seq(EventSet) /\ \A i \in DOMAIN es : es[i].rank = r
    BY <2>1, <2>2
  <2>4. Finish(r, "succeeded", es) /\ requests' = requests
    BY <1>6 DEF Succeed, Finish
  <2> HIDE DEF es
  <2> QED BY <2>3, <2>4, FinishFacts DEF Requested
<1>7. ASSUME NEW r \in Ranks, NEW moved \in Moved, Fail(r, moved)
      PROVE  CoreTypes' /\ CoreInv' /\ Final /\ Requested
  <2> DEFINE es == <<Quarantine(r, moved)>>
  <2>1. /\ Quarantine(r, moved) \in EventSet /\ Quarantine(r, moved).rank = r
        /\ Quarantine(r, moved).verdict = Absent
    BY DashboardAssumption, QuarantineTypes
  <2>2. es \in Seq(EventSet) /\ \A i \in DOMAIN es : es[i].rank = r /\ es[i].verdict # "passed"
    BY <2>1, DashboardAssumption
  <2>3. Finish(r, "failed", es) /\ requests' = requests
    BY <1>7 DEF Fail, Finish
  <2> HIDE DEF es
  <2> QED BY <2>2, <2>3, FinishFacts DEF Requested
<1>8. ASSUME NEW r \in Ranks, NEW verdict \in Rejections, Reject(r, verdict)
      PROVE  CoreTypes' /\ CoreInv' /\ Final /\ Requested
  <2> DEFINE es == <<Quarantine(r, TRUE), Verification(r, "failed", verdict)>>
  <2>1. /\ Quarantine(r, TRUE) \in EventSet /\ Quarantine(r, TRUE).rank = r
        /\ Quarantine(r, TRUE).verdict = Absent
    BY QuarantineTypes
  <2>5. verdict \in Verdicts /\ verdict # "passed" /\ Absent # "passed"
    BY DashboardAssumption DEF Verdicts
  <2>2. /\ Verification(r, "failed", verdict) \in EventSet
        /\ Verification(r, "failed", verdict).rank = r
        /\ Verification(r, "failed", verdict).verdict = verdict
    BY <2>5, VerificationTypes
  <2>3. es \in Seq(EventSet) /\ \A i \in DOMAIN es : es[i].rank = r /\ es[i].verdict # "passed"
    <3> DEFINE q == Quarantine(r, TRUE)
               x == Verification(r, "failed", verdict)
    <3>1. /\ q \in EventSet /\ q.rank = r /\ q.verdict # "passed"
          /\ x \in EventSet /\ x.rank = r /\ x.verdict # "passed"
      BY <2>1, <2>2, <2>5
    <3> HIDE DEF q, x
    <3>2. es = <<q, x>>
      BY DEF q, x
    <3> HIDE DEF es
    <3> QED BY <3>1, <3>2
  <2>4. Finish(r, "failed", es) /\ requests' = requests
    BY <1>8 DEF Reject, Finish
  <2> HIDE DEF es
  <2> QED BY <2>3, <2>4, FinishFacts DEF Requested
<1>9. CASE Execute
  BY <1>1, <1>2, <1>9, StartsKeepCore DEF Execute, Requested
<1>10. CASE Rebuild
  BY <1>1, <1>2, <1>10, RebuildKeepsCore DEF Rebuild
<1>11. CASE Recover
  BY <1>11, RecoverFacts DEF Recover, Requested
<1>12. CASE UNCHANGED dashboardVars
  BY <1>2, <1>12 DEF dashboardVars
<1>13. CASE \/ \E c \in Contents : Capture(c)
            \/ Store
            \/ \E state \in Outcomes : Judge(state)
            \/ ReadEvents \/ ReadModel \/ ReadRows \/ CallReturns
            \/ \E action \in Actions : Decide(action)
            \/ \E b \in Versions \cup {Absent} : Confirm(b)
  BY <1>2, <1>13
     DEF Capture, Store, Judge, ReadEvents, ReadModel, ReadRows, CallReturns, Decide, Confirm
<1> QED
  BY <1>3, <1>4, <1>5, <1>6, <1>7, <1>8, <1>9, <1>10, <1>11, <1>12, <1>13 DEF DashboardNext

-----------------------------------------------------------------------------
(***************************************************************************)
(* What a step does to the task, the log, the page and the session.        *)
(***************************************************************************)
LEMMA TaskStep ==
  ASSUME TaskTypes, [DashboardNext]_dashboardVars
  PROVE  TaskTypes'
<1>1. CASE \E c \in Contents : Capture(c)
  BY <1>1 DEF TaskTypes, Capture
<1>2. CASE Store
  BY <1>2 DEF TaskTypes, Store, LogOnce
<1>3. ASSUME NEW state \in Outcomes, Judge(state)
      PROVE  TaskTypes'
  BY <1>3 DEF TaskTypes, Judge, LogOnce
<1>4. CASE UNCHANGED task
  BY <1>4 DEF task, TaskTypes
<1>5. CASE UNCHANGED dashboardVars
  BY <1>4, <1>5 DEF dashboardVars
<1>6. ASSUME NEW r \in Ranks,
             \/ AppendEvent(r) \/ AppendRefused(r) \/ Crash(r) \/ Succeed(r)
             \/ \E moved \in Moved : Fail(r, moved)
             \/ \E verdict \in Rejections : Reject(r, verdict)
      PROVE  TaskTypes'
  BY <1>4, <1>6 DEF AppendEvent, AppendRefused, Crash, Succeed, Fail, Reject, Finish
<1>7. CASE \/ ExecuteByHand
           \/ ReadEvents \/ ReadModel \/ ReadRows
           \/ \E action \in Actions : Decide(action)
           \/ Execute \/ Rebuild \/ CallReturns \/ Recover
           \/ \E b \in Versions \cup {Absent} : Confirm(b)
  BY <1>4, <1>7
     DEF ExecuteByHand, ReadEvents, ReadModel, ReadRows, Decide, Execute, Rebuild, CallReturns,
         Recover, Confirm
<1> QED BY <1>1, <1>2, <1>3, <1>5, <1>6, <1>7 DEF DashboardNext

\* One event, and what it calls passed is recorded as succeeded.
OneEvent == \E e : Logged(e) /\ Logs(e) /\ (e.verdict = "passed" => Done(e.rank))

LEMMA OnceFacts ==
  ASSUME TaskTypes, NEW kind, NEW state \in {"stored"} \cup Outcomes, LogOnce(kind, state)
  PROVE  UNCHANGED shown \/ OneEvent
<1> DEFINE e == [NoEvent EXCEPT !.state = state, !.version = revision]
<1>1. e \in EventSet /\ e.verdict = Absent
  BY NoEventTypes DEF EventSet, TaskTypes, TaskStates, Technical
<1>2. UNCHANGED shown \/ Logs(e)
  BY DEF LogOnce
<1> HIDE DEF e
<1>3. Logged(e) /\ e.verdict # "passed"
  BY <1>1, DashboardAssumption DEF Logged
<1> QED BY <1>2, <1>3 DEF OneEvent

LEMMA ShownStep ==
  ASSUME TaskTypes, CoreTypes, CoreInv, SessionTypes, [DashboardNext]_dashboardVars
  PROVE  UNCHANGED shown \/ OneEvent
<1>1. CASE Store
  BY <1>1, OnceFacts DEF Store
<1>2. ASSUME NEW state \in Outcomes, Judge(state)
      PROVE  UNCHANGED shown \/ OneEvent
  BY <1>2, OnceFacts DEF Judge
<1>3. ASSUME NEW r \in Ranks, AppendEvent(r)
      PROVE  OneEvent
  <2>1. unlogged[r] \in Seq(EventSet) /\ unlogged[r] # <<>> /\ Logs(Head(unlogged[r]))
    BY <1>3 DEF CoreTypes, AppendEvent
  <2> DEFINE e == unlogged[r][1]
  <2>2. 1 \in DOMAIN unlogged[r] /\ Head(unlogged[r]) = e /\ e \in EventSet
    BY <2>1
  <2>3. e.rank = r /\ (e.verdict = "passed" => Done(r))
    BY <2>2 DEF CoreInv
  <2> HIDE DEF e
  <2> QED BY <2>1, <2>2, <2>3 DEF OneEvent, Logged
<1>4. ASSUME NEW action \in Actions, Decide(action)
      PROVE  UNCHANGED shown \/ OneEvent
  <2> DEFINE d == [action |-> action, version |-> page.version]
             e == [NoEvent EXCEPT !.type = "decision", !.decision = d]
  <2>1. d \in Decisions
    BY DEF Decisions, SessionTypes, PageSet
  <2>2. UNCHANGED shown \/ Logs(e)
    BY <1>4 DEF Decide
  <2> HIDE DEF d
  <2>3. e \in EventSet /\ e.verdict = Absent
    BY <2>1, NoEventTypes DEF EventSet
  <2> HIDE DEF e
  <2>4. Logged(e) /\ e.verdict # "passed"
    BY <2>3, DashboardAssumption DEF Logged
  <2> QED BY <2>2, <2>4 DEF OneEvent
<1>5. ASSUME NEW b \in Versions \cup {Absent}, Confirm(b)
      PROVE  UNCHANGED shown \/ OneEvent
  <2> DEFINE e == [NoEvent EXCEPT !.type = "actual_completion", !.state = "actual_completed",
                     !.version = revision, !.completion = TRUE]
  <2>1. UNCHANGED shown \/ Logs(e)
    BY <1>5 DEF Confirm
  <2>2. e \in EventSet /\ e.verdict = Absent
    BY NoEventTypes DEF EventSet, TaskTypes, TaskStates
  <2> HIDE DEF e
  <2>3. Logged(e) /\ e.verdict # "passed"
    BY <2>2, DashboardAssumption DEF Logged
  <2> QED BY <2>1, <2>3 DEF OneEvent
<1>6. ASSUME NEW r \in Ranks,
             \/ AppendRefused(r) \/ Crash(r) \/ Succeed(r)
             \/ \E moved \in Moved : Fail(r, moved)
             \/ \E verdict \in Rejections : Reject(r, verdict)
      PROVE  UNCHANGED shown
  BY <1>6 DEF AppendRefused, Crash, Succeed, Fail, Reject, Finish
<1>7. CASE \/ \E c \in Contents : Capture(c)
           \/ ExecuteByHand
           \/ ReadEvents \/ ReadModel \/ ReadRows
           \/ Execute \/ Rebuild \/ CallReturns \/ Recover
           \/ UNCHANGED dashboardVars
  BY <1>7
     DEF Capture, ExecuteByHand, ReadEvents, ReadModel, ReadRows, Execute, Rebuild, CallReturns,
         Recover, dashboardVars
<1> QED BY <1>1, <1>2, <1>3, <1>4, <1>5, <1>6, <1>7 DEF DashboardNext

\* A page is thrown away, or reads the verdicts, then the model, and then the records.
Read ==
  \/ page' \in {page, NoPage}
  \/ page'.at = "events" /\ page'.verdicts = verdicts
  \/ page'.at = "model" /\ page'.verdicts = page.verdicts
  \/ /\ page'.at = "shown" /\ page'.rows = executions /\ executions' = executions
     /\ \A r \in Ranks : page'.verdicts[r] \in {Absent, page.verdicts[r]}

LEMMA NoPageTypes == NoPage \in PageSet /\ \A r \in Ranks : NoPage.verdicts[r] = Absent
<1>1. NoRecord \in Executed
  BY DashboardAssumption DEF NoRecord, Executed
<1> QED BY <1>1 DEF NoPage, PageSet, Verdicts

LEMMA ReadTypes ==
  ASSUME CoreTypes, ShownTypes, TaskTypes, page \in PageSet,
         ReadEvents \/ ReadModel \/ ReadRows
  PROVE  page' \in PageSet /\ Read
<1>1. CASE ReadEvents
  <2>1. /\ page' = [NoPage EXCEPT !.at = "events", !.verdicts = verdicts]
        /\ verdicts \in [Ranks -> Verdicts]
    BY <1>1 DEF ReadEvents, ShownTypes
  <2> QED BY <2>1, NoPageTypes DEF PageSet, Read
<1>2. CASE ReadModel
  <2> DEFINE n == IF view.version # 0 THEN view.version ELSE revision
  <2>1. page' = [page EXCEPT !.at = "model", !.version = n, !.decision = view.decision.action,
                             !.verdict = view.verdict, !.completed = view.completion]
    BY <1>2 DEF ReadModel
  <2>2. /\ n \in Nat /\ view.decision.action \in Actions \cup {Absent}
        /\ view.verdict \in Verdicts /\ view.completion \in BOOLEAN
    BY DEF ShownTypes, ViewSet, Decisions, TaskTypes
  <2> HIDE DEF n
  <2> QED BY <2>1, <2>2 DEF PageSet, Read
<1>3. CASE ReadRows
  <2> DEFINE f == [r \in Ranks |-> IF executions[r[1]].attempt = r[2]
                                   THEN RowVerdict(r[1], r[2]) ELSE Absent]
  <2>1. page' = [page EXCEPT !.at = "shown", !.rows = executions, !.verdicts = f]
    BY <1>3 DEF ReadRows
  <2>2. ASSUME NEW r \in Ranks
        PROVE  f[r] \in {Absent, page.verdicts[r]} /\ f[r] \in Verdicts
    <3>1. r = <<r[1], r[2]>> /\ page.verdicts[r] \in Verdicts
      BY RankFacts DEF PageSet
    <3>2. RowVerdict(r[1], r[2]) \in {Absent, page.verdicts[r]}
      BY <3>1 DEF RowVerdict
    <3>3. f[r] \in {Absent, page.verdicts[r]}
      BY <3>2
    <3> HIDE DEF f
    <3> QED BY <3>1, <3>3 DEF Verdicts
  <2>3. f \in [Ranks -> Verdicts]
    BY <2>2
  <2>4. executions \in [Versions -> Executed] /\ executions' = executions
    BY <1>3 DEF CoreTypes, ReadRows, core
  <2> HIDE DEF f
  <2> QED BY <2>1, <2>2, <2>3, <2>4 DEF PageSet, Read
<1> QED BY <1>1, <1>2, <1>3

LEMMA PageStep ==
  ASSUME CoreTypes, ShownTypes, TaskTypes, page \in PageSet, [DashboardNext]_dashboardVars
  PROVE  page' \in PageSet /\ Read
<1>1. CASE ReadEvents \/ ReadModel \/ ReadRows
  BY <1>1, ReadTypes
<1>2. CASE page' \in {page, NoPage}
  BY <1>2, NoPageTypes DEF Read
<1>3. ASSUME NEW r \in Ranks,
             \/ AppendEvent(r) \/ AppendRefused(r) \/ Crash(r) \/ Succeed(r)
             \/ \E moved \in Moved : Fail(r, moved)
             \/ \E verdict \in Rejections : Reject(r, verdict)
      PROVE  page' \in {page, NoPage}
  BY <1>3 DEF AppendEvent, AppendRefused, Crash, Succeed, Fail, Reject, Finish
<1>4. CASE \/ \E c \in Contents : Capture(c)
           \/ Store \/ \E state \in Outcomes : Judge(state)
           \/ ExecuteByHand
           \/ \E action \in Actions : Decide(action)
           \/ Execute \/ Rebuild \/ CallReturns \/ Recover
           \/ \E b \in Versions \cup {Absent} : Confirm(b)
           \/ UNCHANGED dashboardVars
  BY <1>2, <1>4
     DEF Capture, Store, Judge, ExecuteByHand, Decide, Execute, Rebuild, CallReturns, Recover,
         Confirm, Click, dashboardVars
<1> QED BY <1>1, <1>2, <1>3, <1>4 DEF DashboardNext

\* A session goes on as it is, is told of a rebuild, or is forgotten.
Continued ==
  \/ session'.nonce = session.nonce /\ session'.counter = session.counter /\ made' = made
  \/ session'.nonce = session.nonce /\ session'.counter = session.counter + 1 /\ made' = made + 1
  \/ session'.nonce = session.nonce + 1 /\ session'.counter = 1 /\ made' = 0
SessionSet == [nonce : Nat, counter : Nat, waits : AnyRank]

LEMMA SessionStep ==
  ASSUME CoreTypes', SessionTypes, [DashboardNext]_dashboardVars
  PROVE  session' \in SessionSet /\ deaths' \in Nat /\ made' \in Nat /\ Continued
<1>1. session \in SessionSet /\ deaths \in Nat /\ made \in Nat /\ NoRank \in AnyRank
  BY RankFacts DEF SessionTypes, SessionSet
<1>2. ASSUME NEW ok \in BOOLEAN, session' = Answered(ok), made' = IF ok THEN made + 1 ELSE made,
             deaths' = deaths
      PROVE  session' \in SessionSet /\ deaths' \in Nat /\ made' \in Nat /\ Continued
  <2> DEFINE n == IF ok THEN session.counter + 1 ELSE session.counter
  <2>1. session' = [session EXCEPT !.counter = n, !.waits = NoRank]
    BY <1>2 DEF Answered
  <2>2. n \in Nat
    BY <1>1 DEF SessionSet
  <2>3. session'.counter = n /\ session'.nonce = session.nonce /\ session' \in SessionSet
    BY <1>1, <2>1, <2>2 DEF SessionSet
  <2> QED BY <1>1, <1>2, <2>3 DEF Continued
<1>3. CASE UNCHANGED <<session, made>> /\ deaths' \in {deaths, deaths + 1}
  BY <1>1, <1>3 DEF Continued
<1>4. CASE Rebuild
  <2>1. CASE session' = Answered(TRUE) /\ made' = made + 1
    BY <1>2, <1>4, <2>1 DEF Rebuild
  <2>2. CASE UNCHANGED made /\ \E r \in live' \ live : Waits(r)
    <3>1. PICK r \in live' \ live : Waits(r)
      BY <2>2
    <3>2. r \in AnyRank /\ session' = [session EXCEPT !.waits = r]
      BY <3>1, RankFacts DEF CoreTypes, Waits
    <3>3. deaths' = deaths
      BY <1>4 DEF Rebuild
    <3> QED BY <1>1, <2>2, <3>2, <3>3 DEF SessionSet, Continued
  <2> QED BY <1>4, <2>1, <2>2 DEF Rebuild
<1>5. CASE CallReturns
  BY <1>2, <1>5 DEF CallReturns
<1>6. ASSUME NEW r \in Ranks, Crash(r)
      PROVE  session' \in SessionSet /\ deaths' \in Nat /\ made' \in Nat /\ Continued
  <2>1. CASE session.waits = r
    BY <1>1, <1>6, <2>1 DEF Crash, SessionSet, Continued
  <2>2. CASE session.waits # r
    BY <1>3, <1>6, <2>2 DEF Crash
  <2> QED BY <2>1, <2>2
<1>7. ASSUME NEW r \in Ranks,
             \/ AppendEvent(r) \/ AppendRefused(r) \/ Succeed(r)
             \/ \E moved \in Moved : Fail(r, moved)
             \/ \E verdict \in Rejections : Reject(r, verdict)
      PROVE  UNCHANGED <<session, made>> /\ deaths' \in {deaths, deaths + 1}
  BY <1>7 DEF AppendEvent, AppendRefused, Succeed, Fail, Reject, Finish
<1>8. CASE \/ \E c \in Contents : Capture(c)
           \/ Store \/ \E state \in Outcomes : Judge(state)
           \/ ExecuteByHand
           \/ ReadEvents \/ ReadModel \/ ReadRows
           \/ \E action \in Actions : Decide(action)
           \/ Execute \/ Recover
           \/ \E b \in Versions \cup {Absent} : Confirm(b)
           \/ UNCHANGED dashboardVars
  BY <1>3, <1>8
     DEF Capture, Store, Judge, ExecuteByHand, ReadEvents, ReadModel, ReadRows, Decide, Execute,
         Recover, Confirm, dashboardVars
<1> QED BY <1>3, <1>4, <1>5, <1>6, <1>7, <1>8 DEF DashboardNext

-----------------------------------------------------------------------------
(***************************************************************************)
(* The theorems.                                                           *)
(***************************************************************************)
DashboardInv ==
  DashboardTypeOK /\ CoreInv /\ ShownInv /\ PassedInv /\ SessionInv

LEMMA PassedStep ==
  ASSUME PassedInv, CoreTypes, ShownTypes, SessionTypes, Final, Read, page' \in PageSet,
         UNCHANGED shown \/ OneEvent
  PROVE  PassedInv'
<1>1. ASSUME NEW r \in Ranks, verdicts'[r] = "passed"
      PROVE  Done(r)'
  <2>1. CASE UNCHANGED shown
    BY <1>1, <2>1 DEF shown, PassedInv, Final
  <2>2. CASE OneEvent
    <3>1. PICK e : Logged(e) /\ Logs(e) /\ (e.verdict = "passed" => Done(e.rank))
      BY <2>2 DEF OneEvent
    <3>2. verdicts'[r] = IF r = e.rank /\ e.verdict # Absent THEN e.verdict ELSE verdicts[r]
      BY <3>1, LogsTypes
    <3> QED BY <1>1, <3>1, <3>2 DEF PassedInv, Final
  <2> QED BY <2>1, <2>2
<1>2. ASSUME NEW r \in Ranks, page'.verdicts[r] = "passed"
      PROVE  Done(r)'
  <2>1. page.verdicts[r] = "passed" \/ verdicts[r] = "passed"
    BY <1>2, NoPageTypes, DashboardAssumption DEF Read
  <2> QED BY <2>1 DEF PassedInv, Final
<1>3. ASSUME NEW r \in Ranks, page'.at = "shown", page'.verdicts[r] = "passed"
      PROVE  page'.rows[r[1]] = [state |-> "succeeded", attempt |-> r[2]]
  <2>1. CASE page' = page
    BY <1>3, <2>1 DEF PassedInv, PassedRowSucceeded
  <2>2. CASE page' = NoPage
    BY <1>3, <2>2, NoPageTypes, DashboardAssumption
  <2>3. CASE page'.rows = executions /\ executions' = executions
    BY <1>2, <1>3, <2>3 DEF Done
  <2> QED BY <1>3, <2>1, <2>2, <2>3 DEF Read
<1> QED BY <1>1, <1>2, <1>3 DEF PassedInv, PassedRowSucceeded

LEMMA SessionKept ==
  ASSUME SessionInv, CoreTypes, SessionTypes, Requested, Continued
  PROVE  SessionInv'
<1>1. /\ requests \in Seq(Nat \X Nat) /\ made \in Nat
      /\ session.nonce \in Nat /\ session.counter \in Nat
      /\ session.nonce > 0 /\ session.counter = made + 1
  BY DEF CoreTypes, SessionTypes, SessionInv
<1>2. PICK id \in {<<0, 1>>, RequestId} :
        requests' = requests \/ (~IsReserved(id) /\ requests' = Append(requests, id))
  BY DEF Requested
<1>3. id \in Nat \X Nat /\ (id = <<0, 1>> \/ id = <<session.nonce, session.counter>>)
  BY <1>1, <1>2 DEF RequestId
<1>4. ASSUME NEW n \in DOMAIN requests'
      PROVE  (n \in DOMAIN requests /\ requests'[n] = requests[n])
             \/ (n = Len(requests) + 1 /\ requests'[n] = id /\ ~IsReserved(id))
  <2>1. CASE requests' = requests
    BY <1>4, <2>1
  <2>2. CASE ~IsReserved(id) /\ requests' = Append(requests, id)
    <3>1. /\ DOMAIN requests' = 1..(Len(requests) + 1) /\ Len(requests) \in Nat
          /\ DOMAIN requests = 1..Len(requests)
          /\ requests'[Len(requests) + 1] = id
          /\ \A k \in DOMAIN requests : requests'[k] = requests[k]
      BY <1>1, <1>3, <2>2
    <3>2. n \in DOMAIN requests \/ n = Len(requests) + 1
      BY <1>4, <3>1
    <3> QED BY <2>2, <3>1, <3>2
  <2> QED BY <1>2, <2>1, <2>2
<1>5. ASSUME NEW n \in DOMAIN requests'
      PROVE  /\ requests'[n] \in Nat \X Nat /\ requests'[n][1] <= session.nonce
             /\ requests'[n][1] = session.nonce => requests'[n][2] \in 1..session.counter
  <2>1. CASE n \in DOMAIN requests /\ requests'[n] = requests[n]
    BY <1>1, <2>1 DEF SessionInv
  <2>2. CASE requests'[n] = id
    BY <1>1, <1>3, <2>2
  <2> QED BY <1>4, <1>5, <2>1, <2>2
<1>6. ASSUME NEW n \in DOMAIN requests', NEW m \in DOMAIN requests', requests'[n] = requests'[m]
      PROVE  n = m
  <2>1. \A k \in DOMAIN requests : ~IsReserved(id) => requests[k] # id
    BY DEF IsReserved
  <2> QED BY <1>4, <1>6, <2>1 DEF SessionInv
<1>7. /\ session'.nonce \in Nat /\ session'.nonce > 0 /\ session'.counter = made' + 1
      /\ session'.nonce >= session.nonce
      /\ session'.nonce = session.nonce => session'.counter >= session.counter
      /\ session'.counter \in Nat
  BY <1>1 DEF Continued
<1>8. ASSUME NEW n \in DOMAIN requests'
      PROVE  /\ requests'[n][1] <= session'.nonce
             /\ requests'[n][1] = session'.nonce => requests'[n][2] \in 1..session'.counter
  <2> DEFINE x == requests'[n][1]
             y == requests'[n][2]
  <2>1. x \in Nat /\ y \in Nat /\ x <= session.nonce
        /\ (x = session.nonce => y \in 1..session.counter)
    BY <1>5, <1>8
  <2> HIDE DEF x, y
  <2>2. x <= session'.nonce /\ (x = session'.nonce => y \in 1..session'.counter)
    BY <1>1, <1>7, <2>1
  <2> QED BY <2>2 DEF x, y
<1> QED BY <1>6, <1>7, <1>8 DEF SessionInv

LEMMA DashboardStarts == DashboardInit => DashboardInv
<1> SUFFICES ASSUME DashboardInit
             PROVE  DashboardInv
  OBVIOUS
<1>1. NoRecord \in Executed /\ NoRank \in AnyRank /\ MaxVersion \in Nat \ {0}
  BY DashboardAssumption, RankFacts DEF NoRecord, Executed
<1>2. TaskTypes
  BY DEF DashboardInit, TaskTypes
<1>3. CoreTypes
  BY <1>1 DEF DashboardInit, CoreTypes
<1>4. NoView \in ViewSet
  BY <1>1, NoEventTypes DEF NoView, ViewSet, TaskStates, Verdicts
<1>5. ShownTypes
  BY <1>4 DEF DashboardInit, ShownTypes, Verdicts
<1>6. SessionTypes
  BY <1>1, NoPageTypes DEF DashboardInit, SessionTypes
<1>7. CoreInv
  BY DEF DashboardInit, CoreInv, NoRecord
<1>8. ShownInv
  BY DEF DashboardInit, ShownInv, ShownIsNewestResult, NoView
<1>9. PassedInv
  BY NoPageTypes, DashboardAssumption DEF DashboardInit, PassedInv, PassedRowSucceeded
<1>10. SessionInv
  BY DEF DashboardInit, SessionInv
<1> QED BY <1>2, <1>3, <1>5, <1>6, <1>7, <1>8, <1>9, <1>10 DEF DashboardInv, DashboardTypeOK

LEMMA DashboardGoesOn ==
  ASSUME DashboardInv, [DashboardNext]_dashboardVars
  PROVE  DashboardInv'
<1>1. /\ TaskTypes /\ CoreTypes /\ ShownTypes /\ SessionTypes
      /\ CoreInv /\ ShownInv /\ PassedInv /\ SessionInv /\ page \in PageSet
  BY DEF DashboardInv, DashboardTypeOK, SessionTypes
<1>2. TaskTypes'
  BY <1>1, TaskStep
<1>3. CoreTypes' /\ CoreInv' /\ Final /\ Requested
  BY <1>1, CoreStep
<1>4. UNCHANGED shown \/ OneEvent
  BY <1>1, ShownStep
<1>5. ShownTypes' /\ ShownInv'
  <2>1. CASE UNCHANGED shown
    BY <1>1, <2>1 DEF shown, ShownTypes, ShownInv, ShownIsNewestResult
  <2>2. CASE OneEvent
    BY <1>1, <2>2, LogsTypes, LogsKeepShown DEF OneEvent
  <2> QED BY <1>4, <2>1, <2>2
<1>6. page' \in PageSet /\ Read
  BY <1>1, PageStep
<1>7. session' \in SessionSet /\ deaths' \in Nat /\ made' \in Nat /\ Continued
  BY <1>1, <1>3, SessionStep
<1>8. SessionTypes'
  BY <1>6, <1>7 DEF SessionTypes, SessionSet
<1>9. PassedInv'
  BY <1>1, <1>3, <1>4, <1>6, PassedStep
<1>10. SessionInv'
  BY <1>1, <1>3, <1>7, SessionKept
<1> QED BY <1>2, <1>3, <1>5, <1>8, <1>9, <1>10 DEF DashboardInv, DashboardTypeOK

LEMMA DashboardAlways == DashboardSpec => []DashboardInv
<1>1. DashboardInv /\ [DashboardNext]_dashboardVars => DashboardInv'
  BY DashboardGoesOn
<1> QED BY <1>1, DashboardStarts, PTL DEF DashboardSpec

\* The fold of the log, the records, the pages and the session keep their types.
THEOREM DashboardTypesHold == DashboardSpec => []DashboardTypeOK
<1>1. DashboardInv => DashboardTypeOK
  BY DEF DashboardInv
<1> QED BY <1>1, DashboardAlways, PTL

\* Whatever the order in which the events of the attempts come, what is shown of a task is the
\* newest of its attempts that is in the log, with the verdict on that attempt and no other.
THEOREM NewestIsShown == DashboardSpec => []ShownIsNewestResult
<1>1. DashboardInv => ShownIsNewestResult
  BY DEF DashboardInv, ShownInv
<1> QED BY <1>1, DashboardAlways, PTL

\* A row that is shown as passed is the row of an execution that succeeded: a verdict is about an
\* attempt, its record came first, and a record that says succeeded is never taken back.
THEOREM PassedRowsSucceeded == DashboardSpec => []PassedRowSucceeded
<1>1. DashboardInv => PassedRowSucceeded
  BY DEF DashboardInv, PassedInv
<1> QED BY <1>1, DashboardAlways, PTL

\* The versions that a session has asked for have different counters, up to the one it asks with.
LEMMA VersionsCounted ==
  ASSUME DashboardInv
  PROVE  RetriedRebuildIsOneVersion
<1> DEFINE S == {n \in DOMAIN requests : requests[n][1] = session.nonce}
           T == 1..session.counter
           f == [n \in S |-> requests[n][2]]
<1>1. /\ requests \in Seq(Nat \X Nat) /\ made \in Nat /\ session.counter = made + 1
      /\ session.counter \in Nat
      /\ \A n \in S : requests[n][2] \in T
      /\ \A n, m \in DOMAIN requests : requests[n] = requests[m] => n = m
  BY DEF DashboardInv, DashboardTypeOK, CoreTypes, SessionTypes, SessionInv
<1>2. \A n \in S : requests[n] = <<session.nonce, requests[n][2]>>
  BY <1>1
<1>3. f \in [S -> T]
  BY <1>1
<1>4. ASSUME NEW n \in S, NEW m \in S, f[n] = f[m]
      PROVE  n = m
  <2>1. requests[n][2] = requests[m][2]
    BY <1>4
  <2>2. requests[n] = requests[m]
    BY <1>2, <2>1
  <2> QED BY <1>1, <2>2
<1>5. f \in Injection(S, T)
  BY <1>3, <1>4 DEF Injection, IsInjective
<1>6. IsFiniteSet(T) /\ Cardinality(T) = made + 1
  BY <1>1, FS_Interval
<1>7. S = {n \in DOMAIN requests : requests[n][1] = session.nonce}
  OBVIOUS
<1> HIDE DEF S, T, f
<1>8. Cardinality(S) <= made + 1
  BY <1>5, <1>6, FS_Injection
<1> QED BY <1>7, <1>8 DEF RetriedRebuildIsOneVersion

\* A session has at most one version of a result that it was not told of, however often a rebuild
\* fails, dies or is asked for again.
THEOREM RetriesMakeOneVersion == DashboardSpec => []RetriedRebuildIsOneVersion
<1> QED BY VersionsCounted, DashboardAlways, PTL
=============================================================================
