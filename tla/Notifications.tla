---------------------------- MODULE Notifications ----------------------------
(***************************************************************************)
(* automation/notifications.py and automation/notification_store.py: what  *)
(* people are told of an event of the core, over which channel, and how    *)
(* often.                                                                  *)
(*                                                                         *)
(* A notification is known by its key: task, class of event, channel and   *)
(* version.  deliver_with_profile takes the lock of the delivery file,     *)
(* looks up the latest record of the key, sends or queues the message and  *)
(* appends a record; flush_batched does the same for what is queued.  The  *)
(* core itself has no transport and only queues; adapters that have one    *)
(* deliver and flush.  The model has one task in one version: keys differ  *)
(* in class and channel.                                                   *)
(*                                                                         *)
(* A message longer than a chunk is sent in parts, so that a round of      *)
(* sending which fails may have told a part.  A worker may die at any      *)
(* step, also while it appends: half a line spoils the line after it.      *)
(* The text of a message is left out, but for one that the store refuses.  *)
(***************************************************************************)
EXTENDS Naturals, Sequences, FiniteSets, FiniteSetsExt, SequencesExt

CONSTANTS
  Workers,
  States,         \* states of pipeline events that may be notified
  Channels,
  Ids,            \* profile ids
  Offered,        \* the profiles people save: [channels, batched, max]
  Refused,        \* classes whose message the store refuses to keep
  None,
  MaxCalls, MaxCrashes, MaxSaves   \* bounds: calls of the workers, deaths, saved profiles

Classes ==
  {"new_task", "classification_review", "failure", "preparation_started",
   "preparation_completed"}
Keys == Classes \X Channels

ASSUME NotificationsAssumption ==
  /\ "local" \in Channels /\ "default" \in Ids /\ Refused \subseteq Classes
  /\ Offered \subseteq [channels : Seq(Channels), batched : SUBSET Classes, max : 1..10]
  /\ \A p \in Offered : p.channels # <<>> /\ IsInjective(p.channels)
  /\ None \notin Workers \cup Offered /\ None \notin {"queued", "delivered", "failed"}
  /\ {MaxCalls, MaxCrashes, MaxSaves} \subseteq Nat

VARIABLES
  profiles,       \* profiles.json: id -> profile, or None
  records,        \* the lines of deliveries.jsonl that can be read
  torn,           \* how the file ends: "no", or torn by a crash (see Die)
  young,          \* number of the first record that is not older than 90 days
  lock,           \* holder of deliveries.lock
  pc, mem,
  calls, crashes, saves,
  rounds,         \* history: key -> rounds of sending begun
  unrecorded      \* history: key -> rounds that left no record that can be read

store  == <<records, torn, young>>
bounds == <<calls, crashes, saves>>
vars   == <<profiles, store, lock, pc, mem, bounds, rounds, unrecorded>>

NoWork == [jobs |-> <<>>, transport |-> FALSE, flush |-> FALSE, status |-> None, again |-> FALSE]

Init ==
  /\ profiles = [i \in Ids |-> None]
  /\ records = <<>> /\ torn = "no" /\ young = 1
  /\ lock = None
  /\ pc = [w \in Workers |-> "idle"]
  /\ mem = [w \in Workers |-> NoWork]
  /\ calls = 0 /\ crashes = 0 /\ saves = 0
  /\ rounds = [k \in Keys |-> 0] /\ unrecorded = [k \in Keys |-> 0]

Goto(w, p) == pc' = [pc EXCEPT ![w] = p]
Job(w)     == Head(mem[w].jobs)
Key(w)     == Job(w).key

-----------------------------------------------------------------------------
(***************************************************************************)
(* The delivery file.                                                      *)
(***************************************************************************)
Of(k) == {n \in DOMAIN records : records[n].key = k}

\* mutant: attempts that failed are not counted
NextAfterQueued(k) == Cardinality({n \in Of(k) : records[n].status = "queued"}) + 1

NextAttempt(k) ==
  IF torn = "char" THEN 1 ELSE Max({records[n].attempt : n \in Of(k)} \cup {0}) + 1

Nothing == [status |-> None, again |-> TRUE]

\* mutant: what was recorded first counts
EarliestDelivery(k) ==
  IF Of(k) = {} \/ torn = "char" THEN Nothing ELSE records[Min(Of(k))]

\* The highest attempt, and the later record of two.
LatestDelivery(k) ==
  IF Of(k) = {} \/ torn = "char" THEN Nothing
  ELSE LET top == Max({records[n].attempt : n \in Of(k)})
       IN records[Max({n \in Of(k) : records[n].attempt = top})]

\* A second line for what has been delivered, and one that counts an attempt again, is refused.
Accepts(r) ==
  \A n \in Of(r.key) : records[n].status # "delivered" /\ records[n].attempt < r.attempt

\* A file that ends within a character cannot be decoded: it reads as empty.
Unreadable == torn = "char"

\* What a round of sending leaves: every record but a queued one.
IsRound(r) == r.status # "queued"

Miss(k) == [unrecorded EXCEPT ![k] = @ + 1]
Missed(r) == unrecorded' = IF IsRound(r) THEN Miss(r.key) ELSE unrecorded

\* The line that follows a torn one continues it, and neither can be read.
Appended(r) ==
  IF ~Accepts(r) THEN UNCHANGED <<store, unrecorded>>
  ELSE CASE torn = "no" ->
              records' = Append(records, r) /\ UNCHANGED <<torn, young, unrecorded>>
         [] torn = "line" -> torn' = "no" /\ Missed(r) /\ UNCHANGED <<records, young>>
         [] torn = "end" ->
              /\ torn' = "no" /\ records' = Front(records)
              /\ young' = Min({young, Len(records)})
              /\ unrecorded' = [k \in Keys |->
                   unrecorded[k] + Cardinality({x \in {Last(records), r} : x.key = k /\ IsRound(x)})]

-----------------------------------------------------------------------------
(***************************************************************************)
(* What is to be told.                                                     *)
(***************************************************************************)
Class(state) ==
  CASE state \in {"stored", "received"}                                -> "new_task"
    [] state \in {"review_required", "blocked"}                        -> "classification_review"
    [] state \in {"failed", "render_failed", "execution_failed", "verification_failed",
                  "verification_unverifiable"}                         -> "failure"
    [] state \in {"executing", "execution_started"}                    -> "preparation_started"
    [] state \in {"succeeded", "execution_completed", "verification_recorded"}
                                                                       -> "preparation_completed"
    [] OTHER -> None

Default == [channels |-> <<"local">>, batched |-> {"preparation_started", "preparation_completed"},
            max |-> 3]

Jobs(profile, class) ==
  [n \in DOMAIN profile.channels |->
     [key |-> <<class, profile.channels[n]>>, batched |-> class \in profile.batched,
      max |-> profile.max]]

Configured == {i \in Ids : profiles[i] # None}
ProfileOf(i) == IF profiles[i] = None THEN Default ELSE profiles[i]

SaveProfile(i, p) ==
  /\ saves < MaxSaves /\ saves' = saves + 1
  /\ profiles' = [profiles EXCEPT ![i] = p]
  /\ UNCHANGED <<store, lock, pc, mem, calls, crashes, rounds, unrecorded>>

Begin(w, jobs, transport, flush) ==
  /\ pc[w] = "idle" /\ jobs # <<>> /\ calls < MaxCalls /\ calls' = calls + 1
  /\ mem' = [mem EXCEPT ![w] = [NoWork EXCEPT !.jobs = jobs, !.transport = transport,
                                             !.flush = flush]]
  /\ Goto(w, "next")
  /\ UNCHANGED <<profiles, store, lock, crashes, saves, rounds, unrecorded>>

\* The core tells every profile, one after the other, and has no transport.
NotifyPipelineEvent(w, state) ==
  /\ Class(state) # None
  /\ LET ids == SetToSeq(Configured)
         all == IF ids = <<>> THEN <<Default>> ELSE [n \in DOMAIN ids |-> profiles[ids[n]]]
     IN Begin(w, FlattenSeq([n \in DOMAIN all |-> Jobs(all[n], Class(state))]), FALSE, FALSE)

\* taskctl notify tells one profile that a decision is due.
NotifyByHand(w, state, i) ==
  /\ state \in {"review_required", "blocked"}
  /\ LET class == IF state = "review_required" THEN "classification_review" ELSE "failure"
     IN Begin(w, Jobs(ProfileOf(i), class), FALSE, FALSE)

\* An adapter with a transport delivers at once what the profile wants at once.
DeliverWithProfile(w, state, i) ==
  /\ Class(state) # None
  /\ Begin(w, Jobs(ProfileOf(i), Class(state)), TRUE, FALSE)

\* The keys are collected before the lock is taken, from the records of the last 90 days.
FlushBatched(w) ==
  LET seen == IF Unreadable THEN {} ELSE {records[n].key : n \in young..Len(records)}
      Flush(k) == [key |-> k, batched |-> FALSE, max |-> 0]
      keys == SetToSeq(seen)
  IN Begin(w, [n \in DOMAIN keys |-> Flush(keys[n])], TRUE, TRUE)

-----------------------------------------------------------------------------
(***************************************************************************)
(* One key: looked up, sent and recorded under the lock of the file.       *)
(***************************************************************************)
\* Nothing is to be done: it was told, it waits for a flush, or it was tried often enough.
Settled(w) ==
  LET prior == LatestDelivery(Key(w))
  IN IF mem[w].flush THEN prior.status # "queued"
     ELSE \/ prior.status \in {"delivered", "queued"}
          \/ prior.status = "failed" /\ ~prior.again
          \/ NextAttempt(Key(w)) > Job(w).max

MayLook(w) == pc[w] = "next" /\ lock = None

\* The next key, or the end of the call.
GoOn(w) ==
  /\ mem' = [mem EXCEPT ![w] = IF Len(mem[w].jobs) = 1 THEN NoWork
                               ELSE [mem[w] EXCEPT !.jobs = Tail(mem[w].jobs)]]
  /\ Goto(w, IF Len(mem[w].jobs) = 1 THEN "idle" ELSE "next")

Skip(w) ==
  /\ MayLook(w) /\ Settled(w) /\ GoOn(w)
  /\ UNCHANGED <<profiles, store, lock, bounds, rounds, unrecorded>>

Result(w, status, again) == mem' = [mem EXCEPT ![w].status = status, ![w].again = again]

Queue(w) ==
  /\ MayLook(w) /\ ~Settled(w) /\ (Job(w).batched \/ ~mem[w].transport)
  /\ lock' = w /\ Goto(w, "write") /\ Result(w, "queued", TRUE)
  /\ UNCHANGED <<profiles, store, bounds, rounds, unrecorded>>

Send(w) ==
  /\ MayLook(w) /\ ~Settled(w) /\ ~Job(w).batched /\ mem[w].transport
  /\ lock' = w /\ Goto(w, "send")
  /\ rounds' = [rounds EXCEPT ![Key(w)] = @ + 1]
  /\ UNCHANGED <<profiles, store, mem, bounds, unrecorded>>

\* The transport takes every part of the message, or raises; what it raises may be worth a retry.
Sent(w, ok, passing) ==
  LET last == ~mem[w].flush /\ NextAttempt(Key(w)) >= Job(w).max
  IN /\ pc[w] = "send" /\ Goto(w, "write")
     /\ Result(w, IF ok THEN "delivered" ELSE "failed", ~ok /\ passing /\ ~last)
     /\ UNCHANGED <<profiles, store, lock, bounds, rounds, unrecorded>>

Line(w) ==
  [key |-> Key(w), status |-> mem[w].status, attempt |-> NextAttempt(Key(w)),
   again |-> mem[w].again]

\* The store raises: it cannot read the file, or it does not keep such a message.
WriteFails(w) == Unreadable \/ (Line(w).status = "queued" /\ Key(w)[1] \in Refused)

Write(w) ==
  /\ pc[w] = "write" /\ ~WriteFails(w)
  /\ Appended(Line(w)) /\ GoOn(w) /\ lock' = None
  /\ UNCHANGED <<profiles, bounds, rounds>>

\* The rest of the channels, and the rest of the profiles, are not told.
WriteRaises(w) ==
  /\ pc[w] = "write" /\ WriteFails(w)
  /\ Missed(Line(w)) /\ lock' = None
  /\ Goto(w, "idle") /\ mem' = [mem EXCEPT ![w] = NoWork]
  /\ UNCHANGED <<profiles, store, bounds, rounds>>

-----------------------------------------------------------------------------
(***************************************************************************)
(* Faults.                                                                 *)
(***************************************************************************)
Gone(w) ==
  /\ crashes < MaxCrashes /\ crashes' = crashes + 1
  /\ lock' = IF lock = w THEN None ELSE lock
  /\ Goto(w, "idle") /\ mem' = [mem EXCEPT ![w] = NoWork]
  /\ UNCHANGED <<profiles, calls, saves, rounds>>

\* A worker dies before it appends anything.
Die(w) ==
  /\ pc[w] # "idle" /\ Gone(w)
  /\ \/ pc[w] = "next" /\ UNCHANGED unrecorded
     \/ pc[w] = "send" /\ unrecorded' = Miss(Key(w))
     \/ pc[w] = "write" /\ Missed(Line(w))
  /\ UNCHANGED store

\* ... while it appends: half a line is written ("line"), all of it but its end ("end"), or,
\* in the text of a queued message, half a character ("char").  One tear at a time.
DieInWrite(w, how) ==
  /\ pc[w] = "write" /\ torn = "no" /\ Accepts(Line(w)) /\ ~WriteFails(w) /\ Gone(w)
  /\ how = "char" => Line(w).status = "queued"
  /\ torn' = how
  /\ IF how = "end" THEN records' = Append(records, Line(w)) /\ UNCHANGED <<young, unrecorded>>
     ELSE Missed(Line(w)) /\ UNCHANGED <<records, young>>

\* The oldest record is older than 90 days.
Age ==
  /\ young <= Len(records) /\ young' = young + 1
  /\ UNCHANGED <<profiles, records, torn, lock, pc, mem, bounds, rounds, unrecorded>>

-----------------------------------------------------------------------------
Call(w) ==
  \/ \E s \in States : NotifyPipelineEvent(w, s)
  \/ \E s \in States, i \in Ids : NotifyByHand(w, s, i) \/ DeliverWithProfile(w, s, i)
  \/ FlushBatched(w)

Step(w) ==
  \/ Skip(w)
  \/ Queue(w)
  \/ Send(w)
  \/ \E ok, passing \in BOOLEAN : Sent(w, ok, passing)
  \/ Write(w)
  \/ WriteRaises(w)

Next ==
  \/ \E i \in Ids, p \in Offered : SaveProfile(i, p)
  \/ \E w \in Workers : Call(w) \/ Step(w) \/ Die(w)
  \/ \E w \in Workers, how \in {"line", "end", "char"} : DieInWrite(w, how)
  \/ Age

Spec == Init /\ [][Next]_vars

-----------------------------------------------------------------------------
(***************************************************************************)
(* Properties.                                                             *)
(***************************************************************************)
Told(k) == \E n \in Of(k) : records[n].status = "delivered"
InFlight(k) ==
  Cardinality({w \in Workers : /\ pc[w] = "send" \/ (pc[w] = "write" /\ mem[w].status # "queued")
                               /\ Key(w) = k})

\* What the delivery file says was delivered is not sent again, by no profile, event or flush,
\* as long as the file can be read: "A stable delivery key deduplicates a successful attempt"
\* (deliver_with_profile), also against the other processes that deliver and flush.
DeliveredIsNotResent ==
  [][\A k \in Keys : (rounds'[k] > rounds[k] /\ ~Unreadable) => ~Told(k)]_vars

\* Every round of sending is on the file, but for the ones a crash or an unreadable file took,
\* and a key is tried at most once more than the most patient profile allows: the count of
\* attempts, which flush_batched continues without a limit, is never lost or started again.
AttemptsAreCounted ==
  \A k \in Keys :
    LET kept == {n \in Of(k) : IsRound(records[n])}
    IN /\ rounds[k] = Cardinality(kept) + InFlight(k) + unrecorded[k]
       /\ Cardinality(kept) <= 1 + Max({p.max : p \in Offered \cup {Default}})

=============================================================================
