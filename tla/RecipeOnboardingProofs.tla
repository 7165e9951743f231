----------------------- MODULE RecipeOnboardingProofs -----------------------
(***************************************************************************)
(* Proofs about RecipeOnboarding, for any processes, declarations, tasks   *)
(* and bounds.                                                             *)
(*                                                                         *)
(* Writes of whole drafts may bring back an old draft, but never a draft   *)
(* that was not consistent when it was read: every draft in the file or in *)
(* the memory of a process carries evidence about itself.  The version     *)
(* file is created exclusively, so the process that has created it is the  *)
(* only one that writes it, and a file that is complete never changes.     *)
(***************************************************************************)
EXTENDS RecipeOnboarding, TLAPS

Declaration(d) == [version |-> d.version, content |-> d.content]

\* A session of T is the one that evidence or a pointer r names.
Named(r, T) == \E t \in T : Identity(t) = Identity(r) /\ RanWhatItNames(t)

\* A draft carries evidence about itself, found among passed sessions T and reviews R.
Sound(d, T, R) ==
  /\ d \in Draft
  /\ d.test # None =>
       /\ d.test.version = d.version /\ d.test.content = d.content
       /\ Named(d.test, T)
  /\ d.status \in {"tested", "reviewed"} => d.test # None
  /\ d.status = "reviewed" => Declaration(d) \in R

DraftIsSound == draft # None => Sound(draft, tested, reviews)
WorkIsSound  == \A w \in Workers : pc[w] # "idle" => Sound(mem[w].draft, tested, reviews)

\* What an activation is going to point to.
Target(w) == [version |-> mem[w].draft.version, content |-> mem[w].draft.content,
              capability |-> mem[w].capability]
Activating(w) == pc[w] \in {"create", "complete", "point"}
Creator(w)    == pc[w] \in {"complete", "point"}

\* What a test runs is what is installed, until an upgrade overtakes it.
TestIsUnderWay == \A w \in Workers : pc[w] = "test" =>
  /\ mem[w].task \in Tasks
  /\ mem[w].ran = capability \/ mem[w].upgraded

Certified ==
  \A w \in Workers : Activating(w) =>
    Named(Target(w), tested) /\ Declaration(mem[w].draft) \in reviews

\* The only file of its version is the one the activation has created.
OwnFile ==
  \A w \in Workers : Creator(w) =>
    /\ FileOf(w, pc[w] = "point") \in files
    /\ \A f \in files : f.version = mem[w].draft.version => f = FileOf(w, pc[w] = "point")

OneCreator ==
  \A v, w \in Workers :
    v # w /\ Creator(v) /\ Creator(w) => mem[v].draft.version # mem[w].draft.version

Inv == /\ TypeOK /\ DraftIsSound /\ WorkIsSound /\ TestIsUnderWay /\ Certified
       /\ OwnFile /\ OneCreator /\ PointerIsReadable /\ ActiveWasTestedAndReviewed

-----------------------------------------------------------------------------
\* Evidence is only added, so a sound draft stays sound.
LEMMA SoundGrows ==
  ASSUME NEW d, NEW T, NEW R, NEW T2, NEW R2, T \subseteq T2, R \subseteq R2, Sound(d, T, R)
  PROVE  Sound(d, T2, R2)
BY DEF Sound, Named

LEMMA InitInv == Init => Inv
<1> SUFFICES ASSUME Init PROVE Inv
  OBVIOUS
<1>1. NoWork \in Work
  BY DEF NoWork, Work
<1> QED
  BY <1>1 DEF Init, Inv, TypeOK, DraftIsSound, WorkIsSound, TestIsUnderWay, Certified, OwnFile,
              OneCreator, PointerIsReadable, ActiveWasTestedAndReviewed, Activating, Creator, Points

\* A process that reads the draft or works on it, and leaves the files alone.
LEMMA Carries ==
  ASSUME Inv, NEW w \in Workers, NEW s \in {"write", "test", "create"}, NEW m \in Work,
         tested \subseteq tested', reviews \subseteq reviews',
         tested' \subseteq Session,
         reviews' \subseteq [version : Nat, content : Contents],
         Sound(m.draft, tested', reviews'),
         s = "test" => m.task \in Tasks /\ m.ran = capability,
         s = "create" => /\ Named([version |-> m.draft.version, content |-> m.draft.content,
                                   capability |-> m.capability], tested')
                         /\ Declaration(m.draft) \in reviews',
         Goto(w, s), mem' = [mem EXCEPT ![w] = m],
         UNCHANGED <<draft, files, pointer, capability>>
  PROVE  Inv'
<1> USE DEF Goto
<1>1. /\ pc' \in [Workers -> Points] /\ mem' \in [Workers -> Work]
      /\ pc'[w] = s /\ mem'[w] = m
      /\ \A v \in Workers : v # w => pc'[v] = pc[v] /\ mem'[v] = mem[v]
  BY DEF Inv, TypeOK, Points
<1>2. TypeOK'
  BY <1>1 DEF Inv, TypeOK
<1>3. DraftIsSound'
  BY SoundGrows DEF Inv, DraftIsSound
<1>4. WorkIsSound'
  BY <1>1, SoundGrows DEF Inv, WorkIsSound
<1>5. TestIsUnderWay' /\ Certified'
  <2>1. \A q : Named(q, tested) => Named(q, tested')
    BY DEF Named
  <2> QED
    BY <1>1, <2>1 DEF Inv, TestIsUnderWay, Certified, Activating, Target
<1>6. OwnFile'
  BY <1>1 DEF Inv, OwnFile, Creator, FileOf
<1>7. OneCreator'
  BY <1>1 DEF Inv, OneCreator, Creator
<1>8. PointerIsReadable' /\ ActiveWasTestedAndReviewed'
  BY DEF Inv, PointerIsReadable, ActiveWasTestedAndReviewed
<1> QED
  BY <1>2, <1>3, <1>4, <1>5, <1>6, <1>7, <1>8 DEF Inv

\* A process that goes away, having replaced at most the draft.
LEMMA Leaves ==
  ASSUME Inv, NEW w \in Workers, Leave(w),
         draft' = draft \/ Sound(draft', tested, reviews),
         UNCHANGED <<files, pointer, tested, reviews, capability>>
  PROVE  Inv'
<1> USE DEF Leave, Goto
<1>0. NoWork \in Work
  BY DEF NoWork, Work
<1>1. /\ pc' \in [Workers -> Points] /\ mem' \in [Workers -> Work]
      /\ pc'[w] = "idle"
      /\ \A v \in Workers : v # w => pc'[v] = pc[v] /\ mem'[v] = mem[v]
  BY <1>0 DEF Inv, TypeOK, Points
<1>2. TypeOK'
  BY <1>1 DEF Inv, TypeOK, Sound
<1>3. DraftIsSound' /\ WorkIsSound'
  BY <1>1 DEF Inv, DraftIsSound, WorkIsSound
<1>4. TestIsUnderWay' /\ Certified'
  BY <1>1 DEF Inv, TestIsUnderWay, Certified, Activating, Target
<1>5. OwnFile' /\ OneCreator'
  BY <1>1 DEF Inv, OwnFile, OneCreator, Creator, FileOf
<1>6. PointerIsReadable' /\ ActiveWasTestedAndReviewed'
  BY DEF Inv, PointerIsReadable, ActiveWasTestedAndReviewed
<1> QED
  BY <1>2, <1>3, <1>4, <1>5, <1>6 DEF Inv

-----------------------------------------------------------------------------
LEMMA DeclaredIsSound ==
  ASSUME NEW n \in Nat, NEW c \in Contents
  PROVE  Sound(Declared(n, c), tested, reviews) /\ Declared(n, c) \in Draft
BY DEF Declared, Sound, Draft, Statuses

LEMMA Begins ==
  ASSUME Inv, NEW w \in Workers, Begin(w)
  PROVE  Inv'
<1> USE DEF Carry
<1>0. /\ draft # None => draft \in Draft /\ Sound(draft, tested, reviews)
      /\ capability \in Nat
      /\ tested \subseteq Session
      /\ reviews \subseteq [version : Nat, content : Contents]
  BY DEF Inv, TypeOK, DraftIsSound
<1>1. ASSUME NEW c \in Contents, CreateDraft(w, c)
      PROVE  Inv'
  <2> DEFINE m == [NoWork EXCEPT !.draft = Declared(1, c)]
  <2>1. m.draft = Declared(1, c) /\ m \in Work
    BY DeclaredIsSound DEF NoWork, Work
  <2>2. Sound(m.draft, tested', reviews')
    BY <1>1, <2>1, DeclaredIsSound DEF CreateDraft
  <2>3. Goto(w, "write") /\ mem' = [mem EXCEPT ![w] = m]
    BY <1>1 DEF CreateDraft
  <2> HIDE DEF m
  <2> QED
    BY <1>0, <1>1, <2>1, <2>2, <2>3, Carries DEF CreateDraft
<1>2. ASSUME NEW c \in Contents, UpdateDraft(w, c)
      PROVE  Inv'
  <2> DEFINE m == [NoWork EXCEPT !.draft = Changed(c)]
  <2>1. draft.version + 1 \in Nat
    BY <1>0, <1>2 DEF UpdateDraft, Draft
  <2>2. m.draft = Declared(draft.version + 1, c) /\ m \in Work
    BY <2>1, DeclaredIsSound DEF NoWork, Work, Changed
  <2>3. Sound(m.draft, tested', reviews')
    BY <1>2, <2>1, <2>2, DeclaredIsSound DEF UpdateDraft
  <2>4. Goto(w, "write") /\ mem' = [mem EXCEPT ![w] = m]
    BY <1>2 DEF UpdateDraft
  <2> HIDE DEF m
  <2> QED
    BY <1>0, <1>2, <2>2, <2>3, <2>4, Carries DEF UpdateDraft
<1>3. ASSUME NEW t \in Tasks, TestDraft(w, t)
      PROVE  Inv'
  <2> DEFINE m == [NoWork EXCEPT !.draft = draft, !.task = t, !.ran = capability]
  <2>1. m.draft = draft /\ m.task = t /\ m.ran = capability /\ m \in Work
    BY <1>0, <1>3 DEF TestDraft, NoWork, Work
  <2>2. Goto(w, "test") /\ mem' = [mem EXCEPT ![w] = m]
    BY <1>3 DEF TestDraft
  <2> HIDE DEF m
  <2> QED
    BY <1>0, <1>3, <2>1, <2>2, Carries DEF TestDraft
<1>4. CASE ReviewDraft(w)
  <2> DEFINE d == [draft EXCEPT !.status = "reviewed"]
             m == [NoWork EXCEPT !.draft = d]
  <2>1. draft \in Draft /\ Sound(draft, tested, reviews) /\ draft.status = "tested" /\ draft.test # None
    BY <1>0, <1>4 DEF ReviewDraft, Reviewable
  <2>2. /\ d \in Draft /\ d.status = "reviewed"
        /\ d.version = draft.version /\ d.content = draft.content /\ d.test = draft.test
    BY <2>1 DEF Draft, Statuses
  <2>3. /\ reviews' = reviews \cup {Declaration(draft)}
        /\ Declaration(draft) \in [version : Nat, content : Contents]
        /\ Declaration(d) = Declaration(draft)
    BY <1>4, <2>1, <2>2 DEF ReviewDraft, Declaration, Draft
  <2>4. Sound(d, tested', reviews')
    BY <1>4, <2>1, <2>2, <2>3 DEF Sound, ReviewDraft
  <2>5. Goto(w, "write") /\ mem' = [mem EXCEPT ![w] = m]
    BY <1>4 DEF ReviewDraft
  <2> HIDE DEF d
  <2>6. m.draft = d /\ m \in Work
    BY <2>2 DEF NoWork, Work
  <2> HIDE DEF m
  <2> QED
    BY <1>0, <1>4, <2>3, <2>4, <2>5, <2>6, Carries DEF ReviewDraft
<1>5. CASE Activate(w)
  <2> DEFINE m == [NoWork EXCEPT !.draft = draft, !.capability = capability]
  <2>1. m.draft = draft /\ m.capability = capability /\ m \in Work
    BY <1>0, <1>5 DEF Activate, NoWork, Work
  <2>2. Named([version |-> draft.version, content |-> draft.content, capability |-> capability],
              tested)
    BY <1>0, <1>5 DEF Activate, TestIsCurrent, Sound, Named, Identity
  <2>3. Declaration(draft) \in reviews
    BY <1>0, <1>5 DEF Activate, Sound
  <2>4. Goto(w, "create") /\ mem' = [mem EXCEPT ![w] = m]
    BY <1>5 DEF Activate
  <2> HIDE DEF m
  <2> QED
    BY <1>0, <1>5, <2>1, <2>2, <2>3, <2>4, Carries DEF Activate
<1> QED
  BY <1>1, <1>2, <1>3, <1>4, <1>5 DEF Begin

\* Whoever writes an incomplete file or a pointer has created the file.
LEMMA Finishes ==
  ASSUME Inv, NEW w \in Workers, WriteDraft(w) \/ FinishTest(w)
  PROVE  Inv'
<1>0. /\ pc[w] # "idle" /\ mem[w] \in Work /\ capability \in Nat
      /\ Sound(mem[w].draft, tested, reviews) /\ mem[w].draft \in Draft
      /\ tested \subseteq Session
      /\ reviews \subseteq [version : Nat, content : Contents]
  BY DEF Inv, TypeOK, WorkIsSound, Sound, WriteDraft, FinishTest
<1>1. CASE WriteDraft(w)
  BY <1>0, <1>1, Leaves DEF WriteDraft
<1>2. CASE FinishTest(w)
  <2> DEFINE d  == mem[w].draft
             r  == Evidence(w)
             ok == Passed(d, r)
             no == Failed(d)
             t  == SessionOf(w)
  <2>1. CASE tested' = tested \cup {t} /\ Carry(w, ok, "write")
    <3>0. /\ mem[w].task \in Tasks /\ mem[w].ran \in Nat /\ mem[w].upgraded \in BOOLEAN
          /\ mem[w].ran = capability \/ mem[w].upgraded
      BY <1>0, <1>2 DEF FinishTest, Inv, TestIsUnderWay, Work
    <3>1. /\ r \in Test /\ r.version = d.version /\ r.content = d.content /\ r # None
      BY <1>0, <3>0, NoneAssumption DEF Evidence, Test, Draft
    <3>6. t \in Session /\ Identity(t) = Identity(r) /\ RanWhatItNames(t)
      BY <1>0, <3>0 DEF SessionOf, Session, Evidence, Identity, RanWhatItNames, Draft
    <3>7. Named(r, tested')
      BY <2>1, <3>6 DEF Named
    <3> HIDE DEF t
    <3> HIDE DEF r
    <3>2. /\ ok \in Draft /\ ok.status = "tested" /\ ok.test = r
          /\ ok.version = d.version /\ ok.content = d.content
      BY <1>0, <3>1 DEF Passed, Draft, Statuses
    <3> HIDE DEF ok
    <3> DEFINE m == [NoWork EXCEPT !.draft = ok]
    <3>3. m.draft = ok /\ m \in Work
      BY <3>2 DEF NoWork, Work
    <3>4. Sound(ok, tested', reviews')
      BY <1>2, <2>1, <3>1, <3>2, <3>7 DEF Sound, FinishTest
    <3>5. Goto(w, "write") /\ mem' = [mem EXCEPT ![w] = m]
      BY <2>1 DEF Carry
    <3> HIDE DEF m
    <3> QED
      BY <1>0, <1>2, <2>1, <3>1, <3>3, <3>4, <3>5, <3>6, Carries DEF FinishTest
  <2>2. CASE Carry(w, no, "write") /\ UNCHANGED tested
    <3>1. no \in Draft /\ no.status = "test_failed" /\ no.test = None
      BY <1>0 DEF Failed, Draft, Statuses
    <3> HIDE DEF no
    <3> DEFINE m == [NoWork EXCEPT !.draft = no]
    <3>2. m.draft = no /\ m \in Work
      BY <3>1 DEF NoWork, Work
    <3>3. Sound(no, tested', reviews')
      BY <1>2, <3>1 DEF Sound, FinishTest
    <3>4. Goto(w, "write") /\ mem' = [mem EXCEPT ![w] = m]
      BY <2>2 DEF Carry
    <3> HIDE DEF m
    <3> QED
      BY <1>0, <1>2, <2>2, <3>2, <3>3, <3>4, Carries DEF FinishTest
  <2> QED
    BY <1>2, <2>1, <2>2 DEF FinishTest
<1> QED
  BY <1>1, <1>2

\* Only the creator of a file writes it, and it starts from no file of the version.
LEMMA Creates ==
  ASSUME Inv, NEW w \in Workers, CreateFile(w) \/ CompleteFile(w)
  PROVE  Inv'
<1> DEFINE n == mem[w].draft.version
<1> USE DEF Goto
<1>0. /\ pc[w] # "idle" /\ mem[w].draft \in Draft
      /\ \A b \in BOOLEAN : FileOf(w, b) \in File /\ FileOf(w, b).version = n
      /\ \A b \in BOOLEAN : FileOf(w, b).whole = b
  <2>1. pc[w] # "idle" /\ mem[w].draft \in Draft
    BY DEF Inv, WorkIsSound, Sound, CreateFile, CompleteFile
  <2> QED
    BY <2>1 DEF FileOf, File, Draft
<1>1. CASE CreateFile(w) /\ ~Free(n)
  BY <1>1, Leaves DEF CreateFile
<1>2. CASE CreateFile(w) /\ Free(n)
  <2>1. /\ files' = files \cup {FileOf(w, FALSE)} /\ mem' = mem
        /\ pc' = [pc EXCEPT ![w] = "complete"] /\ pc[w] = "create"
        /\ UNCHANGED <<draft, pointer, tested, reviews, capability>>
        /\ \A f \in files : f.version # n
    BY <1>2 DEF CreateFile, Free
  <2>2. /\ pc' \in [Workers -> Points] /\ pc'[w] = "complete"
        /\ \A v \in Workers : v # w => pc'[v] = pc[v]
    BY <2>1 DEF Inv, TypeOK, Points
  <2>3. TypeOK'
    BY <1>0, <2>1, <2>2 DEF Inv, TypeOK
  <2>4. DraftIsSound' /\ WorkIsSound' /\ TestIsUnderWay'
    BY <1>0, <2>1, <2>2 DEF Inv, DraftIsSound, WorkIsSound, TestIsUnderWay
  <2>5. Certified'
    BY <2>1, <2>2 DEF Inv, Certified, Activating, Target
  <2>6. ASSUME NEW v \in Workers, v # w, Creator(v)
        PROVE  mem[v].draft.version # n
    <3>1. FileOf(v, pc[v] = "point") \in files
      BY <2>6 DEF Inv, OwnFile
    <3>2. FileOf(v, pc[v] = "point").version # n
      BY <2>1, <3>1
    <3> QED
      BY <3>2 DEF FileOf
  <2>7. OneCreator'
    BY <2>1, <2>2, <2>6 DEF Inv, OneCreator, Creator
  <2>8. OwnFile'
    <3>1. SUFFICES ASSUME NEW v \in Workers, Creator(v)'
                   PROVE  /\ FileOf(v, pc'[v] = "point") \in files'
                          /\ \A f \in files' : f.version = mem[v].draft.version =>
                               f = FileOf(v, pc'[v] = "point")
      BY <2>1 DEF OwnFile, FileOf
    <3>2. CASE v = w
      BY <1>0, <2>1, <2>2, <3>2
    <3>3. CASE v # w
      <4>1. Creator(v) /\ pc'[v] = pc[v] /\ mem[v].draft.version # n
        BY <2>2, <2>6, <3>1, <3>3 DEF Creator
      <4>2. /\ FileOf(v, pc[v] = "point") \in files
            /\ \A f \in files : f.version = mem[v].draft.version => f = FileOf(v, pc[v] = "point")
        BY <4>1 DEF Inv, OwnFile
      <4> QED
        BY <1>0, <2>1, <4>1, <4>2
    <3> QED
      BY <3>2, <3>3
  <2>9. PointerIsReadable' /\ ActiveWasTestedAndReviewed'
    BY <1>0, <2>1 DEF Inv, PointerIsReadable, ActiveWasTestedAndReviewed
  <2> QED
    BY <2>3, <2>4, <2>5, <2>7, <2>8, <2>9 DEF Inv
<1>3. CASE CompleteFile(w)
  <2>1. /\ files' = (files \ {FileOf(w, FALSE)}) \cup {FileOf(w, TRUE)} /\ mem' = mem
        /\ pc' = [pc EXCEPT ![w] = "point"] /\ pc[w] = "complete"
        /\ UNCHANGED <<draft, pointer, tested, reviews, capability>>
    BY <1>3 DEF CompleteFile
  <2>2. /\ pc' \in [Workers -> Points] /\ pc'[w] = "point"
        /\ \A v \in Workers : v # w => pc'[v] = pc[v]
    BY <2>1 DEF Inv, TypeOK, Points
  <2>3. /\ FileOf(w, FALSE) \in files
        /\ \A f \in files : f.version = n => f = FileOf(w, FALSE)
    BY <2>1 DEF Inv, OwnFile, Creator
  <2>4. TypeOK'
    BY <1>0, <2>1, <2>2 DEF Inv, TypeOK
  <2>5. DraftIsSound' /\ WorkIsSound' /\ TestIsUnderWay'
    BY <1>0, <2>1, <2>2 DEF Inv, DraftIsSound, WorkIsSound, TestIsUnderWay
  <2>6. Certified' /\ OneCreator'
    BY <2>1, <2>2 DEF Inv, Certified, Activating, Target, OneCreator, Creator
  <2>7. OwnFile'
    <3>1. ASSUME NEW v \in Workers, v # w, Creator(v)
          PROVE  mem[v].draft.version # n
      BY <2>1, <3>1 DEF Inv, OneCreator, Creator
    <3>2. SUFFICES ASSUME NEW v \in Workers, Creator(v)'
                   PROVE  /\ FileOf(v, pc'[v] = "point") \in files'
                          /\ \A f \in files' : f.version = mem[v].draft.version =>
                               f = FileOf(v, pc'[v] = "point")
      BY <2>1 DEF OwnFile, FileOf
    <3>3. CASE v = w
      BY <1>0, <2>1, <2>2, <2>3, <3>3
    <3>4. CASE v # w
      <4>1. Creator(v) /\ pc'[v] = pc[v] /\ mem[v].draft.version # n
        BY <2>2, <3>1, <3>2, <3>4 DEF Creator
      <4>2. /\ FileOf(v, pc[v] = "point") \in files
            /\ \A f \in files : f.version = mem[v].draft.version => f = FileOf(v, pc[v] = "point")
        BY <4>1 DEF Inv, OwnFile
      <4>3. FileOf(v, pc[v] = "point") # FileOf(w, FALSE)
        BY <4>1 DEF FileOf
      <4> QED
        BY <1>0, <2>1, <4>1, <4>2, <4>3
    <3> QED
      BY <3>3, <3>4
  <2>8. PointerIsReadable'
    BY <1>0, <2>1, <2>3 DEF Inv, PointerIsReadable
  <2>9. ActiveWasTestedAndReviewed'
    BY <2>1 DEF Inv, ActiveWasTestedAndReviewed
  <2> QED
    BY <2>4, <2>5, <2>6, <2>7, <2>8, <2>9 DEF Inv
<1> QED
  BY <1>1, <1>2, <1>3

LEMMA PointsAt ==
  ASSUME Inv, NEW w \in Workers, WritePointer(w)
  PROVE  Inv'
<1> DEFINE d == mem[w].draft
           a == [d EXCEPT !.status = "active"]
           m == [NoWork EXCEPT !.draft = a]
<1> USE DEF Goto
<1>1. /\ pointer' = Target(w) /\ pc[w] = "point"
      /\ pc' = [pc EXCEPT ![w] = "write"] /\ mem' = [mem EXCEPT ![w] = m]
      /\ UNCHANGED <<draft, files, tested, reviews, capability>>
  BY DEF WritePointer, Target, Carry
<1>2. /\ Sound(d, tested, reviews) /\ mem[w] \in Work
      /\ Named(Target(w), tested) /\ Declaration(d) \in reviews
      /\ FileOf(w, TRUE) \in files
      /\ \A f \in files : f.version = d.version => f = FileOf(w, TRUE)
  BY <1>1 DEF Inv, TypeOK, WorkIsSound, Certified, Activating, OwnFile, Creator
<1>3. /\ a \in Draft /\ a.status = "active" /\ a.test = d.test
      /\ a.version = d.version /\ a.content = d.content
  BY <1>2 DEF Sound, Draft, Statuses
<1>4. Sound(a, tested, reviews)
  BY <1>2, <1>3 DEF Sound
<1> HIDE DEF a
<1>5. m \in Work /\ m.draft = a
  BY <1>3 DEF Work, NoWork
<1>6. Target(w) \in Pointer
  BY <1>2 DEF Target, Pointer, Work, Sound, Draft
<1> HIDE DEF m
<1>7. /\ pc' \in [Workers -> Points] /\ mem' \in [Workers -> Work]
      /\ pc'[w] = "write" /\ mem'[w] = m
      /\ \A v \in Workers : v # w => pc'[v] = pc[v] /\ mem'[v] = mem[v]
  BY <1>1, <1>5 DEF Inv, TypeOK, Points
<1>8. TypeOK'
  BY <1>1, <1>6, <1>7 DEF Inv, TypeOK
<1>9. DraftIsSound' /\ WorkIsSound' /\ TestIsUnderWay'
  BY <1>1, <1>4, <1>5, <1>7 DEF Inv, DraftIsSound, WorkIsSound, TestIsUnderWay
<1>10. Certified' /\ OneCreator'
  BY <1>1, <1>7 DEF Inv, Certified, Activating, Target, OneCreator, Creator
<1>11. OwnFile'
  BY <1>1, <1>7 DEF Inv, OwnFile, Creator, FileOf
<1>12. PointerIsReadable'
  BY <1>1, <1>2 DEF PointerIsReadable, Target, FileOf
<1>13. ActiveWasTestedAndReviewed'
  BY <1>1, <1>2 DEF ActiveWasTestedAndReviewed, Named, Target, Declaration
<1> QED
  BY <1>8, <1>9, <1>10, <1>11, <1>12, <1>13 DEF Inv

\* An upgrade overtakes the tests that run; nobody else's work is touched.
LEMMA UpgradeStep ==
  ASSUME Inv, Upgrade
  PROVE  Inv'
<1>1. /\ capability' = capability + 1 /\ mem' = [w \in Workers |-> Overtaken(w)]
      /\ UNCHANGED <<draft, files, pointer, tested, reviews, pc>>
  BY DEF Upgrade
<1>2. ASSUME NEW w \in Workers
      PROVE  /\ mem'[w] \in Work /\ mem'[w].draft = mem[w].draft /\ mem'[w].task = mem[w].task
             /\ mem'[w].capability = mem[w].capability
             /\ pc[w] = "test" => mem'[w].upgraded
  <2>1. mem[w] \in Work
    BY DEF Inv, TypeOK
  <2>2. PICK b \in BOOLEAN : mem'[w] = [mem[w] EXCEPT !.upgraded = b] /\ (pc[w] = "test" => b)
    BY <1>1, <2>1 DEF Overtaken, Work
  <2> QED
    BY <2>1, <2>2 DEF Work
<1>3. TypeOK'
  BY <1>1, <1>2 DEF Inv, TypeOK
<1>4. DraftIsSound' /\ WorkIsSound' /\ TestIsUnderWay'
  BY <1>1, <1>2 DEF Inv, DraftIsSound, WorkIsSound, TestIsUnderWay
<1>5. Certified' /\ OwnFile' /\ OneCreator'
  BY <1>1, <1>2 DEF Inv, Certified, OwnFile, OneCreator, Activating, Creator, Target, FileOf
<1>6. PointerIsReadable' /\ ActiveWasTestedAndReviewed'
  BY <1>1 DEF Inv, PointerIsReadable, ActiveWasTestedAndReviewed
<1> QED
  BY <1>3, <1>4, <1>5, <1>6 DEF Inv

LEMMA Step ==
  ASSUME Inv, [Next]_vars
  PROVE  Inv'
<1>1. ASSUME NEW w \in Workers, Begin(w) \/ Advance(w) \/ Crash(w)
      PROVE  Inv'
  <2>1. CASE Crash(w)
    BY <2>1, Leaves DEF Crash
  <2> QED
    BY <1>1, <2>1, Begins, Finishes, Creates, PointsAt DEF Advance
<1>2. CASE UNCHANGED vars
  BY <1>2 DEF vars, Inv, TypeOK, DraftIsSound, WorkIsSound, TestIsUnderWay, Certified, OwnFile,
              OneCreator, Activating, Creator, Target, FileOf, PointerIsReadable,
              ActiveWasTestedAndReviewed
<1> QED
  BY <1>1, <1>2, UpgradeStep DEF Next

LEMMA Always == Spec => []Inv
<1>1. Inv /\ [Next]_vars => Inv'
  BY Step
<1> QED
  BY InitInv, <1>1, PTL DEF Spec

-----------------------------------------------------------------------------
\* Drafts, version files, pointers and the work of every process keep their types.
THEOREM TypeCorrect == Spec => []TypeOK
BY Always, PTL DEF Inv

\* However activations interleave and wherever they die, the active pointer leads to
\* a complete file with the content it names, and to no other.
THEOREM PointerAlwaysReadable == Spec => []PointerIsReadable
BY Always, PTL DEF Inv

\* Whatever is updated, tested and reviewed at the same time, what is active was
\* reviewed and has passed a test as it is, whose evidence names the code of the
\* activation; that code is what ran, unless an upgrade overtook the test.
THEOREM ActiveIsTestedAndReviewed == Spec => []ActiveWasTestedAndReviewed
BY Always, PTL DEF Inv

\* The evidence in the draft file is about the declaration in it.
THEOREM EvidenceAlwaysForDeclaration == Spec => []EvidenceIsForDeclaration
<1>1. Inv => EvidenceIsForDeclaration
  BY DEF Inv, DraftIsSound, Sound, EvidenceIsForDeclaration
<1> QED
  BY Always, <1>1, PTL
=============================================================================
