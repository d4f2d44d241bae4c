----------------------------- MODULE AdoptionProofs -----------------------------
(***************************************************************************)
(* For any number of objects, options, faults and edits: an object never   *)
(* ends up with two options, and the options are given out evenly.  Each   *)
(* rests on what the copies in the worker's hands say of the API server.   *)
(***************************************************************************)
EXTENDS Adoption, FiniteSetTheorems, TLAPS

(* What the worker is still going to label, and may, has no option.        *)
ListedAreFree ==
    worker.step = "write" /\ worker.strategy = "RoundRobin" =>
      \A o \in worker.todo \ worker.stale : objs[o].options = {}

(* The options up to the last index are one ahead of the others, and d     *)
(* more.                                                                   *)
Indices == Options \union {NoIndex}
Lead(i, last) == IF i <= last THEN 1 ELSE 0
Even(g, last, d) ==
    \A i, j \in Options : g[i] - g[j] <= d + Lead(i, last) - Lead(j, last)

Slack == 2 * spent.faults + spent.adoptions
Labelling == worker.step \in {"list", "write"}
Dealing == Labelling /\ worker.strategy = "RoundRobin"

(* Whoever goes on from the index that a round robin has reached, or from  *)
(* the one of the status, goes on evenly.  A worker that can no longer     *)
(* save its index has one to spare, and an Adoption that is not, or no     *)
(* longer, for round robin may lose the index.                             *)
IndexCounts ==
    /\ Dealing => Even(given, worker.index, IF worker.fresh THEN Slack ELSE Slack - 1)
    /\ ~Dealing => Even(given, adoption.lastIndex, Slack)
    /\ ~Dealing /\ (adoption.strategy = "Static" \/ adoption.deleting \/ ~adoption.exists)
         => Even(given, NoIndex, Slack)

(* What a worker has read, it may save as long as it holds.                *)
FreshMeansRead ==
    Labelling /\ worker.fresh =>
      adoption.exists /\ ~adoption.deleting /\ adoption.strategy = worker.strategy

Inv == /\ TypeOK
       /\ OneOptionOnly /\ ListedAreFree
       /\ IndexCounts /\ FreshMeansRead

-----------------------------------------------------------------------------
LEMMA OptionsTyped ==
    /\ NumOptions \in Nat \ {0}
    /\ Options \subseteq Int
    /\ 0 \in Options
    /\ NoIndex \in Int
BY AdoptionAssumption DEF Options, NoIndex

LEMMA NextIndexTyped ==
    ASSUME NEW i \in Options \union {NoIndex}
    PROVE  RoundRobinIndex(i) \in Options
BY OptionsTyped DEF RoundRobinIndex

LEMMA RecordsTyped ==
    /\ NoAdoption \in AdoptionRecord
    /\ Absent \in ObjectRecord
    /\ Idle \in WorkerRecord
BY DEF NoAdoption, AdoptionRecord, Absent, ObjectRecord, Idle, WorkerRecord

LEMMA LabelledTyped ==
    ASSUME NEW obj \in ObjectRecord, NEW s, NEW i \in Options
    PROVE  Labelled(s, i, obj) \in ObjectRecord
BY DEF Labelled, ObjectRecord

LEMMA SavedTyped ==
    ASSUME TypeOK
    PROVE  Saved \in AdoptionRecord
BY DEF TypeOK, Saved, AdoptionRecord, WorkerRecord

LEMMA SpendTyped ==
    ASSUME TypeOK, NEW what \in {"faults", "edits", "adoptions"}, Spend(what)
    PROVE  spent' \in [{"faults", "edits", "adoptions"} -> Nat]
BY DEF TypeOK, Spend

LEMMA InitTyped == Init => TypeOK
<1> SUFFICES ASSUME Init PROVE TypeOK
  OBVIOUS
<1>1. adoption \in AdoptionRecord
  BY DEF Init, AdoptionRecord, NoAdoption
<1>2. objs \in [Objects -> ObjectRecord]
  BY RecordsTyped DEF Init
<1>3. given \in [Options -> Nat] /\ spent \in [{"faults", "edits", "adoptions"} -> Nat]
  BY DEF Init
<1> QED BY <1>1, <1>2, <1>3, RecordsTyped DEF Init, TypeOK

LEMMA BeginTyped == TypeOK /\ Begin => TypeOK'
<1> SUFFICES ASSUME TypeOK, Begin PROVE TypeOK'
  OBVIOUS
<1> USE DEF TypeOK
<1>1. adoption' \in AdoptionRecord
  BY RecordsTyped DEF Begin, AdoptionRecord
<1>2. worker' \in WorkerRecord
  <2>1. ASSUME NEW strategy \in {"Static", "RoundRobin"},
               NEW index \in Options \union {NoIndex}, NEW fresh \in BOOLEAN
        PROVE  [Idle EXCEPT !.step = "list", !.strategy = strategy, !.index = index,
                            !.fresh = fresh] \in WorkerRecord
    BY DEF WorkerRecord, Idle
  <2>2. adoptionSeen.strategy \in {"Static", "RoundRobin"}
        /\ adoptionSeen.lastIndex \in Options \union {NoIndex}
    BY DEF AdoptionRecord
  <2>3. \/ worker' = worker
        \/ worker' = [Idle EXCEPT !.step = "free"]
        \/ worker' = [Idle EXCEPT !.step = "list", !.strategy = adoptionSeen.strategy,
                         !.index = adoptionSeen.lastIndex,
                         !.fresh = (adoptionSeen = adoption)]
    BY DEF Begin
  <2>4. (adoptionSeen = adoption) \in BOOLEAN
    OBVIOUS
  <2>5. [Idle EXCEPT !.step = "list", !.strategy = adoptionSeen.strategy,
                     !.index = adoptionSeen.lastIndex,
                     !.fresh = (adoptionSeen = adoption)] \in WorkerRecord
    BY <2>1, <2>2, <2>4, Zenon
  <2>6. [Idle EXCEPT !.step = "free"] \in WorkerRecord
    BY DEF WorkerRecord, Idle
  <2> QED BY <2>3, <2>5, <2>6
<1>3. queued' \in BOOLEAN
  BY DEF Begin
<1>4. watching' \in BOOLEAN
  BY DEF Begin
<1>5. spent' \in [{"faults", "edits", "adoptions"} -> Nat]
  BY SpendTyped DEF Begin
<1> QED BY <1>1, <1>2, <1>3, <1>4, <1>5 DEF Begin

LEMMA CommitTyped ==
    ASSUME TypeOK, NEW o \in Objects, Commit(o)
    PROVE  objs' \in [Objects -> ObjectRecord] /\ given' \in [Options -> Nat]
<1>1. RoundRobinIndex(worker.index) \in Options
  BY NextIndexTyped DEF TypeOK, WorkerRecord
<1>2. Labelled(worker.strategy, RoundRobinIndex(worker.index), objs[o]) \in ObjectRecord
  BY <1>1, LabelledTyped DEF TypeOK
<1> QED BY <1>1, <1>2 DEF Commit, TypeOK

LEMMA WriteTyped == \A o \in Objects : TypeOK /\ Write(o) => TypeOK'
<1> SUFFICES ASSUME NEW o \in Objects, TypeOK, Write(o) PROVE TypeOK'
  OBVIOUS
<1> USE DEF TypeOK
<1>1. adoption' \in AdoptionRecord
  BY SavedTyped DEF Write, GiveUp
<1>2. objs' \in [Objects -> ObjectRecord] /\ given' \in [Options -> Nat]
  BY CommitTyped DEF Write
<1>3. worker' \in WorkerRecord
  BY RecordsTyped, NextIndexTyped DEF Write, GiveUp, WorkerRecord
<1>4. queued' \in BOOLEAN
  BY DEF Write, GiveUp
<1>5. spent' \in [{"faults", "edits", "adoptions"} -> Nat]
  BY SpendTyped DEF Write
<1> QED BY <1>1, <1>2, <1>3, <1>4, <1>5 DEF Write

LEMMA ChangeTyped ==
    ASSUME TypeOK, NEW o \in Objects, NEW obj \in ObjectRecord, ChangeObject(o, obj)
    PROVE  /\ objs' \in [Objects -> ObjectRecord]
           /\ worker' \in WorkerRecord
           /\ queued' \in BOOLEAN
BY DEF TypeOK, ChangeObject, WorkerRecord

(* Every step of a user ends in ChangeObject.                              *)
LEMMA UserChanges ==
    ASSUME TypeOK, NEW o \in Objects, CreateObject(o) \/ Relabel(o)
    PROVE  \E obj \in ObjectRecord :
             ChangeObject(o, obj) /\ (obj.options = {} \/ \E i \in Options : obj.options = {i})
<1>1. [Absent EXCEPT !.exists = TRUE] \in ObjectRecord
      /\ [Absent EXCEPT !.exists = TRUE].options = {}
  BY RecordsTyped DEF ObjectRecord, Absent
<1>2. \A i \in Options : [objs[o] EXCEPT !.options = {i}] \in ObjectRecord
                         /\ [objs[o] EXCEPT !.options = {i}].options = {i}
  BY DEF TypeOK, ObjectRecord
<1> QED BY <1>1, <1>2 DEF CreateObject, Relabel

LEMMA UserTyped ==
    \A o \in Objects : TypeOK /\ (CreateObject(o) \/ Relabel(o)) => TypeOK'
<1> SUFFICES ASSUME NEW o \in Objects, TypeOK, CreateObject(o) \/ Relabel(o) PROVE TypeOK'
  OBVIOUS
<1>1. PICK obj \in ObjectRecord : ChangeObject(o, obj)
  BY UserChanges
<1>2. spent' \in [{"faults", "edits", "adoptions"} -> Nat]
  BY SpendTyped DEF CreateObject, Relabel, TypeOK
<1> QED BY <1>1, <1>2, ChangeTyped DEF ChangeObject, TypeOK

LEMMA EditTyped == TypeOK /\ EditAdoption => TypeOK'
<1> SUFFICES ASSUME TypeOK, EditAdoption PROVE TypeOK'
  OBVIOUS
<1>1. adoption' \in AdoptionRecord
  BY RecordsTyped DEF EditAdoption, TypeOK, AdoptionRecord
<1>2. worker' \in WorkerRecord
  BY DEF EditAdoption, OutdatedWorker, TypeOK, WorkerRecord
<1>3. spent' \in [{"faults", "edits", "adoptions"} -> Nat]
  <2> DEFINE edited == [spent EXCEPT !.edits = @ + 1]
  <2>1. edited \in [{"faults", "edits", "adoptions"} -> Nat]
    BY DEF TypeOK
  <2>2. spent' = [edited EXCEPT !.adoptions = @ + 1]
    BY DEF EditAdoption, TypeOK
  <2> HIDE DEF edited
  <2> QED BY <2>1, <2>2
<1> QED BY <1>1, <1>2, <1>3 DEF EditAdoption, TypeOK

LEMMA NextTyped == TypeOK /\ [Next]_vars => TypeOK'
<1> SUFFICES ASSUME TypeOK, [Next]_vars PROVE TypeOK'
  OBVIOUS
<1>1. CASE List
  BY <1>1 DEF List, TypeOK, WorkerRecord
<1>2. CASE Finish
  <2>1. adoption' \in AdoptionRecord
    BY <1>2 DEF Finish, TypeOK, AdoptionRecord, WorkerRecord
  <2>2. worker' \in WorkerRecord /\ queued' \in BOOLEAN
    BY <1>2, RecordsTyped DEF Finish, TypeOK
  <2> QED BY <1>2, <2>1, <2>2 DEF Finish, TypeOK
<1>3. CASE Sync
  BY <1>3 DEF Sync, TypeOK
<1>4. CASE Restart
  BY <1>4, RecordsTyped, SpendTyped DEF Restart, TypeOK
<1>5. CASE Free
  BY <1>5, RecordsTyped DEF Free, TypeOK
<1>6. CASE UNCHANGED vars
  BY <1>6 DEF vars, TypeOK
<1> QED BY <1>1, <1>2, <1>3, <1>4, <1>5, <1>6, BeginTyped, WriteTyped, UserTyped, EditTyped
        DEF Next, ControllerStep

-----------------------------------------------------------------------------
(* The options.                                                            *)
LEMMA FewOptions ==
    ASSUME NEW S, S = {} \/ \E i : S = {i}
    PROVE  Cardinality(S) <= 1
<1>1. CASE S = {}
  BY <1>1, FS_EmptySet
<1>2. ASSUME NEW i, S = {i}
      PROVE  Cardinality(S) <= 1
  <2>1. Cardinality({i}) = 1
    BY FS_Singleton
  <2> QED BY <1>2, <2>1
<1> QED BY <1>1, <1>2

LEMMA CommitKeepsOne ==
    ASSUME TypeOK, OneOptionOnly, ListedAreFree, NEW o \in Objects,
           worker.step = "write", o \in worker.todo, o \notin worker.stale, Commit(o)
    PROVE  OneOptionOnly'
<1>1. objs' = [objs EXCEPT ![o] =
                 Labelled(worker.strategy, RoundRobinIndex(worker.index), @)]
  BY DEF Commit
<1>2. objs'[o] = Labelled(worker.strategy, RoundRobinIndex(worker.index), objs[o])
      /\ \A p \in Objects \ {o} : objs'[p] = objs[p]
  BY <1>1 DEF TypeOK
<1>3. CASE worker.strategy = "Static"
  <2>1. objs'[o].options = objs[o].options
    BY <1>2, <1>3 DEF Labelled, TypeOK, ObjectRecord
  <2> QED BY <1>2, <2>1 DEF OneOptionOnly
<1>4. CASE worker.strategy = "RoundRobin"
  <2>1. objs[o].options = {}
    BY <1>4 DEF ListedAreFree
  <2>2. objs'[o].options = {RoundRobinIndex(worker.index)}
    BY <1>2, <1>4, <2>1 DEF Labelled, TypeOK, ObjectRecord
  <2> QED BY <1>2, <2>2, FewOptions DEF OneOptionOnly
<1> QED BY <1>3, <1>4 DEF TypeOK, WorkerRecord

(* What is left to do after a turn of the loop.                            *)
LEMMA WriteLeaves ==
    ASSUME TypeOK, NEW o \in Objects, Write(o)
    PROVE  \/ worker'.step = "idle"
           \/ /\ worker'.todo = worker.todo \ {o}
              /\ worker'.stale = worker.stale
              /\ worker'.strategy = worker.strategy
              /\ worker'.step = worker.step
<1>1. CASE worker' = Idle
  BY <1>1 DEF Idle
<1>2. CASE worker' = [worker EXCEPT !.todo = @ \ {o},
                        !.index = IF worker.strategy = "Static" THEN @ ELSE RoundRobinIndex(@)]
  BY <1>2 DEF TypeOK, WorkerRecord
<1> QED BY <1>1, <1>2 DEF Write, GiveUp

LEMMA WriteKeepsOne ==
    \A o \in Objects :
      TypeOK /\ OneOptionOnly /\ ListedAreFree /\ Write(o) => OneOptionOnly' /\ ListedAreFree'
<1> SUFFICES ASSUME NEW o \in Objects, TypeOK, OneOptionOnly, ListedAreFree, Write(o)
             PROVE  OneOptionOnly' /\ ListedAreFree'
  OBVIOUS
<1>1. CASE UNCHANGED objs
  BY <1>1, WriteLeaves DEF OneOptionOnly, ListedAreFree
<1>2. CASE ~OutOfDate(o) /\ Commit(o)
  <2>1. OneOptionOnly'
    BY <1>2, CommitKeepsOne DEF Write, OutOfDate
  <2>2. \A p \in Objects \ {o} : objs'[p] = objs[p]
    BY <1>2 DEF Commit, TypeOK
  <2>3. worker.todo \subseteq Objects
    BY DEF TypeOK, WorkerRecord
  <2> QED BY <2>1, <2>2, <2>3, WriteLeaves DEF ListedAreFree
<1> QED BY <1>1, <1>2 DEF Write

LEMMA UserKeepsOne ==
    \A o \in Objects :
      TypeOK /\ OneOptionOnly /\ ListedAreFree /\ (CreateObject(o) \/ Relabel(o))
        => OneOptionOnly' /\ ListedAreFree'
<1> SUFFICES ASSUME NEW o \in Objects, TypeOK, OneOptionOnly, ListedAreFree,
                    CreateObject(o) \/ Relabel(o)
             PROVE  OneOptionOnly' /\ ListedAreFree'
  OBVIOUS
<1>1. PICK obj \in ObjectRecord :
        ChangeObject(o, obj) /\ (obj.options = {} \/ \E i \in Options : obj.options = {i})
  BY UserChanges
<1>2. objs'[o] = obj /\ \A p \in Objects \ {o} : objs'[p] = objs[p]
  BY <1>1 DEF ChangeObject, TypeOK
<1>3. OneOptionOnly'
  BY <1>1, <1>2, FewOptions DEF OneOptionOnly
<1>4. ASSUME worker.step = "write"
      PROVE  /\ worker'.todo = worker.todo
             /\ worker'.stale = worker.stale \union {o}
             /\ worker'.strategy = worker.strategy
  BY <1>1, <1>4 DEF ChangeObject, TypeOK, WorkerRecord
<1>5. worker'.step = worker.step /\ worker.todo \subseteq Objects
  BY <1>1 DEF ChangeObject, TypeOK, WorkerRecord
<1> QED BY <1>2, <1>3, <1>4, <1>5 DEF ListedAreFree

LEMMA NextKeepsOne ==
    TypeOK /\ OneOptionOnly /\ ListedAreFree /\ [Next]_vars
      => OneOptionOnly' /\ ListedAreFree'
<1> SUFFICES ASSUME TypeOK, OneOptionOnly, ListedAreFree, [Next]_vars
             PROVE  OneOptionOnly' /\ ListedAreFree'
  OBVIOUS
<1> USE DEF OneOptionOnly, ListedAreFree
<1>1. CASE List
  <2>1. \A o \in worker'.todo : worker.strategy = "RoundRobin" => objs[o].options = {}
    BY <1>1 DEF List, Selected, TypeOK, WorkerRecord
  <2> QED BY <1>1, <2>1 DEF List, TypeOK, WorkerRecord
<1>2. CASE Begin
  <2>1. worker'.step # "write" \/ worker' = worker
    BY <1>2 DEF Begin, Idle
  <2> QED BY <1>2, <2>1 DEF Begin
<1>3. CASE Free \/ Finish \/ Restart
  BY <1>3 DEF Free, Finish, Restart, Idle
<1>4. CASE EditAdoption
  BY <1>4 DEF EditAdoption, OutdatedWorker, TypeOK, WorkerRecord
<1>5. CASE Sync \/ UNCHANGED vars
  BY <1>5 DEF Sync, vars
<1> QED BY <1>1, <1>2, <1>3, <1>4, <1>5, WriteKeepsOne, UserKeepsOne DEF Next, ControllerStep

-----------------------------------------------------------------------------
(* The index.                                                              *)
LEMMA EvenShifts ==
    \A g \in [Options -> Nat], x, y \in Indices, d, e \in Int :
      Even(g, x, d) /\ d + 1 <= e => Even(g, y, e)
<1> SUFFICES ASSUME NEW g \in [Options -> Nat], NEW x \in Indices, NEW y \in Indices,
                    NEW d \in Int, NEW e \in Int, Even(g, x, d), d + 1 <= e,
                    NEW i \in Options, NEW j \in Options
             PROVE  g[i] - g[j] <= e + Lead(i, y) - Lead(j, y)
  BY DEF Even
<1>1. x \in Int /\ y \in Int /\ i \in Int /\ j \in Int /\ g[i] \in Int /\ g[j] \in Int
  BY OptionsTyped DEF Indices
<1>2. Lead(i, x) - Lead(j, x) <= 1 + Lead(i, y) - Lead(j, y)
  BY <1>1 DEF Lead
<1>3. g[i] - g[j] <= d + Lead(i, x) - Lead(j, x)
  BY DEF Even
<1>4. Lead(i, x) \in Int /\ Lead(j, x) \in Int /\ Lead(i, y) \in Int /\ Lead(j, y) \in Int
  BY DEF Lead
<1> HIDE DEF Even
<1> QED BY <1>1, <1>2, <1>3, <1>4

LEMMA EvenRelaxes ==
    \A g \in [Options -> Nat], x \in Indices, d, e \in Int :
      Even(g, x, d) /\ d <= e => Even(g, x, e)
<1> SUFFICES ASSUME NEW g \in [Options -> Nat], NEW x \in Indices,
                    NEW d \in Int, NEW e \in Int, Even(g, x, d), d <= e,
                    NEW i \in Options, NEW j \in Options
             PROVE  g[i] - g[j] <= e + Lead(i, x) - Lead(j, x)
  BY DEF Even
<1>1. g[i] - g[j] <= d + Lead(i, x) - Lead(j, x)
  BY DEF Even
<1>2. Lead(i, x) \in Int /\ Lead(j, x) \in Int /\ g[i] \in Int /\ g[j] \in Int
  BY DEF Lead
<1> QED BY <1>1, <1>2

(* One more of the next option is as even, seen from the next index: past  *)
(* the last option all are ahead by one, which is as good as none.         *)
LEMMA EvenAdvances ==
    \A g \in [Options -> Nat], x \in Indices, d \in Int :
      Even(g, x, d) =>
        Even([g EXCEPT ![RoundRobinIndex(x)] = @ + 1], RoundRobinIndex(x), d)
<1> SUFFICES ASSUME NEW g \in [Options -> Nat], NEW x \in Indices, NEW d \in Int,
                    Even(g, x, d)
             PROVE  Even([g EXCEPT ![RoundRobinIndex(x)] = @ + 1], RoundRobinIndex(x), d)
  OBVIOUS
<1>1. PICK n \in Options : n = RoundRobinIndex(x)
  BY NextIndexTyped DEF Indices
<1>2. PICK h \in [Options -> Nat] : h = [g EXCEPT ![n] = @ + 1]
  <2>1. [g EXCEPT ![n] = @ + 1] \in [Options -> Nat]
    OBVIOUS
  <2> QED BY <2>1
<1>3. h[n] = g[n] + 1 /\ \A i \in Options \ {n} : h[i] = g[i]
  BY <1>2
<1>4. n = x + 1 \/ (n = 0 /\ x = NumOptions - 1)
  BY <1>1, OptionsTyped DEF RoundRobinIndex, Options, Indices, NoIndex
<1>5. ASSUME NEW i \in Options, NEW j \in Options
      PROVE  h[i] - h[j] <= d + Lead(i, n) - Lead(j, n)
  <2>1. g[i] - g[j] <= d + Lead(i, x) - Lead(j, x)
    BY DEF Even
  <2>2. g[i] \in Nat /\ g[j] \in Nat /\ i \in 0 .. NumOptions - 1 /\ j \in 0 .. NumOptions - 1
        /\ NumOptions \in Nat
    BY OptionsTyped DEF Options
  <2>3. h[i] = (IF i = n THEN g[i] + 1 ELSE g[i]) /\ h[j] = (IF j = n THEN g[j] + 1 ELSE g[j])
    BY <1>3
  <2>4. x \in Int /\ n \in Int
    BY OptionsTyped DEF Indices
  <2>5. CASE n = x + 1
    BY <2>1, <2>2, <2>3, <2>4, <2>5 DEF Lead
  <2>6. CASE n = 0 /\ x = NumOptions - 1
    BY <2>1, <2>2, <2>3, <2>4, <2>6 DEF Lead
  <2> QED BY <1>4, <2>5, <2>6
<1> QED BY <1>1, <1>2, <1>5 DEF Even

(* What the counts are, and how the steps spend.                           *)
CountsTypes ==
    /\ given \in [Options -> Nat]
    /\ worker.index \in Indices /\ adoption.lastIndex \in Indices
    /\ NoIndex \in Indices
    /\ Slack \in Int

LEMMA CountsTyped == (TypeOK => CountsTypes) /\ (TypeOK' => CountsTypes')
BY DEF TypeOK, CountsTypes, WorkerRecord, AdoptionRecord, Indices, Slack

LEMMA FaultsSlack == TypeOK /\ Spend("faults") => Slack' = Slack + 2
<1> SUFFICES ASSUME TypeOK, Spend("faults") PROVE Slack' = Slack + 2
  OBVIOUS
<1>1. spent'.faults = spent.faults + 1 /\ spent'.adoptions = spent.adoptions
  BY DEF Spend, TypeOK
<1>2. spent.faults \in Nat /\ spent.adoptions \in Nat
  BY DEF TypeOK
<1> QED BY <1>1, <1>2 DEF Slack

(* An even distribution is so from every index, but for one.               *)
LEMMA AnyIndex ==
    ASSUME TypeOK, IndexCounts
    PROVE  /\ \A y \in Indices : Even(given, y, Slack + 1)
           /\ Dealing /\ ~worker.fresh => \A y \in Indices : Even(given, y, Slack)
<1>1. Dealing /\ ~worker.fresh => \A y \in Indices : Even(given, y, Slack)
  <2>1. Dealing /\ ~worker.fresh => Even(given, worker.index, Slack - 1)
    BY DEF IndexCounts
  <2>2. Slack - 1 \in Int /\ (Slack - 1) + 1 <= Slack
    BY CountsTyped DEF CountsTypes
  <2> QED BY <2>1, <2>2, CountsTyped, EvenShifts DEF CountsTypes
<1>2. PICK x \in Indices : Even(given, x, Slack)
  BY <1>1, CountsTyped DEF CountsTypes, IndexCounts
<1>3. Slack + 1 \in Int /\ Slack + 1 <= Slack + 1
  BY CountsTyped DEF CountsTypes
<1> QED BY <1>1, <1>2, <1>3, CountsTyped, EvenShifts DEF CountsTypes

LEMMA EvenEverywhere ==
    ASSUME TypeOK', \A y \in Indices : Even(given', y, Slack' - 1)
    PROVE  IndexCounts'
<1>1. given' \in [Options -> Nat] /\ worker'.index \in Indices /\ adoption'.lastIndex \in Indices
      /\ NoIndex \in Indices /\ Slack' \in Int
  BY CountsTyped DEF CountsTypes
<1>2. \A y \in Indices : Even(given', y, Slack')
  <2>1. \A d \in Int : d - 1 \in Int /\ d - 1 <= d
    OBVIOUS
  <2>2. Slack' - 1 \in Int /\ Slack' - 1 <= Slack'
    BY <1>1, <2>1, Zenon
  <2> QED BY <1>1, <2>2, EvenRelaxes
<1> QED BY <1>1, <1>2 DEF IndexCounts

(* A failure that is paid for may lose everything it can.                  *)
LEMMA FaultCounts ==
    ASSUME TypeOK, TypeOK', Spend("faults"), \A y \in Indices : Even(given', y, Slack + 1)
    PROVE  IndexCounts'
<1>1. Slack' - 1 = Slack + 1
  BY FaultsSlack, CountsTyped DEF CountsTypes
<1> QED BY <1>1, EvenEverywhere

LEMMA CommitCounts ==
    ASSUME TypeOK, IndexCounts, NEW o \in Objects, worker.step = "write", Commit(o)
    PROVE  /\ Dealing => Even(given', RoundRobinIndex(worker.index),
                              IF worker.fresh THEN Slack ELSE Slack - 1)
           /\ ~Dealing => given' = given
           /\ \A y \in Indices : Even(given', y, Slack + 1)
<1>1. CASE worker.strategy = "Static"
  BY <1>1, AnyIndex DEF Commit, Dealing
<1>2. CASE worker.strategy # "Static"
  <2>1. Dealing
    BY <1>2 DEF Dealing, Labelling, TypeOK, WorkerRecord
  <2>2. given' = [given EXCEPT ![RoundRobinIndex(worker.index)] = @ + 1]
    BY <1>2 DEF Commit
  <2>3. PICK d \in Int : d = (IF worker.fresh THEN Slack ELSE Slack - 1) /\ d <= Slack
    BY CountsTyped DEF CountsTypes
  <2>4. Even(given, worker.index, d)
    BY <2>1, <2>3 DEF IndexCounts
  <2>5. Even(given', RoundRobinIndex(worker.index), d)
    BY <2>2, <2>4, EvenAdvances, CountsTyped DEF CountsTypes
  <2>6. RoundRobinIndex(worker.index) \in Indices /\ given' \in [Options -> Nat]
    BY NextIndexTyped, CommitTyped, CountsTyped DEF CountsTypes, Indices
  <2>7. Slack + 1 \in Int /\ d + 1 <= Slack + 1
    BY <2>3, CountsTyped DEF CountsTypes
  <2>8. \A y \in Indices : Even(given', y, Slack + 1)
    BY <2>5, <2>6, <2>7, EvenShifts
  <2> QED BY <2>1, <2>3, <2>5, <2>8
<1> QED BY <1>1, <1>2

(* A reconcile that ends without a fault, with what it saves.              *)
LEMMA EndCounts ==
    ASSUME TypeOK, IndexCounts, FreshMeansRead, TypeOK',
           worker.step = "write", worker'.step = "idle", given' = given, spent' = spent,
           adoption'.strategy = adoption.strategy, adoption'.deleting = adoption.deleting,
           adoption'.exists = adoption.exists,
           \/ worker.fresh /\ Dealing /\ adoption'.lastIndex = worker.index
           \/ worker.fresh /\ ~Dealing /\ adoption'.lastIndex \in {adoption.lastIndex, NoIndex}
           \/ ~worker.fresh /\ adoption'.lastIndex = adoption.lastIndex
    PROVE  IndexCounts'
<1>1. ~Dealing' /\ Slack' = Slack
  BY DEF Dealing, Labelling, Slack
<1>2. CASE Dealing /\ worker.fresh
  <2>1. Even(given, worker.index, Slack) /\ adoption.strategy = "RoundRobin"
        /\ ~adoption.deleting /\ adoption.exists
    BY <1>2 DEF IndexCounts, FreshMeansRead, Dealing, Labelling
  <2> QED BY <1>1, <1>2, <2>1 DEF IndexCounts
<1>3. CASE Dealing /\ ~worker.fresh
  BY <1>1, <1>3, AnyIndex, CountsTyped DEF CountsTypes, IndexCounts
<1>4. CASE ~Dealing /\ worker.fresh
  <2>1. adoption.strategy = "Static"
    BY <1>4 DEF FreshMeansRead, Dealing, Labelling, TypeOK, AdoptionRecord
  <2> QED BY <1>1, <1>4, <2>1 DEF IndexCounts
<1>5. CASE ~Dealing /\ ~worker.fresh
  BY <1>1, <1>5 DEF IndexCounts
<1> QED BY <1>2, <1>3, <1>4, <1>5

LEMMA BeginCounts ==
    TypeOK /\ IndexCounts /\ TypeOK' /\ Begin => IndexCounts' /\ FreshMeansRead'
<1> SUFFICES ASSUME TypeOK, IndexCounts, TypeOK', Begin
             PROVE  IndexCounts' /\ FreshMeansRead'
  OBVIOUS
<1>1. worker.step = "idle" /\ ~Dealing /\ given' = given
  BY DEF Begin, Dealing, Labelling
<1>2. CASE worker' = worker /\ spent' = spent
           /\ (adoption' = adoption \/ (adoption' = NoAdoption /\ adoption.deleting))
  <2>1. ~Dealing' /\ Slack' = Slack
    BY <1>1, <1>2 DEF Dealing, Labelling, Slack
  <2>2. IndexCounts'
    BY <1>1, <1>2, <2>1 DEF IndexCounts, NoAdoption
  <2> QED BY <1>1, <1>2, <2>2 DEF FreshMeansRead, Labelling
<1> DEFINE entered == [Idle EXCEPT !.step = "list", !.strategy = adoptionSeen.strategy,
                          !.index = adoptionSeen.lastIndex, !.fresh = (adoptionSeen = adoption)]
<1>3. ASSUME worker' = entered
      PROVE  /\ worker'.strategy = adoptionSeen.strategy
             /\ worker'.index = adoptionSeen.lastIndex
             /\ worker'.fresh = (adoptionSeen = adoption)
             /\ worker'.step = "list"
  BY <1>3 DEF Idle
<1>4. CASE adoptionSeen = adoption /\ adoption.exists /\ ~adoption.deleting /\ spent' = spent
           /\ adoption' = [adoption EXCEPT !.finalizer = TRUE] /\ worker' = entered
  <2>1. /\ adoption'.exists = adoption.exists
        /\ adoption'.deleting = adoption.deleting
        /\ adoption'.strategy = adoption.strategy
        /\ adoption'.lastIndex = adoption.lastIndex
    BY <1>4 DEF TypeOK, AdoptionRecord
  <2>2. Slack' = Slack /\ (Dealing' => adoption.strategy = "RoundRobin")
    BY <1>3, <1>4 DEF Slack, Dealing, Labelling
  <2>3. IndexCounts'
    BY <1>1, <1>3, <1>4, <2>1, <2>2 DEF IndexCounts
  <2> QED BY <1>3, <1>4, <2>1, <2>3 DEF FreshMeansRead, Labelling
<1>5. CASE adoptionSeen # adoption /\ worker' = entered /\ Spend("faults")
  BY <1>1, <1>3, <1>5, AnyIndex, FaultCounts DEF FreshMeansRead, Labelling
<1>6. CASE worker' = [Idle EXCEPT !.step = "free"] /\ spent' = spent
           /\ adoption' = NoAdoption /\ adoption.deleting
  <2>1. ~Labelling' /\ ~Dealing' /\ Slack' = Slack
    BY <1>6 DEF Dealing, Labelling, Idle, Slack
  <2> QED BY <1>1, <1>6, <2>1 DEF IndexCounts, FreshMeansRead, NoAdoption
<1>7. CASE worker' = worker /\ Spend("faults")
  BY <1>1, <1>7, AnyIndex, FaultCounts DEF FreshMeansRead, Labelling, Begin
<1> QED BY <1>2, <1>4, <1>5, <1>6, <1>7 DEF Begin

LEMMA WriteCounts ==
    \A o \in Objects :
      TypeOK /\ IndexCounts /\ FreshMeansRead /\ TypeOK' /\ Write(o)
        => IndexCounts' /\ FreshMeansRead'
<1> SUFFICES ASSUME NEW o \in Objects, TypeOK, IndexCounts, FreshMeansRead, TypeOK', Write(o)
             PROVE  IndexCounts' /\ FreshMeansRead'
  OBVIOUS
<1>1. worker.step = "write"
  BY DEF Write
<1>2. CASE /\ Commit(o)
           /\ worker' = [worker EXCEPT !.todo = @ \ {o},
                !.index = IF worker.strategy = "Static" THEN @ ELSE RoundRobinIndex(@)]
           /\ UNCHANGED <<adoption, spent>>
  <2>1. /\ worker'.step = worker.step /\ worker'.strategy = worker.strategy
        /\ worker'.fresh = worker.fresh
        /\ worker.strategy # "Static" => worker'.index = RoundRobinIndex(worker.index)
    BY <1>2 DEF TypeOK, WorkerRecord
  <2>2. (Dealing' <=> Dealing) /\ Slack' = Slack /\ (Dealing => worker.strategy # "Static")
    BY <1>2, <2>1 DEF Dealing, Labelling, Slack
  <2>3. IndexCounts'
    BY <1>1, <1>2, <2>1, <2>2, CommitCounts DEF IndexCounts
  <2> QED BY <1>2, <2>1, <2>3 DEF FreshMeansRead, Labelling
<1>3. ASSUME GiveUp
      PROVE  worker'.step = "idle" /\ FreshMeansRead'
  BY <1>3 DEF GiveUp, Idle, FreshMeansRead, Labelling
<1>4. CASE GiveUp /\ UNCHANGED <<objs, given, spent>>
  <2>1. CASE worker.fresh /\ Dealing
    BY <1>1, <1>3, <1>4, <2>1, EndCounts DEF GiveUp, Saved, Dealing, Labelling, TypeOK, AdoptionRecord
  <2>2. CASE ~(worker.fresh /\ Dealing)
    <3>1. adoption' = adoption
      BY <1>1, <1>4, <2>2 DEF GiveUp, Saved, Dealing, Labelling
    <3> QED BY <1>1, <1>3, <1>4, <2>2, <3>1, EndCounts
  <2> QED BY <1>3, <1>4, <2>1, <2>2
<1>5. CASE Commit(o) /\ GiveUp /\ Spend("faults")
  BY <1>1, <1>3, <1>5, CommitCounts, FaultCounts
<1> QED BY <1>2, <1>4, <1>5 DEF Write

LEMMA NextCounts ==
    TypeOK /\ IndexCounts /\ FreshMeansRead /\ TypeOK' /\ [Next]_vars
      => IndexCounts' /\ FreshMeansRead'
<1> SUFFICES ASSUME TypeOK, IndexCounts, FreshMeansRead, TypeOK', [Next]_vars
             PROVE  IndexCounts' /\ FreshMeansRead'
  OBVIOUS
<1>1. ASSUME worker'.strategy = worker.strategy, worker'.index = worker.index,
             worker'.fresh = worker.fresh, Labelling' = Labelling,
             adoption' = adoption, given' = given,
             spent'.faults = spent.faults, spent'.adoptions = spent.adoptions
      PROVE  IndexCounts' /\ FreshMeansRead'
  <2>1. (Dealing' <=> Dealing) /\ Slack' = Slack
    BY <1>1 DEF Dealing, Labelling, Slack
  <2> QED BY <1>1, <2>1 DEF IndexCounts, FreshMeansRead, Labelling
<1>2. CASE List
  <2>1. /\ worker'.strategy = worker.strategy /\ worker'.index = worker.index
        /\ worker'.fresh = worker.fresh /\ worker.step = "list" /\ worker'.step = "write"
    BY <1>2 DEF List, TypeOK, WorkerRecord
  <2>2. Labelling /\ Labelling'
    BY <2>1 DEF Labelling
  <2> QED BY <1>1, <1>2, <2>1, <2>2 DEF List
<1>3. CASE Sync \/ UNCHANGED vars
  BY <1>1, <1>3 DEF Sync, Labelling, vars
<1>4. ASSUME NEW o \in Objects, CreateObject(o) \/ Relabel(o)
      PROVE  IndexCounts' /\ FreshMeansRead'
  <2>1. PICK obj \in ObjectRecord : ChangeObject(o, obj)
    BY <1>4, UserChanges
  <2>2. /\ worker'.strategy = worker.strategy /\ worker'.index = worker.index
        /\ worker'.fresh = worker.fresh /\ worker'.step = worker.step
    BY <2>1 DEF ChangeObject, TypeOK, WorkerRecord
  <2>3. spent'.faults = spent.faults /\ spent'.adoptions = spent.adoptions
    BY <1>4 DEF CreateObject, Relabel, Spend, TypeOK
  <2> QED BY <1>1, <2>1, <2>2, <2>3 DEF ChangeObject, Labelling
<1>5. CASE Restart
  BY <1>5, AnyIndex, FaultCounts DEF Restart, Idle, FreshMeansRead, Labelling
<1>6. CASE Finish
  <2>1. worker.step = "write" /\ worker'.step = "idle"
    BY <1>6 DEF Finish, Idle
  <2>2. CASE worker.fresh
    BY <1>6, <2>1, <2>2, EndCounts
       DEF Finish, TypeOK, AdoptionRecord, WorkerRecord, Dealing, Labelling, FreshMeansRead
  <2>3. CASE ~worker.fresh
    BY <1>6, <2>1, <2>3, EndCounts DEF Finish, FreshMeansRead, Labelling
  <2> QED BY <2>2, <2>3
<1>7. CASE EditAdoption
  <2>1. /\ worker'.strategy = worker.strategy /\ worker'.index = worker.index
        /\ worker'.step = worker.step /\ worker'.fresh = (worker.step = "idle")
    BY <1>7 DEF EditAdoption, OutdatedWorker, TypeOK, WorkerRecord
  <2>2. given' = given /\ spent'.faults = spent.faults
        /\ spent'.adoptions = spent.adoptions + 1
    BY <1>7 DEF EditAdoption, TypeOK
  <2>3. Slack' = Slack + 1 /\ (Dealing' <=> Dealing)
    BY <2>1, <2>2 DEF Slack, Dealing, Labelling, TypeOK
  <2>4. FreshMeansRead'
    BY <2>1 DEF FreshMeansRead, Labelling
  <2>5. CASE Dealing
    <3>1. PICK d \in Int : d <= Slack' - 1 /\ Even(given, worker.index, d)
      BY <2>3, <2>5, CountsTyped DEF CountsTypes, IndexCounts
    <3>2. Slack' - 1 \in Int
      BY <2>3, CountsTyped DEF CountsTypes
    <3>3. Even(given', worker'.index, Slack' - 1)
      BY <2>1, <2>2, <3>1, <3>2, EvenRelaxes, CountsTyped DEF CountsTypes
    <3>4. ~worker'.fresh
      BY <2>1, <2>5 DEF Dealing, Labelling
    <3> QED BY <2>3, <2>4, <2>5, <3>3, <3>4 DEF IndexCounts
  <2>6. CASE ~Dealing
    <3>1. \A y \in Indices : Even(given', y, Slack')
      BY <2>2, <2>3, AnyIndex
    <3> QED BY <2>3, <2>4, <2>6, <3>1, CountsTyped DEF CountsTypes, IndexCounts
  <2> QED BY <2>5, <2>6
<1>8. CASE Free
  <2>1. ~Labelling /\ ~Dealing /\ ~Labelling' /\ ~Dealing' /\ Slack' = Slack
    BY <1>8 DEF Free, Idle, Labelling, Dealing, Slack
  <2> QED BY <1>8, <2>1 DEF Free, IndexCounts, FreshMeansRead
<1> QED BY <1>2, <1>3, <1>4, <1>5, <1>6, <1>7, <1>8, BeginCounts, WriteCounts
        DEF Next, ControllerStep

-----------------------------------------------------------------------------
LEMMA InvHolds == Spec => []Inv
<1>1. Init => Inv
  <2>1. Init => OneOptionOnly
    BY FewOptions DEF Init, OneOptionOnly, Absent
  <2>2. Init => ListedAreFree
    BY DEF Init, ListedAreFree, Idle
  <2>3. Init => IndexCounts /\ FreshMeansRead
    BY OptionsTyped DEF Init, IndexCounts, FreshMeansRead, Idle, NoAdoption, Dealing, Labelling, Even,
                        Lead, Slack, Options, NoIndex
  <2> QED BY <2>1, <2>2, <2>3, InitTyped DEF Inv
<1>2. Inv /\ [Next]_vars => Inv'
  BY NextTyped, NextKeepsOne, NextCounts DEF Inv
<1> QED BY <1>1, <1>2, PTL DEF Spec

(* Every reachable state is well typed: the index that is kept in the      *)
(* status is always one of an option, or none.                             *)
THEOREM AdoptionTypeCorrect == Spec => []TypeOK
<1>1. Inv => TypeOK
  BY DEF Inv
<1> QED BY <1>1, InvHolds, PTL

(* No object is ever given a second option, however users and the          *)
(* controller get in each other's way.                                     *)
THEOREM OneOptionAtMost == Spec => []OneOptionOnly
<1>1. Inv => OneOptionOnly
  BY DEF Inv
<1> QED BY <1>1, InvHolds, PTL

(* The options are given out in turn: as often as each other, but for one, *)
(* and for what the failures and the edits up to now can account for.      *)
THEOREM OptionsStayBalanced == Spec => []Balanced
<1>1. Inv => Balanced
  <2> SUFFICES ASSUME TypeOK, IndexCounts, NEW i \in Options, NEW j \in Options
               PROVE  given[i] - given[j] <= 1 + 2 * spent.faults + spent.adoptions
    BY DEF Inv, Balanced
  <2>1. PICK x \in Indices, d \in Int : d <= Slack /\ Even(given, x, d)
    <3>1. Slack \in Int /\ Slack - 1 \in Int /\ Slack <= Slack /\ Slack - 1 <= Slack
      BY CountsTyped DEF CountsTypes
    <3> QED BY <3>1, CountsTyped DEF CountsTypes, IndexCounts
  <2>2. given[i] - given[j] <= d + Lead(i, x) - Lead(j, x)
    BY <2>1 DEF Even
  <2>3. Lead(i, x) - Lead(j, x) <= 1 /\ Lead(i, x) \in Int /\ Lead(j, x) \in Int
    BY DEF Lead
  <2>4. given[i] \in Nat /\ given[j] \in Nat /\ spent.faults \in Nat /\ spent.adoptions \in Nat
    BY DEF TypeOK
  <2> QED BY <2>1, <2>2, <2>3, <2>4 DEF Slack
<1> QED BY <1>1, InvHolds, PTL
=============================================================================
