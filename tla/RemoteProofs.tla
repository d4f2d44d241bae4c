---------------------------- MODULE RemoteProofs ----------------------------
(***************************************************************************)
(* For any phases, classes, layouts and bounds: no object is deleted that  *)
(* the ObjectSet has paused throughout its teardown, whichever of its      *)
(* controllers does the deleting and however old the caches are; phases    *)
(* are torn down in reverse order across all controllers, and the          *)
(* ObjectSet goes last, but for ObjectSetPhases that the cache did not     *)
(* show yet when the teardown came to them.                                *)
(*                                                                         *)
(* The second half rests on Held.  A phase that is delegated is gone when  *)
(* its ObjectSetPhase is; that is because the finalizer stays on it until  *)
(* its own controller has passed every object of it (PhaseWorkerHolds), no *)
(* late reconcile from an old copy can bring an object back (CopyHolds),   *)
(* and an ObjectSetPhase without finalizer has no objects (RemoteHolds).   *)
(* What the teardown of the ObjectSet has behind it (SetWorkerHolds) is    *)
(* then stable, for what creates objects or ObjectSetPhases, a rollout,    *)
(* does not begin again.                                                   *)
(***************************************************************************)
EXTENDS RemotePhases, TLAPS

(* A worker that is at an object is at one of the phase it is at.          *)
Walking(w) ==
    w.step \in {"reconcile", "teardown"} =>
      w.phase \in Phases /\ w.at \in 1 .. Len(Content[w.phase])

Positions == Walking(setWorker) /\ \A c \in Classes : Walking(phaseWorker[c])

-----------------------------------------------------------------------------
(* Types.                                                                  *)
LEMMA ConstantsTyped ==
    /\ MaxUids \in Nat
    /\ Len(Content) \in Nat
    /\ Phases \subseteq Nat
    /\ \A p \in Phases : p + 1 \in Int /\ p - 1 \in Int
    /\ 0 \notin Phases
    /\ ObjectSet \in Keys
    /\ Phases \subseteq Keys
BY RemoteAssumption DEF Phases, ObjectSet, Keys

LEMMA ContentTyped ==
    \A p \in Phases :
      /\ Len(Content[p]) \in Nat \ {0}
      /\ \A i \in 1 .. Len(Content[p]) : Content[p][i] \in Objects
<1> SUFFICES ASSUME NEW p \in Phases
             PROVE  /\ Len(Content[p]) \in Nat \ {0}
                    /\ \A i \in 1 .. Len(Content[p]) : Content[p][i] \in Objects
  OBVIOUS
<1>1. Content[p] \in Seq(Objects) /\ Content[p] # << >>
  BY RemoteAssumption
<1> QED BY <1>1

LEMMA RecordsTyped ==
    /\ NewSet \in SetRecord /\ NoSet \in SetRecord
    /\ NoPhase \in PhaseRecord
    /\ Absent \in ObjectRecord
    /\ SetIdle \in WorkerRecord(SetRecord) /\ SetIdle.step = "idle"
    /\ PhaseIdle \in WorkerRecord(PhaseRecord) /\ PhaseIdle.step = "idle"
<1>1. NewSet \in SetRecord /\ NoSet \in SetRecord
  BY DEF NewSet, NoSet, SetRecord, Conditions
<1>2. NoPhase \in PhaseRecord
  BY DEF NoPhase, PhaseRecord, Conditions, Nobody
<1>3. Absent \in ObjectRecord
  BY DEF Absent, ObjectRecord, Nobody
<1>4. ASSUME NEW Copies, NEW copy \in Copies
      PROVE  IdleWith(copy) \in WorkerRecord(Copies) /\ IdleWith(copy).step = "idle"
  BY <1>4 DEF IdleWith, WorkerRecord, Steps
<1> QED BY <1>1, <1>2, <1>3, <1>4 DEF SetIdle, PhaseIdle

(* Where a worker goes next, it takes its copy along.                      *)
Moves(w, next, Copies) ==
    /\ next \in WorkerRecord(Copies)
    /\ Walking(next)
    /\ next.read = w.read
    /\ next.step \in {w.step, "report"}

LEMMA StopMoves ==
    ASSUME NEW Copies, NEW w \in WorkerRecord(Copies), NEW ok \in BOOLEAN
    PROVE  Moves(w, Stop(w, ok), Copies)
BY DEF Moves, Stop, WorkerRecord, Steps, Walking

LEMMA EnterMoves ==
    ASSUME NEW Copies, NEW w \in WorkerRecord(Copies), NEW p \in Int
    PROVE  Moves(w, EnterPhase(w, p), Copies)
<1>1. CASE p \in Phases
  <2> DEFINE next == [w EXCEPT !.phase = p, !.at = 1, !.ok = TRUE]
  <2>1. next \in WorkerRecord(Copies) /\ next.read = w.read /\ next.step = w.step
        /\ next.phase = p /\ next.at = 1
    BY <1>1 DEF WorkerRecord
  <2>2. Walking(next)
    BY <1>1, <2>1, ContentTyped DEF Walking
  <2>3. EnterPhase(w, p) = next
    BY <1>1 DEF EnterPhase
  <2> QED BY <2>1, <2>2, <2>3 DEF Moves
<1>2. CASE p \notin Phases
  BY <1>2, StopMoves DEF EnterPhase
<1> QED BY <1>1, <1>2

LEMMA AfterSetPhaseMoves ==
    ASSUME NEW Copies, NEW w \in WorkerRecord(Copies), NEW ok \in BOOLEAN,
           w.phase \in Phases
    PROVE  Moves(w, AfterSetPhase(w, ok), Copies)
<1>1. Following(w) \in Int
  BY ConstantsTyped DEF Following
<1> QED BY <1>1, EnterMoves, StopMoves DEF AfterSetPhase

LEMMA NextObjectMoves ==
    ASSUME NEW Copies, NEW w \in WorkerRecord(Copies), NEW good \in BOOLEAN,
           w.phase \in Phases, w.at \in 1 .. Len(Content[w.phase]),
           w.at < Len(Content[w.phase])
    PROVE  Moves(w, [w EXCEPT !.at = @ + 1, !.ok = @ /\ good], Copies)
<1> DEFINE next == [w EXCEPT !.at = @ + 1, !.ok = @ /\ good]
<1>1. ASSUME NEW ok \in BOOLEAN, NEW at \in Nat
      PROVE  [w EXCEPT !.at = at, !.ok = ok] \in WorkerRecord(Copies)
  BY DEF WorkerRecord
<1>2. next = [w EXCEPT !.at = w.at + 1, !.ok = w.ok /\ good]
  BY DEF WorkerRecord
<1>3. (w.ok /\ good) \in BOOLEAN /\ w.at + 1 \in Nat
  BY DEF WorkerRecord
<1>4. next \in WorkerRecord(Copies)
  BY <1>1, <1>2, <1>3, Zenon
<1>5. next.read = w.read /\ next.step = w.step /\ next.phase = w.phase /\ next.at = w.at + 1
  BY <1>2 DEF WorkerRecord
<1>6. next.at \in 1 .. Len(Content[next.phase])
  BY <1>5, ContentTyped
<1> QED BY <1>4, <1>5, <1>6 DEF Moves, Walking

LEMMA AfterSetObjectMoves ==
    ASSUME NEW Copies, NEW w \in WorkerRecord(Copies), NEW good \in BOOLEAN,
           w.phase \in Phases, w.at \in 1 .. Len(Content[w.phase])
    PROVE  Moves(w, AfterSetObject(w, good), Copies)
<1>1. (w.ok /\ good) \in BOOLEAN
  OBVIOUS
<1> QED BY <1>1, NextObjectMoves, AfterSetPhaseMoves DEF AfterSetObject

LEMMA AfterPhaseObjectMoves ==
    ASSUME NEW Copies, NEW w \in WorkerRecord(Copies), NEW good \in BOOLEAN,
           w.phase \in Phases, w.at \in 1 .. Len(Content[w.phase])
    PROVE  /\ Moves(w, AfterPhaseObject(w, good), Copies)
           /\ AfterPhaseObject(w, good).phase = w.phase
<1>1. CASE w.at < Len(Content[w.phase])
  BY <1>1, NextObjectMoves DEF AfterPhaseObject, WorkerRecord
<1>2. CASE ~(w.at < Len(Content[w.phase]))
  BY <1>2 DEF AfterPhaseObject, Moves, WorkerRecord, Walking, Steps
<1> QED BY <1>1, <1>2

LEMMA SetUpdates ==
    ASSUME NEW s \in SetRecord
    PROVE  /\ SpecChanged(s) \in SetRecord
           /\ [SpecChanged(s) EXCEPT !.deleting = TRUE] \in SetRecord
           /\ [s EXCEPT !.finalizer = TRUE] \in SetRecord
           /\ \A ok \in BOOLEAN : Reported(s, ok) \in SetRecord
           /\ \A lifecycle \in {"Active", "Paused", "Archived"}, os \in SUBSET Objects :
                [SpecChanged(s) EXCEPT !.lifecycle = lifecycle, !.pausedFor = os] \in SetRecord
BY DEF SpecChanged, Reported, SetRecord, Conditions

LEMMA PhaseUpdates ==
    ASSUME NEW ph \in PhaseRecord
    PROVE  /\ SpecChanged(ph) \in PhaseRecord
           /\ DeletePhase(ph) \in PhaseRecord
           /\ [ph EXCEPT !.finalizer = TRUE] \in PhaseRecord
           /\ \A ok \in BOOLEAN : PhaseReported(ph, ok) \in PhaseRecord
           /\ \A os \in SUBSET Objects :
                [SpecChanged(ph) EXCEPT !.pausedFor = os] \in PhaseRecord
BY RecordsTyped DEF SpecChanged, DeletePhase, PhaseReported, PhaseRecord, Conditions

(* What an object can become: an update of one that is there, or nothing.  *)
ObjsTyped ==
    /\ objs \in [Objects -> ObjectRecord]
    /\ \A o \in Objects : objs[o].exists \/ objs[o] = Absent

LEMMA ObjectUpdates ==
    ASSUME ObjsTyped, NEW o \in Objects, NEW obj \in ObjectRecord,
           obj.exists \/ obj = Absent, objs' = [objs EXCEPT ![o] = obj]
    PROVE  ObjsTyped'
BY DEF ObjsTyped

LEMMA AppliedTyped ==
    ASSUME ObjsTyped, NEW o \in Objects, NEW uid \in Uids \union {Nobody, SetUid}
    PROVE  Applied(uid, o) \in ObjectRecord /\ Applied(uid, o).exists
<1>1. objs[o] \in ObjectRecord
  BY DEF ObjsTyped
<1> QED BY <1>1, RecordsTyped DEF Applied, ObjectRecord

LEMMA DeleteTyped ==
    ASSUME ObjsTyped, NEW o \in Objects, NEW paused, DeleteObject(paused, o)
    PROVE  ObjsTyped'
<1>1. CASE paused \/ ~objs[o].exists
  BY <1>1 DEF DeleteObject, ObjsTyped
<1>2. CASE ~(paused \/ ~objs[o].exists)
  <2>1. [objs[o] EXCEPT !.dying = TRUE] \in ObjectRecord
        /\ [objs[o] EXCEPT !.dying = TRUE].exists
    BY <1>2 DEF ObjsTyped, ObjectRecord
  <2>2. objs' = [objs EXCEPT ![o] = [objs[o] EXCEPT !.dying = TRUE]]
    BY <1>2 DEF DeleteObject
  <2> QED BY <2>1, <2>2, ObjectUpdates
<1> QED BY <1>1, <1>2

LEMMA WakeTyped ==
    ASSUME queue \subseteq Keys, NEW keys \in SUBSET Keys, Wake(keys)
    PROVE  queue' \subseteq Keys
BY DEF Wake, Woken

Typed == TypeOK /\ Positions

LEMMA InitTyped == Init => Typed
<1> SUFFICES ASSUME Init PROVE Typed
  OBVIOUS
<1>1. objs \in [Objects -> ObjectRecord]
      /\ \A o \in Objects : objs[o].exists \/ objs[o] = Absent
  <2>1. [Absent EXCEPT !.exists = TRUE, !.controller = Stranger] \in ObjectRecord
        /\ [Absent EXCEPT !.exists = TRUE, !.controller = Stranger].exists
    BY DEF Absent, ObjectRecord, Nobody, Stranger
  <2> QED BY <2>1, RecordsTyped DEF Init
<1>2. phases \in [Phases -> PhaseRecord] /\ phasesSeen \in [Phases -> PhaseRecord]
  BY RecordsTyped DEF Init
<1>3. created \in 0 .. MaxUids /\ queue \subseteq Keys /\ watching \subseteq Keys \X Objects
  BY ConstantsTyped DEF Init
<1>4. Positions
  BY RecordsTyped DEF Init, Positions, Walking
<1>5. class \in Layouts /\ set \in SetRecord /\ pauses \subseteq SUBSET Objects
      /\ setWorker \in WorkerRecord(SetRecord)
      /\ phaseWorker \in [Classes -> WorkerRecord(PhaseRecord)]
  BY RecordsTyped DEF Init
<1> QED BY <1>1, <1>2, <1>3, <1>4, <1>5 DEF Typed, TypeOK

LEMMA BeginSetTyped == Typed /\ BeginSet => Typed'
<1> SUFFICES ASSUME Typed, BeginSet PROVE Typed'
  OBVIOUS
<1> USE DEF Typed, TypeOK
<1> DEFINE s == [set EXCEPT !.finalizer = TRUE]
           From(step) == [SetIdle EXCEPT !.step = step, !.read = s]
<1>1. s \in SetRecord
  BY SetUpdates
<1>2. \A step \in Steps : From(step) \in WorkerRecord(SetRecord)
  BY <1>1, RecordsTyped DEF WorkerRecord, Steps
<1>3. \A step \in Steps, p \in {1, Len(Content)} :
        Moves(From(step), EnterPhase(From(step), p), SetRecord)
  <2> TAKE step \in Steps, p \in {1, Len(Content)}
  <2>1. p \in Int
    BY ConstantsTyped
  <2> QED BY <1>2, <2>1, EnterMoves
<1>4. \/ setWorker' = setWorker
      \/ setWorker' = EnterPhase(From("teardown"), Len(Content))
      \/ setWorker' = EnterPhase(From("reconcile"), 1)
  BY DEF BeginSet
<1>5. setWorker' \in WorkerRecord(SetRecord) /\ Walking(setWorker)'
  BY <1>3, <1>4 DEF Moves, Steps, Walking, Positions
<1>6. set' \in SetRecord /\ queue' \subseteq Keys
  BY <1>1 DEF BeginSet
<1> QED BY <1>5, <1>6 DEF BeginSet, Positions, Walking

LEMMA SetWorkerIsAt ==
    ASSUME Typed, setWorker.step \in {"reconcile", "teardown"}
    PROVE  /\ setWorker.phase \in Phases
           /\ setWorker.at \in 1 .. Len(Content[setWorker.phase])
           /\ SetObject \in Objects
           /\ \A good \in BOOLEAN :
                Moves(setWorker, AfterSetObject(setWorker, good), SetRecord)
           /\ \A ok \in BOOLEAN : Moves(setWorker, AfterSetPhase(setWorker, ok), SetRecord)
<1>1. setWorker.phase \in Phases /\ setWorker.at \in 1 .. Len(Content[setWorker.phase])
  BY DEF Typed, Positions, Walking
<1>2. SetObject \in Objects
  BY <1>1, ContentTyped DEF SetObject
<1>3. setWorker \in WorkerRecord(SetRecord)
  BY DEF Typed, TypeOK
<1> QED BY <1>1, <1>2, <1>3, AfterSetObjectMoves, AfterSetPhaseMoves

LEMMA ReconcileLocalTyped == Typed /\ ReconcileLocal => Typed'
<1> SUFFICES ASSUME Typed, ReconcileLocal PROVE Typed'
  OBVIOUS
<1> DEFINE o == SetObject
<1>1. ObjsTyped /\ o \in Objects /\ queue \subseteq Keys
      /\ watching \subseteq Keys \X Objects
  BY SetWorkerIsAt DEF Typed, TypeOK, ObjsTyped, ReconcileLocal
<1>2. ObjsTyped'
  BY <1>1, AppliedTyped, ObjectUpdates DEF ReconcileLocal, ObjsTyped
<1>3. \/ setWorker' = SetIdle
      \/ \E good \in BOOLEAN : setWorker' = AfterSetObject(setWorker, good)
  <2>1. (objs[o].exists /\ objs[o].ready) \in BOOLEAN
    OBVIOUS
  <2>2. objs'[o].ready \in BOOLEAN
    BY <1>1, <1>2 DEF ObjsTyped, ObjectRecord
  <2> QED BY <2>1, <2>2 DEF ReconcileLocal
<1>4. setWorker' \in WorkerRecord(SetRecord) /\ Walking(setWorker)'
  BY <1>3, SetWorkerIsAt, RecordsTyped DEF ReconcileLocal, Moves, Walking
<1>5. queue' \subseteq Keys
  <2>1. Wake({}) \/ Wake({ObjectSet})
    BY DEF ReconcileLocal
  <2> QED BY <1>1, <2>1, WakeTyped, ConstantsTyped
<1>6. watching' \subseteq Keys \X Objects
  BY <1>1, ConstantsTyped DEF ReconcileLocal
<1> QED
  BY <1>2, <1>4, <1>5, <1>6
  DEF ReconcileLocal, Typed, TypeOK, Positions, ObjsTyped, Walking

LEMMA ReconcileRemoteTyped == Typed /\ ReconcileRemote => Typed'
<1> SUFFICES ASSUME Typed, ReconcileRemote PROVE Typed'
  OBVIOUS
<1> USE DEF Typed, TypeOK
<1>1. setWorker.phase \in Phases
  BY SetWorkerIsAt DEF ReconcileRemote
<1>2. phases' \in [Phases -> PhaseRecord] /\ created' \in 0 .. MaxUids
  <2>1. CASE created < MaxUids /\ created' = created + 1
             /\ phases' = [phases EXCEPT ![setWorker.phase] = NewPhase]
    <3>1. created + 2 \in Uids /\ created' \in 0 .. MaxUids
      BY <2>1, ConstantsTyped DEF Uids
    <3>2. NewPhase \in PhaseRecord
      BY <3>1 DEF NewPhase, NoPhase, PhaseRecord, Conditions
    <3> QED BY <2>1, <3>1, <3>2
  <2>2. CASE UNCHANGED <<phases, created>>
    BY <2>2
  <2> QED BY <2>1, <2>2 DEF ReconcileRemote
<1>3. \/ setWorker' = SetIdle
      \/ \E ok \in BOOLEAN : setWorker' = AfterSetPhase(setWorker, ok)
  BY DEF ReconcileRemote
<1>4. setWorker' \in WorkerRecord(SetRecord) /\ Walking(setWorker)'
  BY <1>3, SetWorkerIsAt, RecordsTyped DEF ReconcileRemote, Moves, Walking
<1>5. queue' \subseteq Keys
  BY ConstantsTyped DEF ReconcileRemote
<1> QED BY <1>2, <1>4, <1>5 DEF ReconcileRemote, Positions, Walking

LEMMA TeardownLocalTyped == Typed /\ TeardownLocal => Typed'
<1> SUFFICES ASSUME Typed, TeardownLocal PROVE Typed'
  OBVIOUS
<1>1. ObjsTyped /\ SetObject \in Objects /\ queue \subseteq Keys
  BY SetWorkerIsAt DEF Typed, TypeOK, ObjsTyped, TeardownLocal
<1>2. ObjsTyped'
  BY <1>1, DeleteTyped DEF TeardownLocal
<1>3. CleanedUp(SetPaused(setWorker.read, SetObject), SetObject) \in BOOLEAN
  BY DEF CleanedUp
<1>4. setWorker' \in WorkerRecord(SetRecord) /\ Walking(setWorker)'
  BY <1>3, SetWorkerIsAt DEF TeardownLocal, Moves, Walking
<1>5. queue' \subseteq Keys
  BY <1>1, WakeTyped DEF TeardownLocal
<1> QED BY <1>2, <1>4, <1>5 DEF TeardownLocal, Typed, TypeOK, Positions, ObjsTyped, Walking

(* To pass for gone changes nothing else about the worker.                 *)
LEMMA OverlooksTyped ==
    ASSUME Typed, NEW p \in Phases
    PROVE  /\ Overlooks(p) \in WorkerRecord(SetRecord)
           /\ Overlooks(p).step = setWorker.step /\ Overlooks(p).phase = setWorker.phase
           /\ Overlooks(p).at = setWorker.at /\ Overlooks(p).read = setWorker.read
           /\ Overlooks(p).ok = setWorker.ok
           /\ setWorker.overlooked \subseteq Overlooks(p).overlooked
           /\ phases[p].exists => p \in Overlooks(p).overlooked
<1>1. setWorker \in WorkerRecord(SetRecord)
  BY DEF Typed, TypeOK
<1>2. CASE phases[p].exists
  <2>1. Overlooks(p) = [setWorker EXCEPT !.overlooked = @ \union {p}]
    BY <1>2 DEF Overlooks
  <2> QED BY <1>1, <2>1 DEF WorkerRecord
<1>3. CASE ~phases[p].exists
  BY <1>1, <1>3 DEF Overlooks
<1> QED BY <1>2, <1>3

LEMMA TeardownRemoteTyped == Typed /\ TeardownRemote => Typed'
<1> SUFFICES ASSUME Typed, TeardownRemote PROVE Typed'
  OBVIOUS
<1> USE DEF Typed, TypeOK
<1> DEFINE p == setWorker.phase
           s == setWorker.read
<1>1. p \in Phases /\ s.pausedFor \in SUBSET Objects
  BY SetWorkerIsAt DEF TeardownRemote, WorkerRecord, SetRecord
<1>2. phases' \in [Phases -> PhaseRecord]
  <2>1. phases[p] \in PhaseRecord
    BY <1>1
  <2>2. /\ [SpecChanged(phases[p]) EXCEPT !.pausedFor = s.pausedFor] \in PhaseRecord
        /\ DeletePhase(phases[p]) \in PhaseRecord
    BY <1>1, <2>1, PhaseUpdates
  <2>3. \/ phases' = phases
        \/ phases' = [phases EXCEPT ![p] =
                        [SpecChanged(phases[p]) EXCEPT !.pausedFor = s.pausedFor]]
        \/ phases' = [phases EXCEPT ![p] = IF phases[p].exists THEN DeletePhase(phases[p])
                                                              ELSE phases[p]]
    BY <1>1 DEF TeardownRemote
  <2> QED BY <1>1, <2>1, <2>2, <2>3
<1>3. \/ setWorker' = SetIdle
      \/ \E ok \in BOOLEAN : setWorker' = AfterSetPhase(setWorker, ok)
      \/ setWorker' = AfterSetPhase(Overlooks(p), TRUE)
  BY DEF TeardownRemote
<1>4. Moves(Overlooks(p), AfterSetPhase(Overlooks(p), TRUE), SetRecord)
  BY <1>1, OverlooksTyped, AfterSetPhaseMoves
<1>5. setWorker' \in WorkerRecord(SetRecord) /\ Walking(setWorker)'
  BY <1>3, <1>4, SetWorkerIsAt, RecordsTyped DEF TeardownRemote, Moves, Walking
<1>6. queue' \subseteq Keys
  BY ConstantsTyped DEF TeardownRemote
<1> QED BY <1>2, <1>5, <1>6 DEF TeardownRemote, Positions, Walking

LEMMA FinishSetTyped == Typed /\ FinishSet => Typed'
<1> SUFFICES ASSUME Typed, FinishSet PROVE Typed'
  OBVIOUS
<1> USE DEF Typed, TypeOK
<1>1. setWorker.read \in SetRecord /\ setWorker.ok \in BOOLEAN
  BY DEF WorkerRecord
<1>2. set' \in SetRecord
  BY <1>1, SetUpdates, RecordsTyped DEF FinishSet
<1>3. setWorker' \in WorkerRecord(SetRecord) /\ Walking(setWorker)'
  BY RecordsTyped DEF FinishSet, Walking
<1>4. queue' \subseteq Keys /\ watching' \subseteq Keys \X Objects
  BY ConstantsTyped DEF FinishSet
<1> QED BY <1>2, <1>3, <1>4 DEF FinishSet, Positions, Walking

-----------------------------------------------------------------------------
LEMMA PhaseWorkerIsAt ==
    ASSUME Typed, NEW c \in Classes, phaseWorker[c].step \in {"reconcile", "teardown"}
    PROVE  /\ phaseWorker[c].phase \in Phases
           /\ Content[phaseWorker[c].phase][phaseWorker[c].at] \in Objects
           /\ \A good \in BOOLEAN :
                /\ Moves(phaseWorker[c], AfterPhaseObject(phaseWorker[c], good), PhaseRecord)
                /\ AfterPhaseObject(phaseWorker[c], good).phase = phaseWorker[c].phase
<1>1. phaseWorker[c].phase \in Phases
      /\ phaseWorker[c].at \in 1 .. Len(Content[phaseWorker[c].phase])
  BY DEF Typed, Positions, Walking
<1>2. phaseWorker[c] \in WorkerRecord(PhaseRecord)
  BY DEF Typed, TypeOK
<1> QED BY <1>1, <1>2, ContentTyped, AfterPhaseObjectMoves

(* A step of one phase worker leaves the others where they are.            *)
LEMMA PhaseWorkerGoes ==
    ASSUME Typed, NEW c \in Classes, NEW w \in WorkerRecord(PhaseRecord), Walking(w),
           phaseWorker' = [phaseWorker EXCEPT ![c] = w]
    PROVE  /\ phaseWorker' \in [Classes -> WorkerRecord(PhaseRecord)]
           /\ \A d \in Classes : Walking(phaseWorker'[d])
BY DEF Typed, TypeOK, Positions

LEMMA BeginPhaseTyped ==
    ASSUME NEW c \in Classes, NEW p \in Phases, Typed, BeginPhase(c, p)
    PROVE  Typed'
<1> DEFINE ph == [phasesSeen[p] EXCEPT !.finalizer = TRUE]
           From(step, copy) ==
             [PhaseIdle EXCEPT !.step = step, !.phase = p, !.at = 1, !.read = copy]
<1>1. phasesSeen[p] \in PhaseRecord /\ ph \in PhaseRecord
  BY PhaseUpdates DEF Typed, TypeOK
<1>2. phases' \in [Phases -> PhaseRecord] /\ queue' \subseteq Keys
  BY <1>1 DEF BeginPhase, Typed, TypeOK
<1>3. \A step \in {"reconcile", "teardown"}, copy \in PhaseRecord :
        From(step, copy) \in WorkerRecord(PhaseRecord) /\ Walking(From(step, copy))
  <2> TAKE step \in {"reconcile", "teardown"}, copy \in PhaseRecord
  <2>1. From(step, copy) \in WorkerRecord(PhaseRecord)
    BY RecordsTyped DEF WorkerRecord, Steps
  <2>2. From(step, copy).phase = p /\ From(step, copy).at = 1
    BY RecordsTyped DEF WorkerRecord
  <2>3. 1 \in 1 .. Len(Content[p])
    BY ContentTyped
  <2> QED BY <2>1, <2>2, <2>3 DEF Walking
<1>4. \/ phaseWorker' = phaseWorker
      \/ phaseWorker' = [phaseWorker EXCEPT ![c] = From("teardown", phasesSeen[p])]
      \/ phaseWorker' = [phaseWorker EXCEPT ![c] = From("reconcile", ph)]
  BY DEF BeginPhase
<1>5. /\ phaseWorker' \in [Classes -> WorkerRecord(PhaseRecord)]
      /\ \A d \in Classes : Walking(phaseWorker'[d])
  BY <1>1, <1>3, <1>4, PhaseWorkerGoes DEF Typed, TypeOK, Positions
<1> QED BY <1>2, <1>5 DEF BeginPhase, Typed, TypeOK, Positions, Walking

LEMMA ReconcilePhaseObjectTyped ==
    ASSUME NEW c \in Classes, Typed, ReconcilePhaseObject(c)
    PROVE  Typed'
<1> DEFINE w == phaseWorker[c]
           o == Content[w.phase][w.at]
<1>1. ObjsTyped /\ o \in Objects /\ w.phase \in Phases /\ queue \subseteq Keys
      /\ watching \subseteq Keys \X Objects /\ w.read.uid \in Uids \union {Nobody, SetUid}
  <2>1. w.read \in PhaseRecord
    BY DEF Typed, TypeOK, WorkerRecord
  <2> QED BY <2>1, PhaseWorkerIsAt DEF Typed, TypeOK, ObjsTyped, ReconcilePhaseObject, PhaseRecord
<1>2. ObjsTyped'
  BY <1>1, AppliedTyped, ObjectUpdates DEF ReconcilePhaseObject, ObjsTyped
<1>3. \/ phaseWorker' = [phaseWorker EXCEPT ![c] = PhaseIdle]
      \/ \E good \in BOOLEAN :
           phaseWorker' = [phaseWorker EXCEPT ![c] = AfterPhaseObject(w, good)]
  <2>1. (objs[o].exists /\ objs[o].ready) \in BOOLEAN
    OBVIOUS
  <2>2. objs'[o].ready \in BOOLEAN
    BY <1>1, <1>2 DEF ObjsTyped, ObjectRecord
  <2> QED BY <2>1, <2>2 DEF ReconcilePhaseObject
<1>4. Walking(PhaseIdle)
  BY RecordsTyped DEF Walking
<1>5. /\ phaseWorker' \in [Classes -> WorkerRecord(PhaseRecord)]
      /\ \A d \in Classes : Walking(phaseWorker'[d])
  BY <1>3, <1>4, PhaseWorkerIsAt, PhaseWorkerGoes, RecordsTyped DEF ReconcilePhaseObject, Moves
<1>6. queue' \subseteq Keys
  <2>1. Wake({}) \/ Wake({w.phase})
    BY DEF ReconcilePhaseObject
  <2> QED BY <1>1, <2>1, WakeTyped, ConstantsTyped
<1>7. watching' \subseteq Keys \X Objects
  <2>1. watching' = watching \union {<<w.phase, o>>}
    BY DEF ReconcilePhaseObject
  <2>2. w.phase \in Keys
    BY <1>1, ConstantsTyped
  <2> QED BY <1>1, <2>1, <2>2
<1> QED
  BY <1>2, <1>5, <1>6, <1>7
  DEF ReconcilePhaseObject, Typed, TypeOK, Positions, ObjsTyped, Walking

LEMMA TeardownPhaseObjectTyped ==
    ASSUME NEW c \in Classes, Typed, TeardownPhaseObject(c)
    PROVE  Typed'
<1> DEFINE w == phaseWorker[c]
           o == Content[w.phase][w.at]
           good == CleanedUp(PhasePaused(w.read, o), o)
<1>1. ObjsTyped /\ o \in Objects /\ queue \subseteq Keys
  BY PhaseWorkerIsAt DEF Typed, TypeOK, ObjsTyped, TeardownPhaseObject
<1>2. ObjsTyped'
  BY <1>1, DeleteTyped DEF TeardownPhaseObject
<1>3. good \in BOOLEAN
  BY DEF CleanedUp
<1>4. phaseWorker' = [phaseWorker EXCEPT ![c] = AfterPhaseObject(w, good)]
  BY DEF TeardownPhaseObject
<1>5. AfterPhaseObject(w, good) \in WorkerRecord(PhaseRecord)
      /\ Walking(AfterPhaseObject(w, good))
  BY <1>3, PhaseWorkerIsAt DEF TeardownPhaseObject, Moves
<1>6. /\ phaseWorker' \in [Classes -> WorkerRecord(PhaseRecord)]
      /\ \A d \in Classes : Walking(phaseWorker'[d])
  BY <1>4, <1>5, PhaseWorkerGoes
<1>7. queue' \subseteq Keys
  BY <1>1, WakeTyped DEF TeardownPhaseObject
<1> QED
  BY <1>2, <1>6, <1>7 DEF TeardownPhaseObject, Typed, TypeOK, Positions, ObjsTyped, Walking

LEMMA FinishPhaseTyped ==
    ASSUME NEW c \in Classes, Typed, FinishPhase(c)
    PROVE  Typed'
<1> DEFINE w == phaseWorker[c]
<1>1. w.read \in PhaseRecord /\ w.ok \in BOOLEAN /\ w.phase \in Phases \union {0}
  BY DEF Typed, TypeOK, WorkerRecord
<1>2. phases' \in [Phases -> PhaseRecord]
  <2>1. NoPhase \in PhaseRecord /\ PhaseReported(w.read, w.ok) \in PhaseRecord
    BY <1>1, PhaseUpdates, RecordsTyped
  <2> QED BY <2>1 DEF FinishPhase, Typed, TypeOK
<1>3. queue' \subseteq Keys /\ watching' \subseteq Keys \X Objects
  BY <1>1, ConstantsTyped DEF FinishPhase, Typed, TypeOK, ObjectSet
<1>4. Walking(PhaseIdle)
  BY RecordsTyped DEF Walking
<1>5. /\ phaseWorker' \in [Classes -> WorkerRecord(PhaseRecord)]
      /\ \A d \in Classes : Walking(phaseWorker'[d])
  BY <1>4, PhaseWorkerGoes, RecordsTyped DEF FinishPhase
<1> QED BY <1>2, <1>3, <1>5 DEF FinishPhase, Typed, TypeOK, Positions, Walking

-----------------------------------------------------------------------------
LEMMA FailTyped == Typed /\ Fail => Typed'
<1> SUFFICES ASSUME Typed, Fail PROVE Typed'
  OBVIOUS
<1>1. CASE setWorker' = SetIdle /\ queue' = queue \union {ObjectSet} /\ UNCHANGED phaseWorker
  BY <1>1, RecordsTyped, ConstantsTyped DEF Fail, Typed, TypeOK, Positions, Walking, apiVars
<1>2. ASSUME NEW c \in Classes,
             phaseWorker' = [phaseWorker EXCEPT ![c] = PhaseIdle],
             queue' = queue \union {phaseWorker[c].phase},
             UNCHANGED setWorker
      PROVE  Typed'
  <2>1. Walking(PhaseIdle) /\ PhaseIdle \in WorkerRecord(PhaseRecord)
    BY RecordsTyped DEF Walking
  <2>2. /\ phaseWorker' \in [Classes -> WorkerRecord(PhaseRecord)]
        /\ \A d \in Classes : Walking(phaseWorker'[d])
    BY <1>2, <2>1, PhaseWorkerGoes
  <2>3. phaseWorker[c].phase \in Keys
    BY ConstantsTyped DEF Typed, TypeOK, WorkerRecord, ObjectSet
  <2> QED BY <1>2, <2>2, <2>3 DEF Fail, Typed, TypeOK, Positions, Walking, apiVars
<1> QED BY <1>1, <1>2 DEF Fail

LEMMA RestartTyped == Typed /\ Restart => Typed'
BY RecordsTyped DEF Restart, Typed, TypeOK, Positions, Walking, apiVars

LEMMA CachesTyped ==
    /\ Typed /\ Resync => Typed'
    /\ \A p \in Phases : Typed /\ SyncPhase(p) => Typed'
BY ConstantsTyped DEF Resync, SyncPhase, Typed, TypeOK, Positions, Walking, apiVars

LEMMA CollectPhaseTyped == \A p \in Phases : Typed /\ CollectPhase(p) => Typed'
<1> SUFFICES ASSUME NEW p \in Phases, Typed, CollectPhase(p) PROVE Typed'
  OBVIOUS
<1>1. phases[p] \in PhaseRecord
  BY DEF Typed, TypeOK
<1>2. DeletePhase(phases[p]) \in PhaseRecord
  BY <1>1, PhaseUpdates
<1>3. phases' \in [Phases -> PhaseRecord]
  BY <1>2 DEF CollectPhase, Typed, TypeOK
<1> QED BY <1>3 DEF CollectPhase, Typed, TypeOK, Positions, Walking

(* Progress and drift end in ChangeObject.                                 *)
LEMMA ClusterChanges ==
    ASSUME TypeOK, NEW o \in Objects, Progress(o) \/ Drift(o)
    PROVE  \E obj \in ObjectRecord :
             /\ obj.exists \/ obj = Absent
             /\ obj.dying => objs[o].dying
             /\ ChangeObject(o, obj)
<1>1. objs[o] \in ObjectRecord /\ (objs[o].exists \/ objs[o] = Absent)
  BY DEF TypeOK
<1>2. \A r \in BOOLEAN, k \in {objs[o].controller, Nobody} :
        /\ [objs[o] EXCEPT !.ready = r, !.controller = k] \in ObjectRecord
        /\ [objs[o] EXCEPT !.ready = r, !.controller = k].exists = objs[o].exists
        /\ [objs[o] EXCEPT !.ready = r, !.controller = k].dying = objs[o].dying
  BY <1>1 DEF ObjectRecord
<1>3. CASE Disappear(o)
  BY <1>3, RecordsTyped DEF Disappear, Absent
<1>4. CASE BecomeReady(o) \/ Drift(o)
  <2>1. PICK r \in BOOLEAN : ChangeObject(o, [objs[o] EXCEPT !.ready = r])
    BY <1>4 DEF BecomeReady, Drift
  <2>2. [objs[o] EXCEPT !.ready = r]
          = [objs[o] EXCEPT !.ready = r, !.controller = objs[o].controller]
    BY <1>1 DEF ObjectRecord
  <2>3. objs[o].exists
    BY <1>1, <1>4 DEF BecomeReady, Drift, Absent
  <2> QED BY <1>2, <2>1, <2>2, <2>3
<1>5. CASE LetGo(o)
  <2>1. ChangeObject(o, [objs[o] EXCEPT !.controller = Nobody])
    BY <1>5 DEF LetGo
  <2>2. [objs[o] EXCEPT !.controller = Nobody]
          = [objs[o] EXCEPT !.ready = objs[o].ready, !.controller = Nobody]
        /\ objs[o].ready \in BOOLEAN
    BY <1>1 DEF ObjectRecord
  <2>3. objs[o].exists
    BY <1>1, <1>5 DEF LetGo, Absent, Nobody, Stranger
  <2> QED BY <1>2, <2>1, <2>2, <2>3
<1> QED BY <1>3, <1>4, <1>5 DEF Progress

LEMMA ClusterTyped == \A o \in Objects : Typed /\ (Progress(o) \/ Drift(o)) => Typed'
<1> SUFFICES ASSUME NEW o \in Objects, Typed, Progress(o) \/ Drift(o) PROVE Typed'
  OBVIOUS
<1>1. PICK obj \in ObjectRecord : (obj.exists \/ obj = Absent) /\ ChangeObject(o, obj)
  BY ClusterChanges DEF Typed
<1>2. ObjsTyped'
  BY <1>1, ObjectUpdates DEF ChangeObject, Typed, TypeOK, ObjsTyped
<1>3. queue' \subseteq Keys
  BY <1>1, WakeTyped DEF ChangeObject, Typed, TypeOK
<1> QED BY <1>1, <1>2, <1>3 DEF ChangeObject, Typed, TypeOK, Positions, ObjsTyped, Walking

(* What users and the ObjectDeployment controller make of the ObjectSet.   *)
LEMMA SetEdits ==
    ASSUME TypeOK, EditSet
    PROVE  /\ set.exists
           /\ \/ \E lifecycle \in {"Active", "Paused", "Archived"}, os \in SUBSET Objects :
                   /\ set.lifecycle = "Archived" => lifecycle = "Archived"
                   /\ set' = [SpecChanged(set) EXCEPT !.lifecycle = lifecycle,
                                                     !.pausedFor = os]
              \/ set.finalizer /\ set' = [SpecChanged(set) EXCEPT !.deleting = TRUE]
              \/ ~set.finalizer /\ set' = NoSet
<1>1. SUBSET Pausable \subseteq SUBSET Objects
  BY RemoteAssumption
<1> QED BY <1>1 DEF EditSet

LEMMA EditSetTyped == Typed /\ EditSet => Typed'
<1> SUFFICES ASSUME Typed, EditSet PROVE Typed'
  OBVIOUS
<1> DEFINE Edited(lifecycle, os) ==
             [SpecChanged(set) EXCEPT !.lifecycle = lifecycle, !.pausedFor = os]
<1>1. set' \in SetRecord
  <2>1. set \in SetRecord
    BY DEF Typed, TypeOK
  <2>2. \A lifecycle \in {"Active", "Paused", "Archived"}, os \in SUBSET Objects :
          Edited(lifecycle, os) \in SetRecord
    BY <2>1, SetUpdates
  <2>3. [SpecChanged(set) EXCEPT !.deleting = TRUE] \in SetRecord
    BY <2>1, SetUpdates
  <2>4. \/ \E lifecycle \in {"Active", "Paused", "Archived"}, os \in SUBSET Objects :
             set' = Edited(lifecycle, os)
        \/ set' = [SpecChanged(set) EXCEPT !.deleting = TRUE]
        \/ set' = NoSet
    BY SetEdits, Zenon DEF Typed
  <2> QED BY <2>2, <2>3, <2>4, RecordsTyped
<1>2. queue' \subseteq Keys
  BY ConstantsTyped DEF EditSet, Typed, TypeOK
<1>3. pauses' \subseteq SUBSET Objects
  <2>1. set'.pausedFor \in SUBSET Objects
    BY <1>1 DEF SetRecord
  <2>2. pauses' \in {pauses, pauses \union {set'.pausedFor}} /\ pauses \subseteq SUBSET Objects
    BY DEF EditSet, Typed, TypeOK
  <2> QED BY <2>1, <2>2
<1> QED BY <1>1, <1>2, <1>3 DEF EditSet, Typed, TypeOK, Positions, Walking

LEMMA StepTyped == Typed /\ [Next]_vars => Typed'
<1> SUFFICES ASSUME Typed, [Next]_vars PROVE Typed'
  OBVIOUS
<1>1. CASE SetStep
  BY <1>1, ReconcileLocalTyped, ReconcileRemoteTyped, TeardownLocalTyped,
     TeardownRemoteTyped, FinishSetTyped DEF SetStep
<1>2. ASSUME NEW c \in Classes, PhaseStep(c) PROVE Typed'
  BY <1>2, ReconcilePhaseObjectTyped, TeardownPhaseObjectTyped, FinishPhaseTyped DEF PhaseStep
<1>3. CASE UNCHANGED vars
  BY <1>3 DEF vars, Typed, TypeOK, Positions, Walking
<1> QED
  BY <1>1, <1>2, <1>3, BeginSetTyped, BeginPhaseTyped, FailTyped, RestartTyped,
     CachesTyped, CollectPhaseTyped, ClusterTyped, EditSetTyped DEF Next

(* Every reachable state of an ObjectSet, its phases and their controllers *)
(* is well typed, and a worker is always at an object of its phase.        *)
THEOREM RemoteTypeCorrect == Spec => []TypeOK
<1>1. Typed => TypeOK
  BY DEF Typed
<1> QED BY <1>1, InitTyped, StepTyped, PTL DEF Spec

-----------------------------------------------------------------------------
(* Once an ObjectSet is archived or deleted it stays so.                   *)
Retired == Doomed(set) \/ ~set.exists

(* Pauses a teardown may go by: spec.pausedFor has named them since the    *)
(* teardown was asked for.                                                 *)
Heeds(paused) == Doomed(set) /\ paused \in pauses

(* The finalizer keeps the ObjectSet for its worker, and one that tears it *)
(* down goes by pauses of the teardown, be they outdated.                  *)
SetWorkerKnows ==
    /\ set.exists /\ Doomed(set) => set.pausedFor \in pauses
    /\ setWorker.step # "idle" => set.exists /\ set.finalizer
    /\ setWorker.step = "teardown" => Heeds(setWorker.read.pausedFor)

(* An ObjectSetPhase to which no pauses have been passed on.               *)
Untold(p) ==
    /\ phases[p].pausedFor = {} /\ phases[p].statusPausedFor = {}
    /\ phasesSeen[p].exists => phasesSeen[p].statusPausedFor = {}

(* An ObjectSetPhase has no pauses until the teardown passes them on, and  *)
(* is deleted only when it has answered, so that pauses of the teardown    *)
(* have reached it.                                                        *)
PhaseKnows(p) ==
    set.exists =>
      /\ phases[p].exists => Untold(p) \/ Heeds(phases[p].pausedFor)
      /\ phases[p].deleting => Heeds(phases[p].pausedFor)
      /\ phasesSeen[p].deleting => Heeds(phasesSeen[p].pausedFor)

PhaseWorkerKnows(c) ==
    set.exists /\ phaseWorker[c].step = "teardown" => Heeds(phaseWorker[c].read.pausedFor)

PauseKnown ==
    /\ SetWorkerKnows
    /\ \A p \in Phases : PhaseKnows(p)
    /\ \A c \in Classes : PhaseWorkerKnows(c)

LEMMA InitPauseKnown == Init => PauseKnown
<1> SUFFICES ASSUME Init PROVE PauseKnown
  OBVIOUS
<1>1. ~Doomed(set)
  BY DEF Init, Doomed, NewSet
<1>2. setWorker.step = "idle" /\ \A c \in Classes : phaseWorker[c].step = "idle"
  BY RecordsTyped DEF Init
<1>3. \A p \in Phases : /\ ~phases[p].exists /\ ~phases[p].deleting
                        /\ ~phasesSeen[p].deleting
  BY DEF Init, NoPhase
<1> QED BY <1>1, <1>2, <1>3 DEF PauseKnown, SetWorkerKnows, PhaseKnows, PhaseWorkerKnows

(* What only moves the workers on, and the ObjectSet not at all, leaves    *)
(* them what they know.                                                    *)
LEMMA SetWorkerGoesOn ==
    ASSUME SetWorkerKnows, UNCHANGED <<set, pauses>>,
           \/ setWorker' = SetIdle
           \/ /\ setWorker.step # "idle"
              /\ setWorker'.read = setWorker.read
              /\ setWorker'.step \in {setWorker.step, "report"}
    PROVE  SetWorkerKnows'
BY RecordsTyped DEF SetWorkerKnows, Heeds, Doomed

LEMMA SetWorkerStands ==
    ASSUME UNCHANGED <<set, pauses, setWorker>>, SetWorkerKnows
    PROVE  SetWorkerKnows'
BY DEF SetWorkerKnows, Heeds, Doomed

LEMMA PhaseWorkersStay ==
    ASSUME UNCHANGED <<set, pauses, phaseWorker>>, \A c \in Classes : PhaseWorkerKnows(c)
    PROVE  \A c \in Classes : PhaseWorkerKnows(c)'
BY DEF PhaseWorkerKnows, Heeds, Doomed

LEMMA PhasesStay ==
    ASSUME UNCHANGED <<set, pauses, phases, phasesSeen>>, \A p \in Phases : PhaseKnows(p)
    PROVE  \A p \in Phases : PhaseKnows(p)'
BY DEF PhaseKnows, Untold, Heeds, Doomed

(* A change of one ObjectSetPhase that leaves its pauses alone, and what   *)
(* the cache shows.                                                        *)
LEMMA PhaseUpdateKnown ==
    ASSUME Typed, \A p \in Phases : PhaseKnows(p), UNCHANGED <<set, pauses, phasesSeen>>,
           NEW p \in Phases, NEW ph, phases' = [phases EXCEPT ![p] = ph],
           \/ ph = NoPhase
           \/ /\ ph.exists = phases[p].exists
              /\ ph.pausedFor = phases[p].pausedFor
              /\ ph.statusPausedFor \in {phases[p].pausedFor, phases[p].statusPausedFor}
              /\ ph.deleting => phases[p].deleting \/ Heeds(phases[p].pausedFor)
    PROVE  \A q \in Phases : PhaseKnows(q)'
<1> SUFFICES ASSUME NEW q \in Phases PROVE PhaseKnows(q)'
  OBVIOUS
<1>1. phases'[q] = IF q = p THEN ph ELSE phases[q]
  BY DEF Typed, TypeOK
<1>2. ~NoPhase.exists /\ ~NoPhase.deleting
  BY DEF NoPhase
<1>3. CASE q = p /\ ph = NoPhase
  BY <1>1, <1>2, <1>3 DEF PhaseKnows, Heeds, Doomed
<1>4. CASE q = p /\ ph # NoPhase
  BY <1>1, <1>4 DEF PhaseKnows, Untold, Heeds, Doomed
<1>5. CASE q # p
  BY <1>1, <1>5 DEF PhaseKnows, Untold, Heeds, Doomed
<1> QED BY <1>3, <1>4, <1>5

(* The ObjectSet changes, the rest does not: once retired it stays so, and *)
(* all its pauses since are remembered.                                    *)
RetiresOnly ==
    /\ pauses \subseteq pauses'
    /\ set'.exists => set.exists /\ (Doomed(set) => Doomed(set)')

LEMMA OthersKnowRetirement ==
    ASSUME RetiresOnly, UNCHANGED <<phases, phasesSeen, phaseWorker>>, PauseKnown
    PROVE  /\ \A p \in Phases : PhaseKnows(p)'
           /\ \A c \in Classes : PhaseWorkerKnows(c)'
<1>1. \A paused : set'.exists /\ Heeds(paused) => Heeds(paused)'
  BY DEF RetiresOnly, Heeds
<1> QED BY <1>1 DEF RetiresOnly, PauseKnown, PhaseKnows, PhaseWorkerKnows, Untold

LEMMA BeginSetKnown == Typed /\ PauseKnown /\ BeginSet => PauseKnown'
<1> SUFFICES ASSUME Typed, PauseKnown, BeginSet PROVE PauseKnown'
  OBVIOUS
<1> DEFINE s == [set EXCEPT !.finalizer = TRUE]
           From(step) == [SetIdle EXCEPT !.step = step, !.read = s]
<1>1. /\ s.finalizer /\ s.exists = set.exists /\ s.pausedFor = set.pausedFor
      /\ Doomed(s) <=> Doomed(set)
  BY DEF Typed, TypeOK, SetRecord, Doomed
<1>2. CASE UNCHANGED <<set, setWorker>>
  BY <1>2, SetWorkerStands, PhaseWorkersStay, PhasesStay DEF BeginSet, PauseKnown
<1>3. CASE /\ set.exists /\ set' = s
           /\ IF Doomed(s)
                THEN setWorker' = EnterPhase(From("teardown"), Len(Content))
                ELSE setWorker' = EnterPhase(From("reconcile"), 1)
  <2>1. RetiresOnly
    BY <1>1, <1>3 DEF RetiresOnly, BeginSet
  <2>2. \A step \in Steps, p \in {1, Len(Content)} :
          /\ EnterPhase(From(step), p).read = s
          /\ EnterPhase(From(step), p).step \in {step, "report"}
    <3> TAKE step \in Steps, p \in {1, Len(Content)}
    <3>1. s \in SetRecord
      BY SetUpdates DEF Typed, TypeOK
    <3>2. From(step) \in WorkerRecord(SetRecord) /\ From(step).read = s /\ From(step).step = step
      BY <3>1, RecordsTyped DEF WorkerRecord
    <3>3. p \in Int
      BY ConstantsTyped
    <3> QED BY <3>2, <3>3, EnterMoves DEF Moves
  <2>3. SetWorkerKnows'
    <3>1. /\ set'.exists /\ set'.finalizer /\ set'.pausedFor = set.pausedFor
          /\ Doomed(set)' <=> Doomed(set)
          /\ UNCHANGED pauses
      BY <1>1, <1>3 DEF BeginSet
    <3>2. Doomed(set) => set.pausedFor \in pauses
      BY <1>3 DEF PauseKnown, SetWorkerKnows
    <3>3. setWorker'.step = "teardown" => Doomed(set) /\ setWorker'.read.pausedFor = set.pausedFor
      <4>1. "teardown" \in Steps /\ "reconcile" \in Steps
        BY DEF Steps
      <4> HIDE DEF From, s
      <4> QED BY <1>1, <1>3, <2>2, <4>1
    <3> QED BY <3>1, <3>2, <3>3 DEF SetWorkerKnows, Heeds
  <2> QED BY <2>1, <2>3, OthersKnowRetirement DEF BeginSet, PauseKnown
<1> QED BY <1>2, <1>3 DEF BeginSet

(* Wherever a worker goes, it keeps its copy and what it is about.         *)
Keeps(w, next) ==
    /\ next.read = w.read /\ next.overlooked = w.overlooked
    /\ next.step \in {w.step, "report"}

LEMMA MovesKeep ==
    ASSUME NEW Copies, NEW w \in WorkerRecord(Copies), NEW good
    PROVE  /\ Keeps(w, AfterSetPhase(w, good))
           /\ Keeps(w, AfterSetObject(w, good))
           /\ Keeps(w, AfterPhaseObject(w, good))
<1>1. \A p : Keeps(w, EnterPhase(w, p))
  BY DEF Keeps, EnterPhase, Stop, WorkerRecord
<1>2. \A ok : Keeps(w, AfterSetPhase(w, ok))
  BY <1>1 DEF AfterSetPhase, Keeps, Stop, WorkerRecord
<1>3. /\ Keeps(w, [w EXCEPT !.at = @ + 1, !.ok = @ /\ good])
      /\ Keeps(w, [w EXCEPT !.step = "report", !.ok = @ /\ good])
  BY DEF Keeps, WorkerRecord
<1> QED BY <1>2, <1>3 DEF AfterSetObject, AfterPhaseObject

LEMMA LocalStepKnown ==
    ASSUME Typed, PauseKnown, ReconcileLocal \/ TeardownLocal
    PROVE  PauseKnown'
<1>1. setWorker \in WorkerRecord(SetRecord)
  BY DEF Typed, TypeOK
<1>2. setWorker.step # "idle" /\ (setWorker' = SetIdle \/ Keeps(setWorker, setWorker'))
  BY <1>1, MovesKeep DEF ReconcileLocal, TeardownLocal
<1>3. UNCHANGED <<set, pauses, phases, phasesSeen, phaseWorker>>
  BY DEF ReconcileLocal, TeardownLocal
<1> QED
  BY <1>2, <1>3, SetWorkerGoesOn, PhasesStay, PhaseWorkersStay DEF PauseKnown, Keeps

(* An ObjectSetPhase is created only where the cache shows none.           *)
LEMMA ReconcileRemoteKnown == Typed /\ PauseKnown /\ ReconcileRemote => PauseKnown'
<1> SUFFICES ASSUME Typed, PauseKnown, ReconcileRemote PROVE PauseKnown'
  OBVIOUS
<1>1. setWorker \in WorkerRecord(SetRecord)
  BY DEF Typed, TypeOK
<1>2. setWorker.step # "idle" /\ (setWorker' = SetIdle \/ Keeps(setWorker, setWorker'))
  <2>1. \/ setWorker' = SetIdle
        \/ \E ok : setWorker' = AfterSetPhase(setWorker, ok)
    BY DEF ReconcileRemote
  <2>2. \A ok : Keeps(setWorker, AfterSetPhase(setWorker, ok))
    BY <1>1, MovesKeep
  <2> QED BY <2>1, <2>2 DEF ReconcileRemote
<1>3. UNCHANGED <<set, pauses, phasesSeen, phaseWorker>>
  BY DEF ReconcileRemote
<1>4. ASSUME NEW p \in Phases PROVE PhaseKnows(p)'
  <2>1. CASE phases'[p] = phases[p]
    BY <1>3, <2>1 DEF PauseKnown, PhaseKnows, Untold, Heeds, Doomed
  <2>2. CASE phases'[p] = NewPhase /\ ~phasesSeen[p].exists
    <3>1. /\ ~NewPhase.deleting
          /\ NewPhase.pausedFor = {} /\ NewPhase.statusPausedFor = {}
      BY DEF NewPhase, NoPhase
    <3> QED BY <1>3, <2>2, <3>1 DEF PauseKnown, PhaseKnows, Untold, Heeds, Doomed
  <2>3. \/ phases' = phases
        \/ /\ phases' = [phases EXCEPT ![setWorker.phase] = NewPhase]
           /\ ~phasesSeen[setWorker.phase].exists
    BY DEF ReconcileRemote
  <2> QED BY <2>1, <2>2, <2>3 DEF Typed, TypeOK
<1> QED
  BY <1>2, <1>3, <1>4, SetWorkerGoesOn, PhaseWorkersStay DEF PauseKnown, Keeps

(* The teardown passes the pauses on, and deletes once they are answered.  *)
LEMMA TeardownRemoteKnown == Typed /\ PauseKnown /\ TeardownRemote => PauseKnown'
<1> SUFFICES ASSUME Typed, PauseKnown, TeardownRemote PROVE PauseKnown'
  OBVIOUS
<1> DEFINE p == setWorker.phase
           s == setWorker.read
           seen == phasesSeen[p]
<1>1. setWorker \in WorkerRecord(SetRecord) /\ p \in Phases
      /\ phases[p] \in PhaseRecord /\ seen \in PhaseRecord
  BY SetWorkerIsAt DEF TeardownRemote, Typed, TypeOK
<1>2. /\ setWorker.step # "idle"
      /\ \/ setWorker' = SetIdle
         \/ /\ setWorker'.read = setWorker.read
            /\ setWorker'.step \in {setWorker.step, "report"}
  <2>1. \/ setWorker' = SetIdle
        \/ \E ok : setWorker' = AfterSetPhase(setWorker, ok)
        \/ setWorker' = AfterSetPhase(Overlooks(p), TRUE)
    BY DEF TeardownRemote
  <2>2. \A ok : Keeps(setWorker, AfterSetPhase(setWorker, ok))
    BY <1>1, MovesKeep
  <2>3. Keeps(Overlooks(p), AfterSetPhase(Overlooks(p), TRUE))
    BY <1>1, OverlooksTyped, MovesKeep
  <2>4. Overlooks(p).read = setWorker.read /\ Overlooks(p).step = setWorker.step
    BY <1>1, OverlooksTyped
  <2>5. setWorker.step # "idle"
    BY DEF TeardownRemote
  <2> QED BY <2>1, <2>2, <2>3, <2>4, <2>5 DEF Keeps
<1>3. UNCHANGED <<set, pauses, phasesSeen, phaseWorker>>
  BY DEF TeardownRemote
<1>4. set.exists /\ Heeds(s.pausedFor)
  BY DEF TeardownRemote, PauseKnown, SetWorkerKnows
<1>5. \A q \in Phases : PhaseKnows(q)'
  <2>1. CASE phases' = phases
    BY <1>3, <2>1, PhasesStay DEF PauseKnown
  <2>2. CASE phases' = [phases EXCEPT ![p] =
                          [SpecChanged(phases[p]) EXCEPT !.pausedFor = s.pausedFor]]
    <3> DEFINE ph == [SpecChanged(phases[p]) EXCEPT !.pausedFor = s.pausedFor]
    <3>1. ph.deleting = phases[p].deleting /\ ph.pausedFor = s.pausedFor
      BY <1>1 DEF SpecChanged, PhaseRecord
    <3>2. \A q \in Phases : phases'[q] = IF q = p THEN ph ELSE phases[q]
      BY <2>2 DEF Typed, TypeOK
    <3>3. PICK paused : paused = s.pausedFor
      OBVIOUS
    <3>4. Heeds(paused)'
      BY <1>3, <1>4, <3>3 DEF Heeds, Doomed
    <3> HIDE DEF ph
    <3> SUFFICES ASSUME NEW q \in Phases PROVE PhaseKnows(q)'
      OBVIOUS
    <3>5. CASE q = p
      BY <1>3, <3>1, <3>2, <3>3, <3>4, <3>5 DEF PauseKnown, PhaseKnows, Heeds, Doomed
    <3>6. CASE q # p
      BY <1>3, <3>2, <3>6 DEF PauseKnown, PhaseKnows, Untold, Heeds, Doomed
    <3> QED BY <3>5, <3>6
  <2>3. CASE /\ seen.exists /\ PauseForwarded(seen, s) /\ phases[p].exists
             /\ phases' = [phases EXCEPT ![p] = DeletePhase(phases[p])]
    <3> DEFINE ph == DeletePhase(phases[p])
    <3>1. Heeds(phases[p].pausedFor)
      <4>1. Untold(p) \/ Heeds(phases[p].pausedFor)
        BY <1>1, <1>4, <2>3 DEF PauseKnown, PhaseKnows
      <4>2. CASE Untold(p)
        BY <1>4, <2>3, <4>2 DEF PauseForwarded, Untold
      <4> QED BY <4>1, <4>2
    <3>2. \/ ph = NoPhase
          \/ /\ ph.exists = phases[p].exists
             /\ ph.pausedFor = phases[p].pausedFor
             /\ ph.statusPausedFor = phases[p].statusPausedFor
      BY <1>1 DEF DeletePhase, SpecChanged, PhaseRecord
    <3> QED BY <1>1, <1>3, <2>3, <3>1, <3>2, PhaseUpdateKnown DEF PauseKnown
  <2>4. \/ phases' = phases
        \/ phases' = [phases EXCEPT ![p] =
                        [SpecChanged(phases[p]) EXCEPT !.pausedFor = s.pausedFor]]
        \/ /\ seen.exists /\ PauseForwarded(seen, s) /\ phases[p].exists
           /\ phases' = [phases EXCEPT ![p] = DeletePhase(phases[p])]
    BY <1>1 DEF TeardownRemote, Typed, TypeOK
  <2> QED BY <2>1, <2>2, <2>3, <2>4
<1> QED
  BY <1>2, <1>3, <1>5, SetWorkerGoesOn, PhaseWorkersStay DEF PauseKnown

LEMMA FinishSetKnown == Typed /\ PauseKnown /\ FinishSet => PauseKnown'
<1> SUFFICES ASSUME Typed, PauseKnown, FinishSet PROVE PauseKnown'
  OBVIOUS
<1> DEFINE s == setWorker.read
<1>1. set.exists /\ set.finalizer /\ set \in SetRecord
  BY DEF FinishSet, PauseKnown, SetWorkerKnows, Typed, TypeOK
<1>2. \/ set' = set
      \/ set' = NoSet /\ set.deleting
      \/ \E ok : set' = Reported(set, ok)
  BY DEF FinishSet
<1>3. ASSUME NEW ok
      PROVE  LET r == Reported(set, ok)
             IN  /\ r.exists = set.exists /\ r.deleting = set.deleting
                 /\ r.lifecycle = set.lifecycle /\ r.pausedFor = set.pausedFor
  BY <1>1 DEF Reported, SetRecord
<1>4. ~NoSet.exists
  BY DEF NoSet, NewSet
<1>5. /\ RetiresOnly /\ UNCHANGED pauses
      /\ set'.exists => set'.pausedFor = set.pausedFor /\ (Doomed(set)' <=> Doomed(set))
  BY <1>1, <1>2, <1>3, <1>4 DEF FinishSet, RetiresOnly, Doomed
<1>6. SetWorkerKnows'
  BY <1>1, <1>5, RecordsTyped DEF FinishSet, PauseKnown, SetWorkerKnows
<1> QED BY <1>5, <1>6, OthersKnowRetirement DEF FinishSet, PauseKnown

-----------------------------------------------------------------------------
(* A step of the worker of class c: it begins to tear down only what its   *)
(* cache shows as deleted.                                                 *)
LEMMA PhaseWorkerGoesOn ==
    ASSUME Typed, NEW c \in Classes, NEW w,
           \A d \in Classes : PhaseWorkerKnows(d), UNCHANGED <<set, pauses>>,
           phaseWorker' = [phaseWorker EXCEPT ![c] = w],
           w.step = "teardown" =>
             \/ set.exists => Heeds(w.read.pausedFor)
             \/ phaseWorker[c].step = "teardown" /\ w.read = phaseWorker[c].read
    PROVE  \A d \in Classes : PhaseWorkerKnows(d)'
<1> SUFFICES ASSUME NEW d \in Classes PROVE PhaseWorkerKnows(d)'
  OBVIOUS
<1>1. phaseWorker'[d] = IF d = c THEN w ELSE phaseWorker[d]
  BY DEF Typed, TypeOK
<1> QED BY <1>1 DEF PhaseWorkerKnows, Heeds, Doomed

LEMMA BeginPhaseKnown ==
    ASSUME NEW c \in Classes, NEW p \in Phases, Typed, PauseKnown, BeginPhase(c, p)
    PROVE  PauseKnown'
<1> DEFINE seen == phasesSeen[p]
           ph == [seen EXCEPT !.finalizer = TRUE]
           From(step, copy) ==
             [PhaseIdle EXCEPT !.step = step, !.phase = p, !.at = 1, !.read = copy]
<1>1. seen \in PhaseRecord
  BY DEF Typed, TypeOK
<1>2. UNCHANGED <<set, pauses, setWorker, phasesSeen>>
  BY DEF BeginPhase
<1>3. \A d \in Classes : PhaseWorkerKnows(d)'
  <2>1. \A step, copy : From(step, copy).step = step /\ From(step, copy).read = copy
    BY RecordsTyped DEF WorkerRecord
  <2>2. CASE phaseWorker' = phaseWorker
    BY <1>2, <2>2, PhaseWorkersStay DEF PauseKnown
  <2>3. CASE /\ seen.deleting
             /\ phaseWorker' = [phaseWorker EXCEPT ![c] = From("teardown", seen)]
    <3> DEFINE w == From("teardown", seen)
    <3>1. w.read = seen /\ phaseWorker' = [phaseWorker EXCEPT ![c] = w]
      BY <2>1, <2>3
    <3>2. set.exists => Heeds(seen.pausedFor)
      BY <2>3 DEF PauseKnown, PhaseKnows
    <3> HIDE DEF w
    <3> QED BY <1>2, <3>1, <3>2, PhaseWorkerGoesOn DEF PauseKnown
  <2>4. CASE phaseWorker' = [phaseWorker EXCEPT ![c] = From("reconcile", ph)]
    <3> DEFINE w == From("reconcile", ph)
    <3>1. w.step # "teardown" /\ phaseWorker' = [phaseWorker EXCEPT ![c] = w]
      BY <2>1, <2>4
    <3> HIDE DEF w
    <3> QED BY <1>2, <3>1, PhaseWorkerGoesOn DEF PauseKnown
  <2> QED BY <2>2, <2>3, <2>4 DEF BeginPhase
<1>4. \A q \in Phases : PhaseKnows(q)'
  <2>1. CASE phases' = phases
    BY <1>2, <2>1, PhasesStay DEF PauseKnown
  <2>2. CASE seen = phases[p] /\ phases' = [phases EXCEPT ![p] = ph]
    <3>1. /\ ph.exists = seen.exists /\ ph.deleting = seen.deleting
          /\ ph.pausedFor = seen.pausedFor /\ ph.statusPausedFor = seen.statusPausedFor
      BY <1>1 DEF PhaseRecord
    <3>2. UNCHANGED <<set, pauses, phasesSeen>> /\ \A q \in Phases : PhaseKnows(q)
      BY <1>2 DEF PauseKnown
    <3> HIDE DEF ph
    <3> QED BY <2>2, <3>1, <3>2, PhaseUpdateKnown
  <2> QED BY <2>1, <2>2 DEF BeginPhase
<1> QED BY <1>2, <1>3, <1>4, SetWorkerStands DEF PauseKnown

LEMMA PhaseObjectKnown ==
    ASSUME NEW c \in Classes, Typed, PauseKnown,
           ReconcilePhaseObject(c) \/ TeardownPhaseObject(c)
    PROVE  PauseKnown'
<1> DEFINE w == phaseWorker[c]
<1>1. UNCHANGED <<set, pauses, phases, phasesSeen, setWorker>>
  BY DEF ReconcilePhaseObject, TeardownPhaseObject
<1>2. \/ phaseWorker' = [phaseWorker EXCEPT ![c] = PhaseIdle]
      \/ \E good : phaseWorker' = [phaseWorker EXCEPT ![c] = AfterPhaseObject(w, good)]
  BY DEF ReconcilePhaseObject, TeardownPhaseObject
<1>3. \A good : Keeps(w, AfterPhaseObject(w, good))
  BY MovesKeep DEF Typed, TypeOK
<1>4. \A d \in Classes : PhaseWorkerKnows(d)'
  BY <1>1, <1>2, <1>3, PhaseWorkerGoesOn, RecordsTyped DEF PauseKnown, Keeps
<1> QED BY <1>1, <1>4, PhasesStay, SetWorkerStands DEF PauseKnown

LEMMA FinishPhaseKnown ==
    ASSUME NEW c \in Classes, Typed, PauseKnown, FinishPhase(c)
    PROVE  PauseKnown'
<1> DEFINE w == phaseWorker[c]
           p == w.phase
           ph == IF w.read.deleting THEN NoPhase ELSE PhaseReported(w.read, w.ok)
<1>1. UNCHANGED <<set, pauses, phasesSeen, setWorker>>
  BY DEF FinishPhase
<1>2. \A d \in Classes : PhaseWorkerKnows(d)'
  BY <1>1, PhaseWorkerGoesOn, RecordsTyped DEF FinishPhase, PauseKnown
<1>3. \A q \in Phases : PhaseKnows(q)'
  <2>1. CASE phases' = phases
    BY <1>1, <2>1, PhasesStay DEF PauseKnown
  <2>2. CASE p \in Phases /\ phases[p] = w.read /\ phases' = [phases EXCEPT ![p] = ph]
    <3>1. w.read \in PhaseRecord
      BY DEF Typed, TypeOK, WorkerRecord
    <3>2. LET r == PhaseReported(w.read, w.ok)
          IN  /\ r.exists = w.read.exists /\ r.deleting = w.read.deleting
              /\ r.pausedFor = w.read.pausedFor /\ r.statusPausedFor = w.read.pausedFor
      BY <3>1 DEF PhaseReported, PhaseRecord
    <3> QED BY <1>1, <2>2, <3>2, PhaseUpdateKnown DEF PauseKnown
  <2>3. CASE p \notin Phases
    <3>1. phases' = phases \/ phases' = [phases EXCEPT ![p] = ph]
      BY DEF FinishPhase
    <3> QED BY <2>1, <2>3, <3>1 DEF Typed, TypeOK
  <2> QED BY <2>1, <2>2, <2>3 DEF FinishPhase
<1> QED BY <1>1, <1>2, <1>3, SetWorkerStands DEF PauseKnown

LEMMA FailKnown == Typed /\ PauseKnown /\ Fail => PauseKnown'
<1> SUFFICES ASSUME Typed, PauseKnown, Fail PROVE PauseKnown'
  OBVIOUS
<1>1. UNCHANGED <<set, pauses, phases, phasesSeen>>
  BY DEF Fail, apiVars
<1>2. CASE setWorker' = SetIdle /\ UNCHANGED phaseWorker
  BY <1>1, <1>2, SetWorkerGoesOn, PhasesStay, PhaseWorkersStay DEF PauseKnown
<1>3. ASSUME NEW c \in Classes, UNCHANGED setWorker,
             phaseWorker' = [phaseWorker EXCEPT ![c] = PhaseIdle]
      PROVE  PauseKnown'
  <2>1. \A d \in Classes : PhaseWorkerKnows(d)'
    BY <1>1, <1>3, PhaseWorkerGoesOn, RecordsTyped DEF PauseKnown
  <2> QED BY <1>1, <1>3, <2>1, PhasesStay, SetWorkerStands DEF PauseKnown
<1> QED BY <1>2, <1>3 DEF Fail

(* What the cache shows anew is what is there.                             *)
LEMMA CachesKnown ==
    ASSUME Typed, PauseKnown, Resync \/ Restart \/ \E p \in Phases : SyncPhase(p)
    PROVE  PauseKnown'
<1>1. UNCHANGED <<set, pauses, phases>>
      /\ \A p \in Phases : phasesSeen'[p] \in {phasesSeen[p], phases[p]}
  BY DEF Resync, Restart, SyncPhase, apiVars, Typed, TypeOK
<1>2. \/ UNCHANGED <<setWorker, phaseWorker>>
      \/ setWorker' = SetIdle /\ phaseWorker' = [c \in Classes |-> PhaseIdle]
  BY DEF Resync, Restart, SyncPhase, apiVars
<1>3. ASSUME NEW p \in Phases PROVE PhaseKnows(p)'
  BY <1>1 DEF PauseKnown, PhaseKnows, Untold, Heeds, Doomed
<1>4. SetWorkerKnows'
  BY <1>1, <1>2, RecordsTyped DEF PauseKnown, SetWorkerKnows, Heeds, Doomed
<1>5. \A c \in Classes : PhaseWorkerKnows(c)'
  BY <1>1, <1>2, RecordsTyped DEF PauseKnown, PhaseWorkerKnows, Heeds, Doomed
<1> QED BY <1>3, <1>4, <1>5 DEF PauseKnown

(* What the garbage collector does comes after the ObjectSet.              *)
LEMMA CollectPhaseKnown ==
    ASSUME Typed, PauseKnown, NEW p \in Phases, CollectPhase(p)
    PROVE  PauseKnown'
<1>1. UNCHANGED <<set, pauses, setWorker, phaseWorker>> /\ ~set'.exists
  BY DEF CollectPhase
<1>2. \A q \in Phases : PhaseKnows(q)'
  BY <1>1 DEF PhaseKnows
<1> QED BY <1>1, <1>2, SetWorkerStands, PhaseWorkersStay DEF PauseKnown

LEMMA ClusterKnown ==
    ASSUME Typed, PauseKnown, NEW o \in Objects, Progress(o) \/ Drift(o)
    PROVE  PauseKnown'
<1>1. UNCHANGED <<set, pauses, phases, phasesSeen, setWorker, phaseWorker>>
  BY ClusterChanges DEF Typed, ChangeObject
<1> QED BY <1>1, PhasesStay, PhaseWorkersStay, SetWorkerStands DEF PauseKnown

(* Whatever users change of an ObjectSet that is torn down is remembered,  *)
(* and without a finalizer no worker has it.                               *)
LEMMA EditSetKnown == Typed /\ PauseKnown /\ EditSet => PauseKnown'
<1> SUFFICES ASSUME Typed, PauseKnown, EditSet PROVE PauseKnown'
  OBVIOUS
<1>1. set \in SetRecord /\ set.exists
  BY DEF Typed, TypeOK, EditSet
<1>2. /\ pauses' = IF Doomed(set)' THEN pauses \union {set'.pausedFor} ELSE pauses
      /\ UNCHANGED <<phases, phasesSeen, setWorker, phaseWorker>>
  BY DEF EditSet, Doomed
<1>3. \/ set' = NoSet /\ ~set.finalizer
      \/ /\ set'.exists /\ set'.finalizer = set.finalizer
         /\ Doomed(set) => Doomed(set)'
  <2>1. CASE set' = [SpecChanged(set) EXCEPT !.deleting = TRUE]
    BY <1>1, <2>1 DEF SpecChanged, SetRecord, Doomed
  <2>2. ASSUME NEW lifecycle \in {"Active", "Paused", "Archived"}, NEW os \in SUBSET Objects,
               set.lifecycle = "Archived" => lifecycle = "Archived",
               set' = [SpecChanged(set) EXCEPT !.lifecycle = lifecycle, !.pausedFor = os]
        PROVE  /\ set'.exists /\ set'.finalizer = set.finalizer
               /\ Doomed(set) => Doomed(set)'
    BY <1>1, <2>2 DEF SpecChanged, SetRecord, Doomed
  <2> QED BY <2>1, <2>2, SetEdits DEF Typed
<1>4. ~NoSet.exists
  BY DEF NoSet, NewSet
<1>5. RetiresOnly
  BY <1>1, <1>2, <1>3, <1>4 DEF RetiresOnly
<1>6. SetWorkerKnows'
  <2>1. setWorker.step # "idle" => set.finalizer
    BY DEF PauseKnown, SetWorkerKnows
  <2>2. setWorker.step = "teardown" => Heeds(setWorker.read.pausedFor)
    BY DEF PauseKnown, SetWorkerKnows
  <2>3. \A paused : set'.exists /\ Heeds(paused) => Heeds(paused)'
    BY <1>5 DEF RetiresOnly, Heeds
  <2> QED BY <1>2, <1>3, <1>4, <2>1, <2>2, <2>3 DEF SetWorkerKnows
<1> QED BY <1>2, <1>5, <1>6, OthersKnowRetirement DEF PauseKnown

LEMMA StepPauseKnown == Typed /\ PauseKnown /\ [Next]_vars => PauseKnown'
<1> SUFFICES ASSUME Typed, PauseKnown, [Next]_vars PROVE PauseKnown'
  OBVIOUS
<1>1. CASE SetStep
  BY <1>1, LocalStepKnown, ReconcileRemoteKnown, TeardownRemoteKnown, FinishSetKnown DEF SetStep
<1>2. ASSUME NEW c \in Classes, PhaseStep(c) PROVE PauseKnown'
  BY <1>2, PhaseObjectKnown, FinishPhaseKnown DEF PhaseStep
<1>3. CASE UNCHANGED vars
  BY <1>3, PhasesStay, PhaseWorkersStay, SetWorkerStands DEF vars, PauseKnown
<1> QED
  BY <1>1, <1>2, <1>3, BeginSetKnown, BeginPhaseKnown, FailKnown, CachesKnown,
     CollectPhaseKnown, ClusterKnown, EditSetKnown DEF Next

-----------------------------------------------------------------------------
(* The two kinds of deletion go by pauses of the teardown, nothing else    *)
(* deletes.                                                                *)
SparingStep ==
    \A o \in Objects :
      set.exists /\ objs'[o].dying /\ ~objs[o].dying => \E P \in pauses : o \notin P

LEMMA DeleteSpares ==
    ASSUME Typed, NEW o \in Objects, NEW paused, DeleteObject(paused, o),
           set.exists /\ ~paused => \E P \in pauses : o \notin P
    PROVE  SparingStep
BY DEF DeleteObject, SparingStep, Typed, TypeOK

LEMMA UpdateSpares ==
    ASSUME Typed, NEW o \in Objects, NEW obj, obj.dying => objs[o].dying,
           objs' = [objs EXCEPT ![o] = obj]
    PROVE  SparingStep
BY DEF SparingStep, Typed, TypeOK

LEMMA AppliedSpares ==
    ASSUME Typed, NEW o \in Objects, NEW uid
    PROVE  Applied(uid, o).dying => objs[o].dying
BY DEF Applied, Absent, Typed, TypeOK, ObjectRecord

LEMMA StepSpares == Typed /\ PauseKnown /\ [Next]_vars => SparingStep
<1> SUFFICES ASSUME Typed, PauseKnown, [Next]_vars PROVE SparingStep
  OBVIOUS
<1>1. CASE UNCHANGED objs
  BY <1>1 DEF SparingStep
<1>2. CASE ReconcileLocal
  BY <1>1, <1>2, SetWorkerIsAt, AppliedSpares, UpdateSpares DEF ReconcileLocal
<1>3. CASE TeardownLocal
  <2>1. SetObject \in Objects
    BY <1>3, SetWorkerIsAt DEF TeardownLocal
  <2>2. ~SetPaused(setWorker.read, SetObject) => \E P \in pauses : SetObject \notin P
    BY <1>3 DEF TeardownLocal, SetPaused, PauseKnown, SetWorkerKnows, Heeds
  <2> QED BY <1>3, <2>1, <2>2, DeleteSpares DEF TeardownLocal
<1>4. ASSUME NEW c \in Classes, ReconcilePhaseObject(c) PROVE SparingStep
  BY <1>1, <1>4, PhaseWorkerIsAt, AppliedSpares, UpdateSpares DEF ReconcilePhaseObject
<1>5. ASSUME NEW c \in Classes, TeardownPhaseObject(c) PROVE SparingStep
  <2> DEFINE w == phaseWorker[c]
             o == Content[w.phase][w.at]
  <2>1. o \in Objects
    BY <1>5, PhaseWorkerIsAt DEF TeardownPhaseObject
  <2>2. set.exists /\ ~PhasePaused(w.read, o) => \E P \in pauses : o \notin P
    BY <1>5 DEF TeardownPhaseObject, PhasePaused, PauseKnown, PhaseWorkerKnows, Heeds
  <2> QED BY <1>5, <2>1, <2>2, DeleteSpares DEF TeardownPhaseObject
<1>6. ASSUME NEW o \in Objects, Progress(o) \/ Drift(o) PROVE SparingStep
  <2>1. PICK obj \in ObjectRecord : (obj.dying => objs[o].dying) /\ ChangeObject(o, obj)
    BY <1>6, ClusterChanges DEF Typed
  <2> QED BY <2>1, UpdateSpares DEF ChangeObject
<1>7. \/ UNCHANGED objs
      \/ ReconcileLocal \/ TeardownLocal
      \/ \E c \in Classes : ReconcilePhaseObject(c) \/ TeardownPhaseObject(c)
      \/ \E o \in Objects : Progress(o) \/ Drift(o)
  BY DEF Next, vars, apiVars, SetStep, PhaseStep, BeginSet, ReconcileRemote, TeardownRemote,
         FinishSet, BeginPhase, FinishPhase, Fail, Restart, Resync, SyncPhase, CollectPhase,
         EditSet
<1> QED BY <1>1, <1>2, <1>3, <1>4, <1>5, <1>6, <1>7

(* While the ObjectSet is there, no object is deleted that its             *)
(* spec.pausedFor has named ever since the teardown was asked for, by the  *)
(* ObjectSet controller or by those of its ObjectSetPhases, however far    *)
(* the caches are behind, whatever fails and whatever else the pauses      *)
(* named meanwhile: teardownRemotePhase waits for the answer of the phase  *)
(* before it deletes it.                                                   *)
THEOREM PausedAlwaysSpared == Spec => PausedAreSpared
<1>1. Init => Typed /\ PauseKnown
  BY InitTyped, InitPauseKnown
<1>2. Typed /\ PauseKnown /\ [Next]_vars => (Typed /\ PauseKnown)'
  BY StepTyped, StepPauseKnown
<1>3. Typed /\ PauseKnown /\ [Next]_vars =>
        [\A o \in Objects :
           set.exists /\ objs'[o].dying /\ ~objs[o].dying =>
             \E P \in pauses : o \notin P]_vars
  BY StepSpares DEF SparingStep
<1> QED BY <1>1, <1>2, <1>3, PTL DEF Spec, PausedAreSpared

-----------------------------------------------------------------------------
(* The teardown.                                                           *)

(* Which objects of phase p are left, but for those of paused.             *)
CleanBut(p, paused) ==
    \A i \in 1 .. Len(Content[p]) : Ours(Content[p][i]) => Content[p][i] \in paused

(* Nothing is managed but the content, and only a phase with a class is    *)
(* delegated.                                                              *)
Places ==
    /\ \A o \in Objects : Ours(o) =>
         \E p \in Phases : \E i \in 1 .. Len(Content[p]) : o = Content[p][i]
    /\ \A p \in Phases : phases[p].exists => class[p] # Local

(* A cached ObjectSetPhase that would be reconciled is there; one that is  *)
(* being deleted is not in the hands of a rollout.                         *)
CopyHolds(p) ==
    /\ phasesSeen[p].exists /\ phasesSeen[p].finalizer /\ ~phasesSeen[p].deleting =>
         phases[p].exists /\ phases[p].finalizer
    /\ phases[p].deleting \/ phasesSeen[p].deleting => setWorker.step # "reconcile"
    /\ phasesSeen[p].deleting /\ phases[p].exists => phases[p].deleting

(* The objects that a teardown has passed are gone, as long as it is ok.   *)
Passed(w) ==
    w.ok => \A i \in 1 .. Len(Content[w.phase]) :
              (w.step = "report" \/ i < w.at) /\ Ours(Content[w.phase][i]) =>
                Content[w.phase][i] \in w.read.pausedFor

(* A phase that is reconciled stays until its worker is done; one that is  *)
(* torn down never comes back while it is.                                 *)
PhaseWorkerHolds(c) ==
    LET w == phaseWorker[c]
        p == w.phase
    IN  w.step # "idle" =>
          /\ p \in Phases /\ class[p] = c
          /\ w.step = "reconcile" => ~w.read.deleting
          /\ w.step = "teardown" => w.read.deleting
          /\ ~w.read.deleting => phases[p].exists /\ phases[p].finalizer
          /\ w.read.deleting =>
               /\ Retired /\ setWorker.step # "reconcile"
               /\ phasesSeen[p].exists => phasesSeen[p].deleting
               /\ phases[p].exists => phases[p].deleting
               /\ Passed(w)

(* An ObjectSetPhase without finalizer has no objects yet, and one that is *)
(* gone has left none but those that are paused.                           *)
Settled == Retired /\ setWorker.step # "reconcile"

RemoteHolds(p) ==
    class[p] # Local =>
      /\ phases[p].exists /\ ~phases[p].finalizer => CleanBut(p, {})
      /\ set.exists /\ ~phases[p].exists =>
           CleanBut(p, {}) \/ (Settled /\ \E P \in pauses : CleanBut(p, P))

(* The finalizer of the ObjectSet comes first and goes last.               *)
SetHolds ==
    set.exists /\ ~set.finalizer =>
      /\ \A p \in Phases : ~phases[p].exists
      /\ \A o \in Objects : ~Ours(o)

LeftOf(i, p) == Ours(Content[p][i]) => SetPaused(setWorker.read, Content[p][i])

Gone(p) ==
    /\ ~phases[p].exists
    /\ class[p] = Local => \A i \in 1 .. Len(Content[p]) : LeftOf(i, p)

(* What the teardown has behind it, but for what has passed for gone.      *)
Behind(p) == p \in setWorker.overlooked \/ Gone(p)

SetWorkerHolds ==
    /\ setWorker.step = "reconcile" => ~Doomed(setWorker.read)
    /\ setWorker.step = "teardown" =>
         /\ Doomed(setWorker.read)
         /\ \A p \in Phases : p > setWorker.phase => Behind(p)
         /\ class[setWorker.phase] = Local /\ setWorker.ok =>
              \A i \in 1 .. Len(Content[setWorker.phase]) :
                i < setWorker.at => LeftOf(i, setWorker.phase)
    /\ setWorker.step = "report" /\ setWorker.ok /\ Doomed(setWorker.read) =>
         \A p \in Phases : Behind(p)

Held ==
    /\ Typed /\ PauseKnown
    /\ Places /\ SetHolds /\ SetWorkerHolds
    /\ \A p \in Phases : CopyHolds(p) /\ RemoteHolds(p)
    /\ \A c \in Classes : PhaseWorkerHolds(c)

-----------------------------------------------------------------------------
(* What a step can do to each part of the state.                           *)
LEMMA ObjectPlaces ==
    \A p, q \in Phases : \A i \in 1 .. Len(Content[p]), j \in 1 .. Len(Content[q]) :
      Content[p][i] = Content[q][j] => p = q
<1> SUFFICES ASSUME NEW p \in Phases, NEW q \in Phases, NEW i \in 1 .. Len(Content[p]),
                    NEW j \in 1 .. Len(Content[q]), Content[p][i] = Content[q][j], p # q
             PROVE  FALSE
  OBVIOUS
<1>1. Content[p] \in Seq(Objects) /\ Content[q] \in Seq(Objects)
  BY RemoteAssumption
<1>2. Content[p][i] \in Range(Content[p]) /\ Content[q][j] \in Range(Content[q])
  BY <1>1 DEF Range
<1>3. Range(Content[p]) \cap Range(Content[q]) = {}
  BY RemoteAssumption
<1> QED BY <1>2, <1>3

(* The only ways to gain an object.                                        *)
GainsLocally(o) ==
    /\ setWorker.step = "reconcile" /\ class[setWorker.phase] = Local
    /\ setWorker.phase \in Phases /\ setWorker.at \in 1 .. Len(Content[setWorker.phase])
    /\ o = Content[setWorker.phase][setWorker.at]

GainsRemotely(c, o) ==
    LET w == phaseWorker[c]
    IN  /\ w.step = "reconcile"
        /\ w.phase \in Phases /\ w.at \in 1 .. Len(Content[w.phase])
        /\ o = Content[w.phase][w.at]

LEMMA OneObjectChanges ==
    ASSUME Typed, NEW o \in Objects, NEW obj, objs' = [objs EXCEPT ![o] = obj]
    PROVE  /\ objs'[o] = obj
           /\ \A x \in Objects \ {o} : Ours(x)' = Ours(x)
BY DEF Typed, TypeOK, Ours

LEMMA ObjectSteps ==
    ASSUME Typed, [Next]_vars, NEW o \in Objects, Ours(o)', ~Ours(o)
    PROVE  GainsLocally(o) \/ \E c \in Classes : GainsRemotely(c, o)
<1>1. objs' # objs
  BY DEF Ours
<1>2. CASE ReconcileLocal
  <2>1. SetObject \in Objects /\ setWorker.step = "reconcile" /\ class[setWorker.phase] = Local
        /\ setWorker.phase \in Phases /\ setWorker.at \in 1 .. Len(Content[setWorker.phase])
    BY <1>2, SetWorkerIsAt DEF ReconcileLocal, IsLocal
  <2>2. \E obj : objs' = [objs EXCEPT ![SetObject] = obj]
    BY <1>1, <1>2 DEF ReconcileLocal
  <2>3. o = SetObject
    BY <2>1, <2>2, OneObjectChanges
  <2> QED BY <2>1, <2>3 DEF GainsLocally, SetObject
<1>3. ASSUME NEW x \in Objects, NEW paused, DeleteObject(paused, x) PROVE FALSE
  BY <1>1, <1>3 DEF DeleteObject, Typed, TypeOK, ObjectRecord, Ours
<1>4. CASE TeardownLocal
  BY <1>3, <1>4, SetWorkerIsAt DEF TeardownLocal
<1>5. ASSUME NEW c \in Classes, ReconcilePhaseObject(c)
      PROVE  GainsRemotely(c, o)
  <2> DEFINE w == phaseWorker[c]
  <2>1. w.step = "reconcile" /\ w.phase \in Phases /\ w.at \in 1 .. Len(Content[w.phase])
        /\ Content[w.phase][w.at] \in Objects
    BY <1>5, PhaseWorkerIsAt DEF ReconcilePhaseObject, Typed, Positions, Walking
  <2>2. \E obj : objs' = [objs EXCEPT ![Content[w.phase][w.at]] = obj]
    BY <1>1, <1>5 DEF ReconcilePhaseObject
  <2>3. o = Content[w.phase][w.at]
    BY <2>1, <2>2, OneObjectChanges
  <2> QED BY <2>1, <2>3 DEF GainsRemotely
<1>6. ASSUME NEW c \in Classes, TeardownPhaseObject(c) PROVE FALSE
  BY <1>3, <1>6, PhaseWorkerIsAt DEF TeardownPhaseObject
<1>7. ASSUME NEW x \in Objects, Progress(x) \/ Drift(x) PROVE FALSE
  <2>1. CASE x # o
    <3>1. PICK obj : ChangeObject(x, obj)
      BY <1>7, ClusterChanges DEF Typed
    <3> QED BY <2>1, <3>1, OneObjectChanges DEF ChangeObject
  <2>2. CASE x = o
    <3>1. objs[o] \in ObjectRecord
      BY DEF Typed, TypeOK
    <3> QED BY <1>7, <2>2, <3>1
            DEF Progress, Drift, BecomeReady, Disappear, LetGo, ChangeObject, Typed, TypeOK,
                Absent, Ours, ObjectRecord
  <2> QED BY <2>1, <2>2
<1>8. \/ UNCHANGED objs
      \/ ReconcileLocal \/ TeardownLocal
      \/ \E c \in Classes : ReconcilePhaseObject(c) \/ TeardownPhaseObject(c)
      \/ \E x \in Objects : Progress(x) \/ Drift(x)
  BY DEF Next, vars, apiVars, SetStep, PhaseStep, BeginSet, ReconcileRemote, TeardownRemote,
         FinishSet, BeginPhase, FinishPhase, Fail, Restart, Resync, SyncPhase, CollectPhase, EditSet
<1> QED BY <1>1, <1>2, <1>4, <1>5, <1>6, <1>7, <1>8

(* Where nobody reconciles, nothing is gained.                             *)
Unattended(p) ==
    /\ class[p] = Local => setWorker.step # "reconcile"
    /\ \A c \in Classes :
         phaseWorker[c].step = "reconcile" /\ phaseWorker[c].phase = p => class[p] = Local

LEMMA NothingGained ==
    ASSUME Held, [Next]_vars, NEW p \in Phases, Unattended(p),
           NEW i \in 1 .. Len(Content[p]), Ours(Content[p][i])'
    PROVE  Ours(Content[p][i])
<1> SUFFICES ASSUME ~Ours(Content[p][i]) PROVE FALSE
  OBVIOUS
<1>1. Content[p][i] \in Objects
  BY ContentTyped
<1>2. CASE GainsLocally(Content[p][i])
  <2>1. setWorker.phase = p
    BY <1>2, ObjectPlaces DEF GainsLocally
  <2> QED BY <1>2, <2>1 DEF GainsLocally, Unattended
<1>3. ASSUME NEW c \in Classes, GainsRemotely(c, Content[p][i]) PROVE FALSE
  <2>1. phaseWorker[c].phase = p /\ phaseWorker[c].step = "reconcile"
    BY <1>3, ObjectPlaces DEF GainsRemotely
  <2>2. class[p] = c
    BY <2>1 DEF Held, PhaseWorkerHolds
  <2> QED BY <2>1, <2>2, RemoteAssumption DEF Unattended
<1>4. Ours(Content[p][i])'
  OBVIOUS
<1> QED BY <1>1, <1>2, <1>3, <1>4, ObjectSteps DEF Held

LEMMA ClassStays == [Next]_vars => class' = class
BY DEF Next, vars, apiVars, SetStep, PhaseStep, BeginSet, ReconcileLocal, ReconcileRemote,
       TeardownLocal, TeardownRemote, FinishSet, BeginPhase, ReconcilePhaseObject,
       TeardownPhaseObject, FinishPhase, Fail, Restart, Resync, SyncPhase, CollectPhase, EditSet,
       Progress, BecomeReady, Disappear, LetGo, Drift, ChangeObject

(* An ObjectSet that is there was there, and does not turn back.           *)
LEMMA SetSteps ==
    ASSUME Typed, PauseKnown, [Next]_vars, set'.exists
    PROVE  /\ set.exists
           /\ set.finalizer => set'.finalizer
           /\ Doomed(set) => Doomed(set)'
<1>1. set \in SetRecord
  BY DEF Typed, TypeOK
<1>2. CASE UNCHANGED set
  BY <1>2 DEF Doomed
<1>3. CASE BeginSet
  BY <1>1, <1>3 DEF BeginSet, SetRecord, Doomed
<1>4. CASE FinishSet
  BY <1>1, <1>4 DEF FinishSet, PauseKnown, SetWorkerKnows, Reported, SetRecord, Doomed, NoSet, NewSet
<1>5. CASE EditSet
  <2>1. set.exists /\ set' # NoSet
    BY <1>5 DEF EditSet, NoSet, NewSet
  <2>2. ASSUME NEW lifecycle \in {"Active", "Paused", "Archived"}, NEW os \in SUBSET Objects,
               set.lifecycle = "Archived" => lifecycle = "Archived",
               set' = [SpecChanged(set) EXCEPT !.lifecycle = lifecycle, !.pausedFor = os]
        PROVE  set'.finalizer = set.finalizer /\ (Doomed(set) => Doomed(set)')
    BY <1>1, <2>2 DEF SpecChanged, SetRecord, Doomed
  <2>3. CASE set' = [SpecChanged(set) EXCEPT !.deleting = TRUE]
    BY <1>1, <2>1, <2>3 DEF SpecChanged, SetRecord, Doomed
  <2> QED BY <1>5, <2>1, <2>2, <2>3, SetEdits DEF Typed
<1>6. UNCHANGED set \/ BeginSet \/ FinishSet \/ EditSet
  BY DEF Next, vars, apiVars, SetStep, PhaseStep, ReconcileLocal, ReconcileRemote,
         TeardownLocal, TeardownRemote, BeginPhase, ReconcilePhaseObject,
         TeardownPhaseObject, FinishPhase, Fail, Restart, Resync, SyncPhase, CollectPhase,
         Progress, BecomeReady, Disappear, LetGo, Drift, ChangeObject
<1> QED BY <1>2, <1>3, <1>4, <1>5, <1>6

LEMMA PausesGrow == [Next]_vars => pauses \subseteq pauses'
BY DEF Next, vars, apiVars, SetStep, PhaseStep, BeginSet, ReconcileLocal, ReconcileRemote,
       TeardownLocal, TeardownRemote, FinishSet, BeginPhase, ReconcilePhaseObject,
       TeardownPhaseObject, FinishPhase, Fail, Restart, Resync, SyncPhase, CollectPhase,
       EditSet, Progress, BecomeReady, Disappear, LetGo, Drift, ChangeObject

(* Once retired, an ObjectSet is not rolled out again.                     *)
LEMMA NoRolloutBegins ==
    ASSUME Typed, [Next]_vars, setWorker'.step = "reconcile"
    PROVE  setWorker.step = "reconcile" \/ (set.exists /\ ~Retired /\ BeginSet)
<1>1. setWorker \in WorkerRecord(SetRecord)
  BY DEF Typed, TypeOK
<1>2. CASE UNCHANGED setWorker \/ setWorker' = SetIdle
  BY <1>2, RecordsTyped
<1>3. CASE BeginSet
  <2> DEFINE s == [set EXCEPT !.finalizer = TRUE]
             From(step) == [SetIdle EXCEPT !.step = step, !.read = s]
  <2>1. (Doomed(s) <=> Doomed(set)) /\ s \in SetRecord
    BY SetUpdates DEF Typed, TypeOK, SetRecord, Doomed
  <2>2. \A p \in Int : EnterPhase(From("teardown"), p).step \in {"teardown", "report"}
    <3> TAKE p \in Int
    <3>1. From("teardown") \in WorkerRecord(SetRecord) /\ From("teardown").step = "teardown"
      BY <2>1, RecordsTyped DEF WorkerRecord, Steps
    <3> QED BY <3>1, EnterMoves DEF Moves
  <2> HIDE DEF From
  <2>3. Len(Content) \in Int
    BY ConstantsTyped
  <2>4. setWorker' # EnterPhase(From("teardown"), Len(Content))
    BY <2>2, <2>3
  <2> QED BY <1>2, <1>3, <2>1, <2>4 DEF BeginSet, Retired, From
<1>4. CASE SetStep
  <2>1. \/ setWorker' = SetIdle
        \/ \E good : setWorker' \in {AfterSetObject(setWorker, good), AfterSetPhase(setWorker, good)}
        \/ TeardownRemote /\ setWorker' = AfterSetPhase(Overlooks(setWorker.phase), TRUE)
    BY <1>4 DEF SetStep, ReconcileLocal, ReconcileRemote, TeardownLocal, TeardownRemote, FinishSet
  <2>2. CASE TeardownRemote /\ setWorker' = AfterSetPhase(Overlooks(setWorker.phase), TRUE)
    <3>1. PICK p \in Phases : p = setWorker.phase
      BY <2>2, SetWorkerIsAt DEF TeardownRemote
    <3>2. Overlooks(p) \in WorkerRecord(SetRecord) /\ Overlooks(p).step = "teardown"
      BY <2>2, OverlooksTyped DEF TeardownRemote
    <3>3. setWorker'.step \in {"teardown", "report"}
      BY <2>2, <3>1, <3>2, MovesKeep DEF Keeps
    <3> QED BY <3>3
  <2> QED BY <1>1, <1>2, <2>1, <2>2, MovesKeep DEF Keeps
<1>5. UNCHANGED setWorker \/ setWorker' = SetIdle \/ BeginSet \/ SetStep
  BY DEF Next, vars, apiVars, PhaseStep, BeginPhase, ReconcilePhaseObject,
         TeardownPhaseObject, FinishPhase, Fail, Restart, Resync, SyncPhase, CollectPhase, EditSet,
         Progress, BecomeReady, Disappear, LetGo, Drift, ChangeObject
<1> QED BY <1>2, <1>3, <1>4, <1>5

(* The cache shows what it has shown, or what is there.                    *)
LEMMA SeenSteps ==
    ASSUME Typed, [Next]_vars, NEW p \in Phases
    PROVE  \/ phasesSeen'[p] = phasesSeen[p]
           \/ phasesSeen'[p] = phases[p] /\ phases' = phases
<1>1. CASE Restart \/ \E q \in Phases : SyncPhase(q)
  BY <1>1 DEF Restart, SyncPhase, apiVars, Typed, TypeOK
<1>2. UNCHANGED phasesSeen \/ Restart \/ \E q \in Phases : SyncPhase(q)
  BY DEF Next, vars, apiVars, SetStep, PhaseStep, BeginSet, ReconcileLocal, ReconcileRemote,
         TeardownLocal, TeardownRemote, FinishSet, BeginPhase, ReconcilePhaseObject,
         TeardownPhaseObject, FinishPhase, Fail, Resync, CollectPhase, EditSet,
         Progress, BecomeReady, Disappear, LetGo, Drift, ChangeObject
<1> QED BY <1>1, <1>2

(* What can become of an ObjectSetPhase.                                   *)
Created(p) ==
    /\ setWorker.step = "reconcile" /\ class[p] # Local
    /\ ~phasesSeen[p].exists /\ ~phases[p].exists
    /\ phases'[p].exists /\ ~phases'[p].finalizer /\ ~phases'[p].deleting

DeletedAtOnce(p) ==
    /\ setWorker.step = "teardown" \/ ~set.exists
    /\ phases[p].exists /\ ~phases[p].finalizer
    /\ phases'[p] = NoPhase

LeavesBy(c, p) ==
    LET w == phaseWorker[c]
    IN  /\ w.step = "report" /\ w.phase = p
        /\ w.read = phases[p] /\ w.read.deleting /\ w.ok
        /\ phases'[p] = NoPhase

Updated(p) ==
    /\ phases'[p].exists = phases[p].exists
    /\ phases[p].finalizer => phases'[p].finalizer
    /\ phases[p].deleting => phases'[p].deleting
    /\ phases'[p].deleting => phases[p].deleting \/ setWorker.step = "teardown" \/ ~set.exists

LEMMA ReconcileRemotePhases ==
    ASSUME Typed, ReconcileRemote, NEW p \in Phases
    PROVE  Created(p) \/ Updated(p)
<1>1. CASE phases'[p] = phases[p]
  BY <1>1 DEF Updated
<1>2. CASE /\ ~phasesSeen[setWorker.phase].exists /\ ~phases[setWorker.phase].exists
           /\ phases' = [phases EXCEPT ![setWorker.phase] = NewPhase]
  <2>1. NewPhase.exists /\ ~NewPhase.finalizer /\ ~NewPhase.deleting
    BY DEF NewPhase, NoPhase
  <2>2. phases'[p] = phases[p] \/ (p = setWorker.phase /\ phases'[p] = NewPhase)
    BY <1>2 DEF Typed, TypeOK
  <2> QED BY <1>1, <1>2, <2>1, <2>2 DEF ReconcileRemote, IsLocal, Created
<1>3. CASE UNCHANGED phases
  BY <1>1, <1>3
<1> QED BY <1>2, <1>3 DEF ReconcileRemote

LEMMA DeletePhasePhases ==
    ASSUME Typed, NEW q \in Phases, setWorker.step = "teardown" \/ ~set.exists,
           phases[q].exists, phases' = [phases EXCEPT ![q] = DeletePhase(phases[q])],
           NEW p \in Phases
    PROVE  DeletedAtOnce(p) \/ Updated(p)
<1> DEFINE ph == DeletePhase(phases[q])
<1>1. phases[q].finalizer =>
        /\ ph.exists = phases[q].exists /\ ph.finalizer = phases[q].finalizer
        /\ ph.deleting
  <2>1. phases[q] \in PhaseRecord
    BY DEF Typed, TypeOK
  <2> QED BY <2>1 DEF DeletePhase, SpecChanged, PhaseRecord
<1>2. ~phases[q].finalizer => ph = NoPhase
  BY DEF DeletePhase
<1>3. phases'[p] = phases[p] \/ (p = q /\ phases'[p] = ph)
  BY DEF Typed, TypeOK
<1> HIDE DEF ph
<1>4. CASE phases'[p] = phases[p]
  BY <1>4 DEF Updated
<1>5. CASE phases[q].finalizer
  BY <1>1, <1>3, <1>4, <1>5 DEF Updated
<1>6. CASE ~phases[q].finalizer
  BY <1>2, <1>3, <1>4, <1>6 DEF DeletedAtOnce
<1> QED BY <1>5, <1>6

LEMMA TeardownRemotePhases ==
    ASSUME Typed, TeardownRemote, NEW p \in Phases
    PROVE  DeletedAtOnce(p) \/ Updated(p)
<1> DEFINE q == setWorker.phase
           s == setWorker.read
<1>1. q \in Phases /\ phases[q] \in PhaseRecord
  BY SetWorkerIsAt DEF TeardownRemote, Typed, TypeOK
<1>2. CASE phases'[p] = phases[p]
  BY <1>2 DEF Updated
<1>3. CASE phases' = [phases EXCEPT ![q] = [SpecChanged(phases[q]) EXCEPT !.pausedFor = s.pausedFor]]
  <2> DEFINE ph == [SpecChanged(phases[q]) EXCEPT !.pausedFor = s.pausedFor]
  <2>1. ph.exists = phases[q].exists /\ ph.finalizer = phases[q].finalizer
        /\ ph.deleting = phases[q].deleting
    BY <1>1 DEF SpecChanged, PhaseRecord
  <2>2. phases'[p] = phases[p] \/ (p = q /\ phases'[p] = ph)
    BY <1>3 DEF Typed, TypeOK
  <2> QED BY <1>2, <2>1, <2>2 DEF Updated
<1>4. CASE phases[q].exists /\ phases' = [phases EXCEPT ![q] = DeletePhase(phases[q])]
  BY <1>1, <1>4, DeletePhasePhases DEF TeardownRemote
<1>5. \/ phases' = phases
      \/ phases' = [phases EXCEPT ![q] = [SpecChanged(phases[q]) EXCEPT !.pausedFor = s.pausedFor]]
      \/ phases[q].exists /\ phases' = [phases EXCEPT ![q] = DeletePhase(phases[q])]
  BY DEF TeardownRemote, Typed, TypeOK
<1> QED BY <1>2, <1>3, <1>4, <1>5

LEMMA BeginPhasePhases ==
    ASSUME Typed, NEW c \in Classes, NEW q \in Phases, BeginPhase(c, q), NEW p \in Phases
    PROVE  Updated(p)
<1> DEFINE ph == [phasesSeen[q] EXCEPT !.finalizer = TRUE]
<1>1. CASE phases' = phases
  BY <1>1 DEF Updated
<1>2. CASE phasesSeen[q] = phases[q] /\ phases' = [phases EXCEPT ![q] = ph]
  <2>1. ph.exists = phases[q].exists /\ ph.finalizer /\ ph.deleting = phases[q].deleting
    BY <1>2 DEF Typed, TypeOK, PhaseRecord
  <2>2. phases'[p] = phases[p] \/ (p = q /\ phases'[p] = ph)
    BY <1>2 DEF Typed, TypeOK
  <2> QED BY <2>1, <2>2 DEF Updated
<1> QED BY <1>1, <1>2 DEF BeginPhase

LEMMA FinishPhasePhases ==
    ASSUME Typed, NEW c \in Classes, FinishPhase(c), NEW p \in Phases
    PROVE  LeavesBy(c, p) \/ Updated(p)
<1> DEFINE w == phaseWorker[c]
           ph == IF w.read.deleting THEN NoPhase ELSE PhaseReported(w.read, w.ok)
<1>1. CASE phases'[p] = phases[p]
  BY <1>1 DEF Updated
<1>2. CASE /\ phases[w.phase] = w.read
           /\ w.read.deleting => w.ok
           /\ phases' = [phases EXCEPT ![w.phase] = ph]
  <2>1. phases'[p] = phases[p] \/ (p = w.phase /\ phases'[p] = ph)
    BY <1>2 DEF Typed, TypeOK
  <2>2. w.read \in PhaseRecord
    BY DEF Typed, TypeOK, WorkerRecord
  <2>3. CASE w.read.deleting
    BY <1>1, <1>2, <2>1, <2>3 DEF LeavesBy, FinishPhase
  <2>4. CASE ~w.read.deleting
    <3> DEFINE r == PhaseReported(w.read, w.ok)
    <3>1. /\ r.exists = w.read.exists /\ r.finalizer = w.read.finalizer
          /\ r.deleting = w.read.deleting
      BY <2>2 DEF PhaseReported, PhaseRecord
    <3>2. ph = r
      BY <2>4
    <3> HIDE DEF ph, r
    <3>3. CASE p = w.phase /\ phases'[p] = ph
      <4>1. phases[p] = w.read /\ phases'[p] = r
        BY <1>2, <3>2, <3>3
      <4> QED BY <3>1, <4>1 DEF Updated
    <3> QED BY <1>1, <2>1, <3>3
  <2> QED BY <2>3, <2>4
<1>3. CASE phases' = phases
  BY <1>1, <1>3
<1> QED BY <1>2, <1>3 DEF FinishPhase

LEMMA PhaseSteps ==
    ASSUME Typed, [Next]_vars, NEW p \in Phases
    PROVE  \/ Created(p) \/ DeletedAtOnce(p) \/ Updated(p)
           \/ \E c \in Classes : LeavesBy(c, p)
<1>1. CASE UNCHANGED phases
  BY <1>1 DEF Updated
<1>2. \/ UNCHANGED phases
      \/ ReconcileRemote \/ TeardownRemote
      \/ \E c \in Classes : FinishPhase(c) \/ \E q \in Phases : BeginPhase(c, q)
      \/ \E q \in Phases : CollectPhase(q)
  BY DEF Next, vars, apiVars, SetStep, PhaseStep, BeginSet, ReconcileLocal,
         TeardownLocal, FinishSet, ReconcilePhaseObject, TeardownPhaseObject, Fail, Restart,
         Resync, SyncPhase, EditSet,
         Progress, BecomeReady, Disappear, LetGo, Drift, ChangeObject
<1>3. ASSUME NEW q \in Phases, CollectPhase(q) PROVE DeletedAtOnce(p) \/ Updated(p)
  BY <1>3, DeletePhasePhases DEF CollectPhase
<1> QED BY <1>1, <1>2, <1>3, ReconcileRemotePhases, TeardownRemotePhases, BeginPhasePhases,
        FinishPhasePhases

-----------------------------------------------------------------------------
LEMMA SettledStays ==
    ASSUME Typed, PauseKnown, [Next]_vars, Settled
    PROVE  Settled'
<1>1. Retired'
  <2>1. set'.exists => set.exists /\ (Doomed(set) => Doomed(set)')
    BY SetSteps
  <2> QED BY <2>1 DEF Settled, Retired
<1>2. setWorker'.step # "reconcile"
  BY NoRolloutBegins DEF Settled
<1> QED BY <1>1, <1>2 DEF Settled

LEMMA PlacesStay == Held /\ [Next]_vars => Places'
<1> SUFFICES ASSUME Held, [Next]_vars PROVE Places'
  OBVIOUS
<1>1. class' = class
  BY ClassStays
<1>2. ASSUME NEW o \in Objects, Ours(o)'
      PROVE  \E p \in Phases : \E i \in 1 .. Len(Content[p]) : o = Content[p][i]
  <2>1. CASE Ours(o)
    BY <2>1 DEF Held, Places
  <2>2. CASE GainsLocally(o)
    BY <2>2 DEF GainsLocally
  <2>3. CASE \E c \in Classes : GainsRemotely(c, o)
    BY <2>3 DEF GainsRemotely
  <2> QED BY <1>2, <2>1, <2>2, <2>3, ObjectSteps DEF Held
<1>3. ASSUME NEW p \in Phases, phases'[p].exists PROVE class[p] # Local
  <2>1. ~NoPhase.exists
    BY DEF NoPhase
  <2>2. Created(p) \/ Updated(p)
    BY <1>3, <2>1, PhaseSteps DEF Held, DeletedAtOnce, LeavesBy
  <2> QED BY <1>3, <2>2 DEF Created, Updated, Held, Places
<1> QED BY <1>1, <1>2, <1>3 DEF Places

LEMMA CopiesStay == Held /\ [Next]_vars => \A p \in Phases : CopyHolds(p)'
<1> SUFFICES ASSUME Held, [Next]_vars, NEW p \in Phases PROVE CopyHolds(p)'
  OBVIOUS
<1>1. ~NoPhase.exists /\ ~NoPhase.deleting
  BY DEF NoPhase
<1>2. CopyHolds(p) /\ PhaseKnows(p) /\ SetWorkerKnows
  BY DEF Held, PauseKnown
<1>3. \/ phases[p].deleting \/ phasesSeen[p].deleting
      \/ setWorker.step = "teardown" \/ ~set.exists
      => Settled'
  <2>1. \/ phases[p].deleting \/ phasesSeen[p].deleting
        \/ setWorker.step = "teardown" \/ ~set.exists
        => Settled
    BY <1>2 DEF CopyHolds, PhaseKnows, SetWorkerKnows, Settled, Retired, Heeds
  <2> QED BY <2>1, SettledStays DEF Held
<1>4. CASE phasesSeen'[p] = phases[p] /\ phases' = phases
  BY <1>3, <1>4 DEF CopyHolds, Settled
<1>5. CASE phasesSeen'[p] = phasesSeen[p]
  <2>1. CASE Created(p)
    BY <1>2, <1>5, <2>1 DEF Created, CopyHolds
  <2>2. CASE DeletedAtOnce(p)
    BY <1>1, <1>2, <1>3, <1>5, <2>2 DEF DeletedAtOnce, CopyHolds, Settled
  <2>3. ASSUME NEW c \in Classes, LeavesBy(c, p) PROVE CopyHolds(p)'
    <3>1. phasesSeen[p].exists => phasesSeen[p].deleting
      BY <2>3 DEF LeavesBy, Held, PhaseWorkerHolds
    <3> QED BY <1>1, <1>2, <1>3, <1>5, <2>3, <3>1 DEF LeavesBy, CopyHolds, Settled
  <2>4. CASE Updated(p)
    BY <1>2, <1>3, <1>5, <2>4 DEF Updated, CopyHolds, Settled
  <2> QED BY <2>1, <2>2, <2>3, <2>4, PhaseSteps DEF Held
<1> QED BY <1>4, <1>5, SeenSteps DEF Held

(* A phase nobody reconciles, for it is gone or nobody has put a finalizer *)
(* on it, or one tears it down.                                            *)
LEMMA UnattendedPhases ==
    ASSUME Held, NEW p \in Phases, class[p] # Local,
           \/ ~(phases[p].exists /\ phases[p].finalizer)
           \/ \E c \in Classes : LeavesBy(c, p)
    PROVE  Unattended(p)
<1> SUFFICES ASSUME NEW c \in Classes, phaseWorker[c].step = "reconcile", phaseWorker[c].phase = p
             PROVE  FALSE
  BY DEF Unattended
<1>1. class[p] = c /\ phases[p].exists /\ phases[p].finalizer
  BY DEF Held, PhaseWorkerHolds
<1>2. ASSUME NEW d \in Classes, LeavesBy(d, p) PROVE FALSE
  <2>1. class[p] = d
    BY <1>2 DEF LeavesBy, Held, PhaseWorkerHolds
  <2> QED BY <1>1, <1>2, <2>1 DEF LeavesBy
<1> QED BY <1>1, <1>2

LEMMA NoneGained ==
    ASSUME Held, [Next]_vars, NEW p \in Phases, Unattended(p), NEW os, CleanBut(p, os)
    PROVE  CleanBut(p, os)'
BY NothingGained DEF CleanBut

LEMMA RemoteStays == Held /\ [Next]_vars => \A p \in Phases : RemoteHolds(p)'
<1> SUFFICES ASSUME Held, [Next]_vars, NEW p \in Phases, class[p] # Local
             PROVE  RemoteHolds(p)'
  BY ClassStays DEF RemoteHolds
<1>1. RemoteHolds(p) /\ PhaseKnows(p) /\ SetWorkerKnows
  BY DEF Held, PauseKnown
<1>2. ~NoPhase.exists
  BY DEF NoPhase
<1>3. ASSUME phases'[p].exists, ~phases'[p].finalizer PROVE CleanBut(p, {})'
  <2>1. Created(p) \/ Updated(p)
    BY <1>2, <1>3, PhaseSteps DEF Held, DeletedAtOnce, LeavesBy
  <2>2. CleanBut(p, {}) /\ ~(phases[p].exists /\ phases[p].finalizer)
    BY <1>1, <1>3, <2>1 DEF Created, Updated, RemoteHolds, SetWorkerKnows, Settled
  <2> QED BY <2>2, UnattendedPhases, NoneGained
<1>4. ASSUME set'.exists, ~phases'[p].exists
      PROVE  CleanBut(p, {})' \/ (Settled' /\ \E P \in pauses' : CleanBut(p, P)')
  <2>1. set.exists /\ pauses \subseteq pauses'
    BY <1>4, SetSteps, PausesGrow DEF Held
  <2>2. Settled => Settled'
    BY SettledStays DEF Held
  <2>3. /\ CleanBut(p, {}) \/ (Settled /\ \E P \in pauses : CleanBut(p, P))
        /\ Unattended(p)
    <3>1. CASE \E c \in Classes : LeavesBy(c, p)
      <4>1. PICK c \in Classes : LeavesBy(c, p)
        BY <3>1
      <4>2. Settled /\ Passed(phaseWorker[c])
        BY <4>1 DEF LeavesBy, Held, PhaseWorkerHolds, Settled
      <4>3. PICK P : P = phases[p].pausedFor
        OBVIOUS
      <4>4. CleanBut(p, P)
        BY <4>1, <4>2, <4>3 DEF LeavesBy, Passed, CleanBut
      <4>5. P \in pauses
        BY <1>1, <2>1, <4>1, <4>3 DEF LeavesBy, PhaseKnows, Heeds
      <4> QED BY <3>1, <4>2, <4>4, <4>5, UnattendedPhases
    <3>2. CASE DeletedAtOnce(p) \/ ~phases[p].exists
      BY <1>1, <2>1, <3>2, UnattendedPhases DEF DeletedAtOnce, RemoteHolds
    <3> QED BY <1>4, <3>1, <3>2, PhaseSteps DEF Held, Created, Updated
  <2>4. \A P : CleanBut(p, P) => CleanBut(p, P)'
    BY <2>3, NoneGained
  <2> QED BY <2>1, <2>2, <2>3, <2>4
<1> QED BY <1>3, <1>4, ClassStays DEF RemoteHolds

LEMMA SetHoldsOn == Held /\ [Next]_vars => SetHolds'
<1> SUFFICES ASSUME Held, [Next]_vars, set'.exists, ~set'.finalizer
             PROVE  /\ \A p \in Phases : ~phases'[p].exists
                    /\ \A o \in Objects : ~Ours(o)'
  BY DEF SetHolds
<1>1. set.exists /\ ~set.finalizer /\ setWorker.step = "idle"
  BY SetSteps DEF Held, PauseKnown, SetWorkerKnows, Typed, TypeOK, WorkerRecord
<1>2. \A p \in Phases : ~phases[p].exists
  BY <1>1 DEF Held, SetHolds
<1>3. \A o \in Objects : ~Ours(o)
  BY <1>1 DEF Held, SetHolds
<1>4. ASSUME NEW p \in Phases PROVE ~phases'[p].exists
  BY <1>1, <1>2, PhaseSteps DEF Held, Created, DeletedAtOnce, LeavesBy, Updated, NoPhase
<1>5. ASSUME NEW o \in Objects, Ours(o)' PROVE FALSE
  <2>1. \A c \in Classes : phaseWorker[c].step # "reconcile"
    BY <1>2 DEF Held, PhaseWorkerHolds
  <2> QED BY <1>1, <1>3, <1>5, <2>1, ObjectSteps DEF Held, GainsLocally, GainsRemotely
<1> QED BY <1>4, <1>5

-----------------------------------------------------------------------------
(* The workers of the ObjectSetPhases.                                     *)
Starts(c, p) ==
    LET w == phaseWorker'[c]
        seen == phasesSeen[p]
    IN  /\ phaseWorker[c].step = "idle"
        /\ class[p] = c /\ seen.exists
        /\ w.phase = p /\ w.at = 1 /\ w.read.deleting = seen.deleting
        /\ w.step = (IF seen.deleting THEN "teardown" ELSE "reconcile")
        /\ ~seen.deleting =>
             \/ seen.finalizer
             \/ seen = phases[p] /\ phases'[p].exists /\ phases'[p].finalizer

GoesOn(c) ==
    LET w == phaseWorker[c]
        next == phaseWorker'[c]
    IN  /\ next.step \in {w.step, "report"}
        /\ next.read = w.read /\ next.phase = w.phase
        /\ w.step = "reconcile" \/ TeardownPhaseObject(c)

LEMMA BeginPhaseStarts ==
    ASSUME Typed, NEW c \in Classes, NEW p \in Phases, BeginPhase(c, p)
    PROVE  phaseWorker'[c] = phaseWorker[c] \/ Starts(c, p)
<1> DEFINE ph == [phasesSeen[p] EXCEPT !.finalizer = TRUE]
           From(step, copy) ==
             [PhaseIdle EXCEPT !.step = step, !.phase = p, !.at = 1, !.read = copy]
<1>1. phasesSeen[p] \in PhaseRecord
  BY DEF Typed, TypeOK
<1>2. ph.finalizer /\ ph.deleting = phasesSeen[p].deleting /\ ph.exists = phasesSeen[p].exists
  BY <1>1 DEF PhaseRecord
<1>3. \A step, copy : /\ From(step, copy).step = step /\ From(step, copy).phase = p
                      /\ From(step, copy).at = 1 /\ From(step, copy).read = copy
  BY DEF PhaseIdle, IdleWith
<1>4. \A copy : phaseWorker' = [phaseWorker EXCEPT ![c] = copy] => phaseWorker'[c] = copy
  BY DEF Typed, TypeOK
<1>5. CASE UNCHANGED phaseWorker
  BY <1>5
<1>6. CASE /\ phasesSeen[p].exists /\ phasesSeen[p].deleting
           /\ phaseWorker' = [phaseWorker EXCEPT ![c] = From("teardown", phasesSeen[p])]
  <2>1. phaseWorker'[c] = From("teardown", phasesSeen[p])
    BY <1>4, <1>6
  <2> HIDE DEF From
  <2>2. /\ phaseWorker'[c].step = "teardown" /\ phaseWorker'[c].phase = p
        /\ phaseWorker'[c].at = 1 /\ phaseWorker'[c].read = phasesSeen[p]
    BY <1>3, <2>1
  <2>3. class[p] = c /\ phaseWorker[c].step = "idle"
    BY DEF BeginPhase
  <2> QED BY <1>6, <2>2, <2>3 DEF Starts
<1>7. CASE /\ phasesSeen[p].exists /\ ~phasesSeen[p].deleting
           /\ phasesSeen[p].finalizer \/ phasesSeen[p] = phases[p]
           /\ phases' = IF phasesSeen[p].finalizer THEN phases
                                                   ELSE [phases EXCEPT ![p] = ph]
           /\ phaseWorker' = [phaseWorker EXCEPT ![c] = From("reconcile", ph)]
  <2>1. phaseWorker'[c] = From("reconcile", ph)
    BY <1>4, <1>7
  <2>2. ~phasesSeen[p].finalizer => phases'[p] = ph
    BY <1>7 DEF Typed, TypeOK
  <2> HIDE DEF ph, From
  <2>3. /\ phaseWorker'[c].step = "reconcile" /\ phaseWorker'[c].phase = p
        /\ phaseWorker'[c].at = 1 /\ phaseWorker'[c].read = ph
    BY <1>3, <2>1
  <2>4. class[p] = c /\ phaseWorker[c].step = "idle"
    BY DEF BeginPhase
  <2>5. ~phasesSeen[p].finalizer =>
          phasesSeen[p] = phases[p] /\ phases'[p].exists /\ phases'[p].finalizer
    BY <1>2, <1>7, <2>2
  <2> QED BY <1>2, <1>7, <2>3, <2>4, <2>5 DEF Starts
<1> QED BY <1>5, <1>6, <1>7 DEF BeginPhase

LEMMA PhaseWorkerSteps ==
    ASSUME Typed, [Next]_vars, NEW c \in Classes
    PROVE  \/ phaseWorker'[c] = phaseWorker[c]
           \/ phaseWorker'[c].step = "idle"
           \/ \E p \in Phases : Starts(c, p)
           \/ GoesOn(c)
<1>1. ASSUME NEW d \in Classes, NEW p \in Phases, BeginPhase(d, p)
      PROVE  phaseWorker'[c] = phaseWorker[c] \/ Starts(c, p)
  <2>1. CASE d = c
    BY <1>1, <2>1, BeginPhaseStarts
  <2>2. CASE d # c
    BY <1>1, <2>2 DEF BeginPhase, Typed, TypeOK
  <2> QED BY <2>1, <2>2
<1>2. ASSUME NEW d \in Classes, ReconcilePhaseObject(d) \/ TeardownPhaseObject(d)
      PROVE  \/ phaseWorker'[c] = phaseWorker[c] \/ phaseWorker'[c].step = "idle"
             \/ GoesOn(c)
  <2>1. CASE d # c
    BY <1>2, <2>1 DEF ReconcilePhaseObject, TeardownPhaseObject, Typed, TypeOK
  <2>2. CASE d = c /\ phaseWorker' = [phaseWorker EXCEPT ![d] = PhaseIdle]
    BY <2>2, RecordsTyped DEF Typed, TypeOK
  <2>3. CASE d = c /\ \E good : phaseWorker' = [phaseWorker EXCEPT ![d] =
                                                  AfterPhaseObject(phaseWorker[d], good)]
    <3>1. PICK good : phaseWorker'[c] = AfterPhaseObject(phaseWorker[c], good)
      BY <2>3 DEF Typed, TypeOK
    <3>2. phaseWorker[c] \in WorkerRecord(PhaseRecord)
      BY DEF Typed, TypeOK
    <3>3. phaseWorker'[c].step \in {phaseWorker[c].step, "report"}
          /\ phaseWorker'[c].read = phaseWorker[c].read
      BY <3>1, <3>2, MovesKeep DEF Keeps
    <3>4. phaseWorker'[c].phase = phaseWorker[c].phase
      BY <3>1, <3>2 DEF AfterPhaseObject, WorkerRecord
    <3> QED BY <1>2, <2>3, <3>3, <3>4 DEF GoesOn, ReconcilePhaseObject
  <2> QED BY <1>2, <2>1, <2>2, <2>3 DEF ReconcilePhaseObject, TeardownPhaseObject
<1>3. ASSUME NEW d \in Classes, phaseWorker' = [phaseWorker EXCEPT ![d] = PhaseIdle]
      PROVE  phaseWorker'[c] = phaseWorker[c] \/ phaseWorker'[c].step = "idle"
  BY <1>3, RecordsTyped DEF Typed, TypeOK
<1>4. CASE Restart
  BY <1>4, RecordsTyped DEF Restart
<1>5. \/ UNCHANGED phaseWorker
      \/ \E d \in Classes, p \in Phases : BeginPhase(d, p)
      \/ \E d \in Classes : ReconcilePhaseObject(d) \/ TeardownPhaseObject(d)
      \/ \E d \in Classes : phaseWorker' = [phaseWorker EXCEPT ![d] = PhaseIdle]
      \/ Restart
  BY DEF Next, vars, apiVars, SetStep, PhaseStep, BeginSet, ReconcileLocal, ReconcileRemote,
         TeardownLocal, TeardownRemote, FinishSet, FinishPhase, Fail, Resync, SyncPhase, CollectPhase, EditSet,
         Progress, BecomeReady, Disappear, LetGo, Drift, ChangeObject
<1> QED BY <1>1, <1>2, <1>3, <1>4, <1>5

(* What a worker finds of its phase stays so while it works.               *)
InHand(p, deleting) ==
    /\ ~deleting => phases[p].exists /\ phases[p].finalizer
    /\ deleting => /\ Settled
                   /\ phasesSeen[p].exists => phasesSeen[p].deleting
                   /\ phases[p].exists => phases[p].deleting

LEMMA InHandStays ==
    ASSUME Held, [Next]_vars, NEW p \in Phases, NEW deleting \in BOOLEAN, InHand(p, deleting),
           \A c \in Classes : LeavesBy(c, p) => deleting
    PROVE  InHand(p, deleting)'
<1>1. Typed /\ PauseKnown
  BY DEF Held
<1>2. ~NoPhase.exists
  BY DEF NoPhase
<1>3. CASE deleting
  <2>1. Settled /\ Settled'
    BY <1>1, <1>3, SettledStays DEF InHand
  <2>2. phases'[p].exists => phases[p].exists /\ phases'[p].deleting
    BY <1>1, <1>2, <1>3, <2>1, PhaseSteps
    DEF InHand, Settled, Created, DeletedAtOnce, LeavesBy, Updated
  <2>3. phasesSeen'[p].exists => phasesSeen'[p].deleting
    BY <1>1, <1>3, SeenSteps DEF InHand
  <2> QED BY <1>3, <2>1, <2>2, <2>3 DEF InHand
<1>4. CASE ~deleting
  <2>1. Updated(p)
    BY <1>1, <1>4, PhaseSteps DEF InHand, Created, DeletedAtOnce
  <2> QED BY <1>4, <2>1 DEF InHand, Updated
<1> QED BY <1>3, <1>4

LEMMA PhaseWorkerStays ==
    ASSUME Held, [Next]_vars, NEW c \in Classes
    PROVE  PhaseWorkerHolds(c)'
<1> DEFINE w == phaseWorker[c]
           p == w.phase
           next == phaseWorker'[c]
<1>1. Typed /\ PauseKnown /\ class' = class /\ PhaseWorkerHolds(c) /\ c # Local
  BY ClassStays, RemoteAssumption DEF Held
<1>2. w.read.deleting \in BOOLEAN /\ next.read.deleting \in BOOLEAN /\ next \in WorkerRecord(PhaseRecord)
      /\ next.step \in Steps
  <2>1. w \in WorkerRecord(PhaseRecord)
    BY <1>1 DEF Typed, TypeOK
  <2>2. next \in WorkerRecord(PhaseRecord)
    BY <1>1, StepTyped DEF Typed, TypeOK
  <2> QED BY <2>1, <2>2 DEF WorkerRecord, PhaseRecord
<1>3. \A q \in Phases, d \in Classes : LeavesBy(d, q) => phaseWorker[d].read.deleting /\ class[q] = d
  BY DEF Held, PhaseWorkerHolds, LeavesBy
<1>4. CASE next.step = "idle"
  BY <1>4 DEF PhaseWorkerHolds
<1>5. ASSUME w.step # "idle", next.read = w.read, next.phase = p,
             next.step \in {w.step, "report"},
             w.read.deleting => Passed(phaseWorker[c])'
      PROVE  PhaseWorkerHolds(c)'
  <2>a. PICK q \in Phases, deleting \in BOOLEAN : q = p /\ deleting = w.read.deleting
    BY <1>1, <1>2, <1>5 DEF PhaseWorkerHolds
  <2>1. class[q] = c /\ InHand(q, deleting)
    BY <1>1, <1>5, <2>a DEF PhaseWorkerHolds, InHand, Settled
  <2>2. \A d \in Classes : LeavesBy(d, q) => deleting
    BY <1>3, <2>1, <2>a
  <2>3. InHand(q, deleting)'
    BY <2>1, <2>2, InHandStays
  <2>4. /\ ~deleting => phases'[q].exists /\ phases'[q].finalizer
        /\ deleting => /\ Settled'
                       /\ phasesSeen'[q].exists => phasesSeen'[q].deleting
                       /\ phases'[q].exists => phases'[q].deleting
    BY <2>3 DEF InHand
  <2>5. /\ next.step = "reconcile" => ~w.read.deleting
        /\ next.step = "teardown" => w.read.deleting
    BY <1>1, <1>5 DEF PhaseWorkerHolds
  <2> QED BY <1>1, <1>5, <2>a, <2>1, <2>4, <2>5 DEF PhaseWorkerHolds, Settled
<1>6. CASE w.step # "idle" /\ w.read.deleting
  <2>a. PICK q \in Phases : q = p
    BY <1>1, <1>6 DEF PhaseWorkerHolds
  <2>1. class[q] = c /\ w.step # "reconcile" /\ Passed(w)
    BY <1>1, <1>6, <2>a DEF PhaseWorkerHolds
  <2>2. Unattended(q)
    <3> SUFFICES ASSUME NEW d \in Classes, phaseWorker[d].step = "reconcile",
                        phaseWorker[d].phase = q
                 PROVE  FALSE
      BY <1>1, <2>1 DEF Unattended
    <3>1. PhaseWorkerHolds(d)
      BY DEF Held
    <3>2. class[q] = d
      BY <3>1 DEF PhaseWorkerHolds
    <3> QED BY <2>1, <3>2
  <2>3. \A i \in 1 .. Len(Content[q]) : Ours(Content[q][i])' => Ours(Content[q][i])
    BY <2>2, NothingGained
  <2>4. CASE next = w
    <3>1. Passed(phaseWorker[c])'
      BY <2>a, <2>1, <2>3, <2>4 DEF Passed
    <3> QED BY <1>5, <1>6, <2>4, <3>1
  <2>5. CASE GoesOn(c)
    <3>1. /\ TeardownPhaseObject(c) /\ next.read = w.read /\ next.phase = p
          /\ next.step \in {w.step, "report"}
      BY <2>1, <2>5 DEF GoesOn
    <3>2. w.step = "teardown" /\ w \in WorkerRecord(PhaseRecord)
      BY <1>1, <3>1 DEF TeardownPhaseObject, Typed, TypeOK
    <3>3. w.at \in 1 .. Len(Content[q]) /\ Len(Content[q]) \in Nat
      BY <1>1, <2>a, <3>2, ContentTyped DEF Typed, Positions, Walking
    <3>a. PICK o \in Objects : o = Content[q][w.at]
      BY <3>3, ContentTyped
    <3>b. PICK good \in BOOLEAN : good = CleanedUp(PhasePaused(w.read, o), o)
      BY DEF CleanedUp, PhasePaused
    <3>4. /\ DeleteObject(PhasePaused(w.read, o), o)
          /\ next = AfterPhaseObject(w, good)
      BY <1>1, <2>a, <3>a, <3>b, <3>1 DEF TeardownPhaseObject, Typed, TypeOK
    <3>5. /\ next.ok => w.ok /\ good
          /\ w.at < Len(Content[q]) => next.step = "teardown" /\ next.at = w.at + 1
      <4>1. CASE w.at < Len(Content[q])
        <5>1. next = [w EXCEPT !.at = @ + 1, !.ok = @ /\ good]
          BY <2>a, <3>4, <4>1 DEF AfterPhaseObject
        <5> QED BY <3>2, <5>1 DEF WorkerRecord
      <4>2. CASE ~(w.at < Len(Content[q]))
        <5>1. next = [w EXCEPT !.step = "report", !.ok = @ /\ good]
          BY <2>a, <3>4, <4>2 DEF AfterPhaseObject
        <5> QED BY <3>2, <4>2, <5>1 DEF WorkerRecord
      <4> QED BY <4>1, <4>2
    <3>6. good /\ Ours(o)' => o \in w.read.pausedFor
      BY <3>b, <3>4 DEF CleanedUp, PhasePaused, DeleteObject, Ours
    <3>7. ASSUME next.ok, NEW i \in 1 .. Len(Content[q]), next.step = "report" \/ i < next.at,
                 Ours(Content[q][i])'
          PROVE  Content[q][i] \in w.read.pausedFor
      <4>1. CASE i < w.at
        BY <2>a, <2>1, <2>3, <3>5, <3>7, <4>1 DEF Passed
      <4>2. CASE i = w.at
        BY <3>a, <3>5, <3>6, <3>7, <4>2
      <4>3. i < w.at \/ i = w.at
        BY <3>2, <3>3, <3>5, <3>7
      <4> QED BY <4>1, <4>2, <4>3
    <3>8. Passed(phaseWorker[c])'
      BY <2>a, <3>1, <3>7 DEF Passed
    <3> QED BY <1>5, <1>6, <3>1, <3>8
  <2> QED BY <1>1, <1>4, <1>6, <2>4, <2>5, PhaseWorkerSteps DEF Starts
<1>7. CASE w.step # "idle" /\ ~w.read.deleting
  BY <1>1, <1>4, <1>5, <1>7, PhaseWorkerSteps DEF Starts, GoesOn
<1>8. CASE w.step = "idle"
  <2>1. CASE next = w
    BY <1>4, <1>8, <2>1
  <2>2. ~GoesOn(c)
    BY <1>8 DEF GoesOn, TeardownPhaseObject
  <2>3. ASSUME NEW q \in Phases, Starts(c, q) PROVE PhaseWorkerHolds(c)'
    <3>1. PICK deleting \in BOOLEAN : deleting = phasesSeen[q].deleting
      BY <1>1 DEF Typed, TypeOK, PhaseRecord
    <3>2. CopyHolds(q) /\ PhaseKnows(q)
      BY DEF Held, PauseKnown
    <3>3. class[q] = c /\ phasesSeen[q].exists
      BY <2>3 DEF Starts
    <3>4. \A d \in Classes : ~LeavesBy(d, q)
      BY <1>3, <1>8, <3>3 DEF LeavesBy
    <3>5. InHand(q, deleting)'
      <4>1. CASE deleting \/ phasesSeen[q].finalizer
        <5>1. InHand(q, deleting)
          BY <3>1, <3>2, <3>3, <4>1
             DEF InHand, CopyHolds, PhaseKnows, Settled, Retired, Heeds
        <5> QED BY <3>4, <5>1, InHandStays
      <4>2. CASE ~(deleting \/ phasesSeen[q].finalizer)
        BY <2>3, <3>1, <4>2 DEF Starts, InHand
      <4> QED BY <4>1, <4>2
    <3>6. /\ ~deleting => phases'[q].exists /\ phases'[q].finalizer
          /\ deleting => /\ Settled'
                         /\ phasesSeen'[q].exists => phasesSeen'[q].deleting
                         /\ phases'[q].exists => phases'[q].deleting
      BY <3>5 DEF InHand
    <3>7. /\ next.phase = q /\ next.at = 1 /\ next.read.deleting = deleting
          /\ next.step = (IF deleting THEN "teardown" ELSE "reconcile")
      BY <2>3, <3>1 DEF Starts
    <3>8. deleting => Passed(phaseWorker[c])'
      BY <3>7 DEF Passed
    <3> QED BY <1>1, <3>1, <3>3, <3>6, <3>7, <3>8 DEF PhaseWorkerHolds, Settled
  <2> QED BY <1>1, <1>4, <2>1, <2>2, <2>3, PhaseWorkerSteps
<1> QED BY <1>6, <1>7, <1>8

-----------------------------------------------------------------------------
(* The worker of the ObjectSet.                                            *)
LEMMA LeftStays ==
    ASSUME Held, [Next]_vars, setWorker.step # "reconcile", setWorker'.read = setWorker.read,
           NEW p \in Phases, class[p] = Local, NEW i \in 1 .. Len(Content[p]), LeftOf(i, p)
    PROVE  LeftOf(i, p)'
<1>1. Unattended(p)
  BY DEF Unattended
<1> QED BY <1>1, NothingGained DEF LeftOf, SetPaused

LEMMA GoneStays ==
    ASSUME Held, [Next]_vars, setWorker.step # "reconcile", setWorker'.read = setWorker.read,
           NEW p \in Phases, Gone(p)
    PROVE  Gone(p)'
<1>1. ~phases'[p].exists
  BY PhaseSteps DEF Held, Gone, Created, DeletedAtOnce, LeavesBy, Updated, NoPhase
<1>2. class' = class
  BY ClassStays
<1> QED BY <1>1, <1>2, LeftStays DEF Gone

LEMMA BehindStays ==
    ASSUME Held, [Next]_vars, setWorker.step # "reconcile", setWorker'.read = setWorker.read,
           setWorker.overlooked \subseteq setWorker'.overlooked,
           NEW p \in Phases, Behind(p)
    PROVE  Behind(p)'
BY GoneStays DEF Behind

(* The teardown has come to the end of a phase: w is the worker, or what   *)
(* it is once it has taken the phase for gone.                             *)
LEMMA PhasePassed ==
    ASSUME Held, [Next]_vars, setWorker.step = "teardown",
           NEW q \in Phases, setWorker.phase = q, NEW ok \in BOOLEAN,
           NEW w \in WorkerRecord(SetRecord), w.step = "teardown", w.phase = q,
           w.read = setWorker.read, setWorker.overlooked \subseteq w.overlooked,
           setWorker' = AfterSetPhase(w, ok), ok => q \in w.overlooked \/ Gone(q)'
    PROVE  SetWorkerHolds'
<1>1. Doomed(setWorker.read) /\ \A p \in Phases : p > q => Behind(p)
  BY DEF Held, SetWorkerHolds
<1>2. setWorker'.read = setWorker.read /\ setWorker'.overlooked = w.overlooked
  BY MovesKeep DEF Keeps
<1>3. \A p \in Phases : p > q => Behind(p)'
  BY <1>1, <1>2, BehindStays
<1>4. ok => Behind(q)'
  BY <1>2 DEF Behind
<1>5. CASE ~ok
  BY <1>5 DEF AfterSetPhase, Stop, WorkerRecord, SetWorkerHolds
<1>6. CASE ok /\ q - 1 \in Phases
  <2>1. setWorker'.step = "teardown" /\ setWorker'.phase = q - 1 /\ setWorker'.at = 1
    BY <1>6 DEF AfterSetPhase, EnterPhase, Following, WorkerRecord
  <2>2. \A p \in Phases : p > q - 1 => Behind(p)'
    BY <1>3, <1>4, <1>6 DEF Phases
  <2>3. \A p \in Phases : Len(Content[p]) \in Nat
    BY ContentTyped
  <2>4. \A i \in 1 .. Len(Content[setWorker'.phase]) : ~(i < setWorker'.at)
    <3>1. PICK p \in Phases : p = q - 1
      BY <1>6
    <3>2. \A i \in 1 .. Len(Content[p]) : ~(i < 1)
      BY <2>3
    <3> QED BY <2>1, <3>1, <3>2
  <2> QED BY <1>1, <1>2, <2>1, <2>2, <2>4 DEF SetWorkerHolds, Doomed
<1>7. CASE ok /\ q - 1 \notin Phases
  <2>1. setWorker'.step = "report"
    BY <1>7 DEF AfterSetPhase, EnterPhase, Following, Stop, WorkerRecord
  <2>2. \A p \in Phases : p = q \/ p > q
    BY <1>7 DEF Phases
  <2>3. \A p \in Phases : Behind(p)'
    BY <1>3, <1>4, <1>7, <2>2
  <2> QED BY <2>1, <2>3 DEF SetWorkerHolds
<1> QED BY <1>5, <1>6, <1>7

LEMMA TeardownLocalStays == Held /\ TeardownLocal => SetWorkerHolds'
<1> SUFFICES ASSUME Held, TeardownLocal PROVE SetWorkerHolds'
  OBVIOUS
<1>1. [Next]_vars
  BY DEF Next, SetStep
<1>2. Typed /\ setWorker.step = "teardown" /\ setWorker \in WorkerRecord(SetRecord)
  BY DEF Held, Typed, TypeOK, TeardownLocal
<1>3. PICK q \in Phases : setWorker.phase = q
  BY <1>2, SetWorkerIsAt
<1>4. setWorker.at \in 1 .. Len(Content[q]) /\ Len(Content[q]) \in Nat
  BY <1>2, <1>3, SetWorkerIsAt, ContentTyped
<1>5. PICK o \in Objects : o = Content[q][setWorker.at]
  BY <1>4, ContentTyped
<1>6. PICK good \in BOOLEAN : good = CleanedUp(SetPaused(setWorker.read, o), o)
  BY DEF CleanedUp
<1>7. /\ class[q] = Local /\ class' = class
      /\ DeleteObject(SetPaused(setWorker.read, o), o)
      /\ setWorker' = AfterSetObject(setWorker, good)
      /\ UNCHANGED phases
  BY <1>3, <1>5, <1>6 DEF TeardownLocal, SetObject, IsLocal
<1>8. setWorker'.read = setWorker.read /\ setWorker'.overlooked = setWorker.overlooked
  BY <1>2, <1>7, MovesKeep DEF Keeps
<1>9. ASSUME setWorker.ok, good, NEW i \in 1 .. Len(Content[q]), i <= setWorker.at
      PROVE  LeftOf(i, q)'
  <2>1. CASE i < setWorker.at
    <3>1. LeftOf(i, q)
      BY <1>2, <1>3, <1>7, <1>9, <2>1 DEF Held, SetWorkerHolds
    <3> QED BY <1>1, <1>2, <1>7, <1>8, <3>1, LeftStays
  <2>2. CASE i = setWorker.at
    <3>1. Ours(o)' => SetPaused(setWorker.read, o)
      BY <1>6, <1>7, <1>9 DEF CleanedUp, DeleteObject, Ours
    <3> QED BY <1>5, <1>8, <2>2, <3>1 DEF LeftOf, SetPaused
  <2> QED BY <1>4, <1>9, <2>1, <2>2
<1>10. CASE setWorker.at < Len(Content[q])
  <2>1. setWorker' = [setWorker EXCEPT !.at = @ + 1, !.ok = @ /\ good]
    BY <1>3, <1>7, <1>10 DEF AfterSetObject
  <2>2. /\ setWorker'.step = "teardown" /\ setWorker'.phase = q
        /\ setWorker'.at = setWorker.at + 1
        /\ setWorker'.ok => setWorker.ok /\ good
    BY <1>2, <1>3, <2>1 DEF WorkerRecord
  <2>3. \A p \in Phases : p > q => Behind(p)'
    BY <1>1, <1>2, <1>3, <1>8, BehindStays DEF Held, SetWorkerHolds
  <2> QED BY <1>2, <1>4, <1>8, <1>9, <2>2, <2>3 DEF Held, SetWorkerHolds, Doomed
<1>11. CASE ~(setWorker.at < Len(Content[q]))
  <2>1. PICK ok \in BOOLEAN : ok = (setWorker.ok /\ good)
    OBVIOUS
  <2>2. PICK w \in WorkerRecord(SetRecord) : w = setWorker
    BY <1>2
  <2>3. setWorker' = AfterSetPhase(w, ok)
    BY <1>3, <1>7, <1>11, <2>1, <2>2 DEF AfterSetObject
  <2>4. ok => Gone(q)'
    <3>1. ~phases'[q].exists
      BY <1>7 DEF Held, Places
    <3>2. \A i \in 1 .. Len(Content[q]) : i <= setWorker.at
      BY <1>4, <1>11
    <3>3. ok => \A i \in 1 .. Len(Content[q]) : LeftOf(i, q)'
      BY <1>9, <2>1, <3>2
    <3> QED BY <3>1, <3>3 DEF Gone
  <2> QED BY <1>1, <1>2, <1>3, <2>2, <2>4, <2>3, PhasePassed
<1> QED BY <1>10, <1>11

LEMMA TeardownRemoteStays == Held /\ TeardownRemote => SetWorkerHolds'
<1> SUFFICES ASSUME Held, TeardownRemote PROVE SetWorkerHolds'
  OBVIOUS
<1>1. [Next]_vars
  BY DEF Next, SetStep
<1>2. Typed /\ setWorker.step = "teardown"
  BY DEF Held, TeardownRemote
<1>3. PICK q \in Phases : setWorker.phase = q
  BY <1>2, SetWorkerIsAt
<1>4. class[q] # Local /\ class' = class
  BY <1>3 DEF TeardownRemote, IsLocal
<1>5. ASSUME NEW ok \in BOOLEAN, setWorker' = AfterSetPhase(setWorker, ok),
             ok => ~phases'[q].exists
      PROVE  SetWorkerHolds'
  <2>1. ok => Gone(q)'
    BY <1>4, <1>5 DEF Gone
  <2>2. PICK w \in WorkerRecord(SetRecord) : w = setWorker
    BY <1>2 DEF Typed, TypeOK
  <2>3. setWorker' = AfterSetPhase(w, ok)
    BY <1>5, <2>2
  <2> QED BY <1>1, <1>2, <1>3, <2>1, <2>2, <2>3, PhasePassed
<1>6. CASE setWorker' = SetIdle
  BY <1>6, RecordsTyped DEF SetWorkerHolds
<1>7. CASE /\ ~phasesSeen[q].exists /\ UNCHANGED phases
           /\ setWorker' = AfterSetPhase(Overlooks(q), TRUE)
  <2>1. PICK w \in WorkerRecord(SetRecord) : w = Overlooks(q)
    BY <1>2, OverlooksTyped
  <2>2. /\ w.step = "teardown" /\ w.phase = q /\ w.read = setWorker.read
        /\ setWorker.overlooked \subseteq w.overlooked
        /\ phases[q].exists => q \in w.overlooked
    BY <1>2, <1>3, <2>1, OverlooksTyped
  <2>3. ~phases[q].exists => Gone(q)'
    BY <1>4, <1>7 DEF Gone
  <2>4. setWorker' = AfterSetPhase(w, TRUE)
    BY <1>7, <2>1
  <2> QED BY <1>1, <1>2, <1>3, <2>2, <2>3, <2>4, PhasePassed
<1>8. CASE setWorker' = AfterSetPhase(setWorker, FALSE)
  BY <1>5, <1>8
<1>9. CASE /\ phases' = [phases EXCEPT ![q] = IF @.exists THEN DeletePhase(@) ELSE @]
           /\ setWorker' = AfterSetPhase(setWorker, ~phases[q].exists)
  <2>1. PICK ok \in BOOLEAN : ok = ~phases[q].exists
    OBVIOUS
  <2>2. ok => ~phases'[q].exists
    BY <1>2, <1>9, <2>1 DEF Typed, TypeOK
  <2> QED BY <1>5, <1>9, <2>1, <2>2
<1> QED BY <1>3, <1>6, <1>7, <1>8, <1>9 DEF TeardownRemote

LEMMA BeginSetHolds == Held /\ BeginSet => SetWorkerHolds'
<1> SUFFICES ASSUME Held, BeginSet PROVE SetWorkerHolds'
  OBVIOUS
<1> DEFINE s == [set EXCEPT !.finalizer = TRUE]
           From(step) == [SetIdle EXCEPT !.step = step, !.read = s]
<1>1. s \in SetRecord /\ Typed
  BY SetUpdates DEF Held, Typed, TypeOK
<1>2. \A step \in Steps : /\ From(step) \in WorkerRecord(SetRecord)
                          /\ From(step).step = step /\ From(step).read = s
  BY <1>1, RecordsTyped DEF WorkerRecord, Steps
<1>3. Len(Content) \in Phases /\ 1 \in Phases /\ \A p \in Phases : ~(p > Len(Content))
  BY RemoteAssumption DEF Phases
<1>4. \A step \in Steps, p \in Phases :
        LET w == EnterPhase(From(step), p)
        IN  w.step = step /\ w.read = s /\ w.phase = p /\ w.at = 1
  <2> HIDE DEF From, s
  <2> QED BY <1>2 DEF EnterPhase, WorkerRecord
<1>5. "teardown" \in Steps /\ "reconcile" \in Steps
  BY DEF Steps
<1>6. CASE UNCHANGED setWorker
  BY <1>6 DEF BeginSet, SetWorkerHolds
<1>7. CASE ~Doomed(s) /\ setWorker' = EnterPhase(From("reconcile"), 1)
  <2>1. setWorker'.step = "reconcile" /\ setWorker'.read = s
    <3> HIDE DEF From, s
    <3> QED BY <1>3, <1>4, <1>5, <1>7
  <2> QED BY <1>7, <2>1 DEF SetWorkerHolds, Doomed
<1>8. CASE Doomed(s) /\ setWorker' = EnterPhase(From("teardown"), Len(Content))
  <2>1. /\ setWorker'.step = "teardown" /\ setWorker'.read = s
        /\ setWorker'.phase = Len(Content) /\ setWorker'.at = 1
    <3> HIDE DEF From, s
    <3> QED BY <1>3, <1>4, <1>5, <1>8
  <2>2. \A i \in 1 .. Len(Content[Len(Content)]) : ~(i < 1)
    BY <1>3, ContentTyped
  <2> HIDE DEF s
  <2> QED BY <1>3, <1>8, <2>1, <2>2 DEF SetWorkerHolds, Doomed
<1> QED BY <1>6, <1>7, <1>8 DEF BeginSet, Doomed

LEMMA SetWorkerStays ==
    ASSUME Held, [Next]_vars
    PROVE  SetWorkerHolds'
<1>1. setWorker \in WorkerRecord(SetRecord) /\ Typed
  BY DEF Held, Typed, TypeOK
<1>2. CASE UNCHANGED setWorker
  <2>1. \A p \in Phases : setWorker.step # "reconcile" /\ Behind(p) => Behind(p)'
    BY <1>2, BehindStays
  <2>2. CASE setWorker.step = "teardown"
    <3>1. PICK q \in Phases : setWorker.phase = q
      BY <1>1, <2>2, SetWorkerIsAt
    <3>2. class' = class
      BY ClassStays
    <3>3. \A i \in 1 .. Len(Content[q]) : class[q] = Local /\ LeftOf(i, q) => LeftOf(i, q)'
      BY <1>2, <2>2, LeftStays
    <3>4. class[q] = Local /\ setWorker.ok =>
            \A i \in 1 .. Len(Content[q]) : i < setWorker.at => LeftOf(i, q)
      BY <2>2, <3>1 DEF Held, SetWorkerHolds
    <3>5. Doomed(setWorker.read) /\ \A p \in Phases : p > q => Behind(p)
      BY <2>2, <3>1 DEF Held, SetWorkerHolds
    <3> QED BY <1>2, <2>1, <2>2, <3>1, <3>2, <3>3, <3>4, <3>5
            DEF SetWorkerHolds, Doomed
  <2>3. CASE setWorker.step # "teardown"
    BY <1>2, <2>1, <2>3 DEF Held, SetWorkerHolds, Doomed
  <2> QED BY <2>2, <2>3
<1>3. CASE setWorker' = SetIdle
  BY <1>3, RecordsTyped DEF SetWorkerHolds
<1>4. CASE ReconcileLocal \/ ReconcileRemote
  <2>1. setWorker.step = "reconcile"
    BY <1>4 DEF ReconcileLocal, ReconcileRemote
  <2>2. \/ setWorker' = SetIdle
        \/ \E good : setWorker' \in {AfterSetObject(setWorker, good), AfterSetPhase(setWorker, good)}
    BY <1>4 DEF ReconcileLocal, ReconcileRemote
  <2>3. CASE setWorker'.read = setWorker.read /\ setWorker'.step \in {setWorker.step, "report"}
    BY <2>1, <2>3 DEF Held, SetWorkerHolds, Doomed
  <2> QED BY <1>1, <1>3, <2>2, <2>3, MovesKeep DEF Keeps
<1>5. \/ UNCHANGED setWorker \/ setWorker' = SetIdle \/ BeginSet
      \/ ReconcileLocal \/ ReconcileRemote \/ TeardownLocal \/ TeardownRemote
  BY DEF Next, vars, apiVars, SetStep, PhaseStep, FinishSet, BeginPhase, ReconcilePhaseObject,
         TeardownPhaseObject, FinishPhase, Fail, Restart, Resync, SyncPhase, CollectPhase, EditSet,
         Progress, BecomeReady, Disappear, LetGo, Drift, ChangeObject
<1> QED BY <1>2, <1>3, <1>4, <1>5, BeginSetHolds, TeardownLocalStays, TeardownRemoteStays

-----------------------------------------------------------------------------
LEMMA InitHeld == Init => Held
<1> SUFFICES ASSUME Init PROVE Held
  OBVIOUS
<1>1. Typed /\ PauseKnown
  BY InitTyped, InitPauseKnown
<1>2. \A o \in Objects : ~Ours(o)
  BY DEF Init, Ours, Absent, Stranger, Nobody
<1>3. \A p \in Phases : phases[p] = NoPhase /\ phasesSeen[p] = NoPhase
                        /\ ~NoPhase.exists /\ ~NoPhase.deleting
  BY DEF Init, NoPhase
<1>4. setWorker.step = "idle" /\ \A c \in Classes : phaseWorker[c].step = "idle"
  BY RecordsTyped DEF Init
<1>5. Places /\ SetHolds /\ SetWorkerHolds
  BY <1>2, <1>3, <1>4 DEF Places, SetHolds, SetWorkerHolds
<1>6. ASSUME NEW p \in Phases PROVE CopyHolds(p) /\ RemoteHolds(p)
  BY <1>2, <1>3, <1>4, ContentTyped DEF CopyHolds, RemoteHolds, CleanBut
<1>7. ASSUME NEW c \in Classes PROVE PhaseWorkerHolds(c)
  BY <1>4 DEF PhaseWorkerHolds
<1> QED BY <1>1, <1>5, <1>6, <1>7 DEF Held

LEMMA StepHeld == Held /\ [Next]_vars => Held'
<1> SUFFICES ASSUME Held, [Next]_vars PROVE Held'
  OBVIOUS
<1>1. Typed' /\ PauseKnown'
  BY StepTyped, StepPauseKnown DEF Held
<1>2. Places' /\ SetHolds' /\ SetWorkerHolds'
  BY PlacesStay, SetHoldsOn, SetWorkerStays
<1>3. \A p \in Phases : CopyHolds(p)' /\ RemoteHolds(p)'
  BY CopiesStay, RemoteStays
<1>4. \A c \in Classes : PhaseWorkerHolds(c)'
  BY PhaseWorkerStays
<1> QED BY <1>1, <1>2, <1>3, <1>4 DEF Held

(* What the teardown has behind it is torn down.                           *)
LEMMA BehindIsTornDown ==
    ASSUME Held, set.exists, NEW p \in Phases, Behind(p), p \notin setWorker.overlooked
    PROVE  TornDown(p, setWorker.read)
<1>1. Gone(p)
  BY DEF Behind
<1>2. \A o \in Range(Content[p]) : \E i \in 1 .. Len(Content[p]) : o = Content[p][i]
  <2>1. Content[p] \in Seq(Objects)
    BY RemoteAssumption
  <2> QED BY <2>1 DEF Range
<1>3. CASE class[p] = Local
  <2>1. ASSUME NEW o \in Range(Content[p]), Ours(o)
        PROVE  o \in Objects /\ SetPaused(setWorker.read, o)
    <3>1. PICK i \in 1 .. Len(Content[p]) : o = Content[p][i]
      BY <1>2
    <3> QED BY <1>1, <1>3, <2>1, <3>1, ContentTyped DEF Gone, LeftOf
  <2> QED BY <1>3, <2>1 DEF TornDown, LeavesBut
<1>4. CASE class[p] # Local
  <2>1. CleanBut(p, {}) \/ \E P \in pauses : CleanBut(p, P)
    BY <1>1, <1>4 DEF Held, Gone, RemoteHolds
  <2>2. PICK P \in pauses \union {{}} : CleanBut(p, P)
    BY <2>1
  <2>3. LeavesBut(p, P)
    BY <1>2, <2>2 DEF CleanBut, LeavesBut
  <2> QED BY <1>1, <1>4, <2>3 DEF Gone, TornDown
<1> QED BY <1>3, <1>4

LEMMA HeldInOrder == Held => TeardownInOrder
<1> SUFFICES ASSUME Held, setWorker.step = "teardown",
                    NEW q \in setWorker.phase + 1 .. Len(Content),
                    q \notin setWorker.overlooked
             PROVE  TornDown(q, setWorker.read)
  BY DEF TeardownInOrder
<1>1. q \in Phases /\ q > setWorker.phase
  BY SetWorkerIsAt, ConstantsTyped DEF Held, Phases
<1>2. Behind(q)
  BY <1>1 DEF Held, SetWorkerHolds
<1>3. set.exists
  BY DEF Held, PauseKnown, SetWorkerKnows
<1> QED BY <1>1, <1>2, <1>3, BehindIsTornDown

(* When the ObjectSet controller comes to a phase every later one has been *)
(* torn down, by whichever controller it was delegated to, for any layout  *)
(* of classes and any edits meanwhile; but for phases that were not in the *)
(* cache yet, from which teardownRemotePhase concludes that they are gone. *)
THEOREM TornDownInOrder == Spec => []TeardownInOrder
BY InitHeld, StepHeld, HeldInOrder, PTL DEF Spec

LEMMA RemovalClean ==
    ASSUME Held, [Next]_vars, set.exists, ~set'.exists, NEW p \in Phases
    PROVE  p \in setWorker.overlooked \/ TornDown(p, set)
<1>1. set \in SetRecord
  BY DEF Held, Typed, TypeOK
<1>2. CASE EditSet /\ set' = NoSet
  <2>1. ~set.finalizer
    <3>1. [SpecChanged(set) EXCEPT !.deleting = TRUE].exists
      BY <1>1 DEF SpecChanged, SetRecord
    <3>2. \A l, os : [SpecChanged(set) EXCEPT !.lifecycle = l, !.pausedFor = os].exists
      BY <1>1 DEF SpecChanged, SetRecord
    <3> QED BY <1>2, <3>1, <3>2, SetEdits DEF Held, Typed
  <2>2. ~phases[p].exists /\ \A o \in Objects : ~Ours(o)
    BY <2>1 DEF Held, SetHolds
  <2>3. \A o \in Range(Content[p]) : o \in Objects
    BY RemoteAssumption DEF Range
  <2>4. \A os : LeavesBut(p, os)
    BY <2>2, <2>3 DEF LeavesBut
  <2> QED BY <2>2, <2>4 DEF TornDown
<1>3. CASE FinishSet
  <2>1. set = setWorker.read /\ setWorker.step = "report" /\ setWorker.ok /\ set.deleting
    BY <1>1, <1>3 DEF FinishSet, Reported, SetRecord
  <2>2. Behind(p)
    BY <2>1 DEF Held, SetWorkerHolds, Doomed
  <2> QED BY <2>1, <2>2, BehindIsTornDown
<1>4. \/ set'.exists = set.exists
      \/ FinishSet
      \/ EditSet /\ set' = NoSet
  <2>1. [set EXCEPT !.finalizer = TRUE].exists = set.exists
    BY <1>1 DEF SetRecord
  <2>2. EditSet => \/ set'.exists = set.exists
                   \/ set' = NoSet
    BY <1>1 DEF EditSet, SpecChanged, SetRecord
  <2> QED BY <2>1, <2>2
      DEF Next, vars, apiVars, SetStep, PhaseStep, BeginSet, ReconcileLocal, ReconcileRemote,
         TeardownLocal, TeardownRemote, BeginPhase, ReconcilePhaseObject,
         TeardownPhaseObject, FinishPhase, Fail, Restart, Resync, SyncPhase, CollectPhase,
         Progress, BecomeReady, Disappear, LetGo, Drift, ChangeObject
<1> QED BY <1>2, <1>3, <1>4

(* When an ObjectSet leaves the API server each of its phases has been     *)
(* torn down, whatever was edited during the teardown; but for those that  *)
(* passed for gone because the cache did not show them yet.                *)
THEOREM RemovalAlwaysClean == Spec => RemovalLeavesNothing
<1>1. Held /\ [Next]_vars =>
        [set.exists /\ ~set'.exists =>
           \A p \in Phases : p \in setWorker.overlooked \/ TornDown(p, set)]_vars
  BY RemovalClean
<1> QED BY <1>1, InitHeld, StepHeld, PTL DEF Spec, RemovalLeavesNothing
=============================================================================
