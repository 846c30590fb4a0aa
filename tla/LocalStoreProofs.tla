-------------------------- MODULE LocalStoreProofs --------------------------
(***************************************************************************)
(* Theorems about LocalStore for every set of invocations and names and    *)
(* any number of changes and stops.                                        *)
(***************************************************************************)
EXTENDS LocalStore, FiniteSetTheorems, TLAPS

LEMMA PhaseNames ==
    {"idle", "listed", "opened", "reading", "moving", "renaming"} = Phases
  BY DEF Phases

-----------------------------------------------------------------------------
(* Type correctness. *)

LEMMA TypeInit == Init => TypeOK
<1> SUFFICES ASSUME Init
             PROVE  TypeOK
  OBVIOUS
<1>1. pc \in [Workers -> Phases]
  BY DEF Init, Phases
<1>2. stops \in 0 .. MaxStops /\ clock \in Stamps /\ 0 \in Stamps
  BY StopsAssumption, ChangesAssumption DEF Init, Stamps
<1> QED
  BY <1>1, <1>2 DEF Init, TypeOK

\* A change keeps clock and stamps in their types.
LEMMA ChangeType ==
    ASSUME TypeOK, NEW f \in Files, Change(f)
    PROVE  /\ clock' \in Stamps /\ clock' = clock + 1 /\ clock + 1 \in Files
           /\ stamp' \in [Files -> Stamps]
           /\ stamp'[f] = clock + 1
           /\ \A g \in Files : g # f => stamp'[g] = stamp[g]
<1>1. clock \in Nat /\ clock < MaxChanges
  BY ChangesAssumption DEF TypeOK, Change, Stamps
<1> QED
  BY <1>1, ChangesAssumption DEF TypeOK, Change, Stamps, Files

\* The end of an invocation resets its locals.
LEMMA EndType ==
    ASSUME TypeOK, NEW w \in Workers, End(w)
    PROVE  /\ pc' \in [Workers -> Phases]
           /\ unit' \in [Workers -> Names \cup {NoName}]
           /\ version' \in [Workers -> Stamps]
           /\ stream' \in [Workers -> Files \cup {NoFile}]
           /\ read' \in [Workers -> SUBSET Stamps]
           /\ checked' \in [Workers -> Stamps]
<1>1. 0 \in Stamps /\ "idle" \in Phases
  BY ChangesAssumption DEF Stamps, Phases
<1> QED
  BY <1>1 DEF End, Goto, TypeOK

\* An invocation that opens, reads or moves has a file open, one that has an
\* object at hand has its name.
LEMMA HandyType ==
    ASSUME Tracked, NEW w \in Workers
    PROVE  /\ pc[w] # "idle" => unit[w] \in Names /\ version[w] \in Stamps
           /\ pc[w] \in {"opened", "reading", "moving"} =>
                  stream[w] \in Files /\ stamp[stream[w]] \in Stamps
  BY DEF Tracked, TypeOK, Knows, Phases

LEMMA TypeStep == Tracked /\ [Next]_vars => TypeOK'
<1> SUFFICES ASSUME Tracked, [Next]_vars
             PROVE  TypeOK'
  OBVIOUS
<1>1. TypeOK
  BY DEF Tracked
<1>2. CASE UNCHANGED vars
  BY <1>1, <1>2 DEF TypeOK, vars
<1>3. ASSUME NEW n \in Names, StartWrite(n)
      PROVE  TypeOK'
  <2>1. PICK f : /\ f = IF landing[n] = NoFile THEN clock + 1 ELSE landing[n]
                 /\ Change(f)
                 /\ landing' = [landing EXCEPT ![n] = f]
                 /\ writing' = writing \cup {f}
    BY <1>3 DEF StartWrite
  <2>2. f \in Files
    BY <1>1, <2>1, ChangesAssumption DEF TypeOK, Change, Files, Stamps
  <2> QED
    BY <1>1, <1>3, <2>1, <2>2, ChangeType DEF StartWrite, TypeOK, locals
<1>4. ASSUME NEW n \in Names, Replace(n)
      PROVE  TypeOK'
  <2>1. clock + 1 \in Files
    BY <1>1, <1>4, ChangesAssumption DEF TypeOK, Replace, Change, Files, Stamps
  <2> QED
    BY <1>1, <1>4, <2>1, ChangeType DEF Replace, TypeOK, locals
<1>5. ASSUME NEW f \in Files, EndWrite(f)
      PROVE  TypeOK'
  BY <1>1, <1>5, ChangeType DEF EndWrite, TypeOK, locals
<1>6. ASSUME NEW w \in Workers, Work(w) \/ ReadPiece(w) \/ Stop(w)
      PROVE  TypeOK'
  <2> USE <1>1, PhaseNames
  <2>1. CASE List(w)
    BY <2>1 DEF List, Goto, TypeOK, folders
  <2>2. CASE OpenStream(w)
    BY <2>2, EndType, HandyType DEF OpenStream, Goto, TypeOK, folders
  <2>3. CASE CheckStream(w)
    BY <2>3, EndType DEF CheckStream, GoOn, Goto, TypeOK, folders, locals
  <2>4. CASE ReadPiece(w)
    BY <2>4, HandyType DEF ReadPiece, TypeOK, folders
  <2>5. CASE EndRead(w)
    <3>1. <<unit[w], version[w]>> \in Names \X Stamps /\ stamp[stream[w]] \in Stamps
      BY <2>5, HandyType DEF EndRead
    <3> QED
      BY <2>5, <3>1 DEF EndRead, Goto, TypeOK, folders
  <2>6. CASE CheckMove(w)
    BY <2>6, EndType DEF CheckMove, Goto, TypeOK, folders
  <2>7. CASE Rename(w)
    BY <2>7, EndType, HandyType DEF Rename, TypeOK
  <2>8. CASE Stop(w)
    <3>1. stops' \in 0 .. MaxStops
      BY <2>8, StopsAssumption DEF Stop, TypeOK
    <3> QED
      BY <2>8, <3>1, EndType DEF Stop, TypeOK, folders
  <2> QED
    BY <1>6, <2>1, <2>2, <2>3, <2>4, <2>5, <2>6, <2>7, <2>8 DEF Work
<1> QED
  BY <1>2, <1>3, <1>4, <1>5, <1>6 DEF Next, Produce

-----------------------------------------------------------------------------
(* The inductive invariant. *)

LEMMA TrackedInit == Init => Tracked
<1> SUFFICES ASSUME Init
             PROVE  Tracked
  OBVIOUS
<1>1. TypeOK
  BY TypeInit
<1>2. StampsUnique
  BY ChangesAssumption DEF Init, StampsUnique, Files
<1>3. \A w \in Workers : Knows(w)
  BY DEF Init, Knows
<1> QED
  BY <1>1, <1>2, <1>3 DEF Tracked

\* A producer's change: the stamp is new, so no file gets a listed version back.
LEMMA ChangeTracked ==
    ASSUME Tracked, TypeOK', NEW f \in Files, Change(f),
           f = clock + 1 \/ stamp[f] > 0,
           UNCHANGED <<pc, locals, handled>>,
           \A n \in Names : landing'[n] = landing[n] \/ landing'[n] = f,
           writing' \subseteq writing \cup {f}
    PROVE  Tracked'
<1>1. /\ clock \in Nat /\ clock' = clock + 1
      /\ stamp'[f] = clock + 1
      /\ \A g \in Files : g # f => stamp'[g] = stamp[g]
      /\ \A g \in Files : stamp[g] \in Nat /\ g \in Nat
  <2>1. TypeOK
    BY DEF Tracked
  <2>2. clock \in Nat /\ \A g \in Files : stamp[g] \in Nat /\ g \in Nat
    BY <2>1, ChangesAssumption DEF TypeOK, Stamps, Files
  <2> QED
    BY <2>1, <2>2, ChangeType
<1>2. \A g \in Files : stamp[g] <= clock /\ (g > clock => stamp[g] = 0)
  BY DEF Tracked, StampsUnique
<1>3. StampsUnique'
  <2>1. \A g \in Files : stamp'[g] <= clock' /\ (g > clock' => stamp'[g] = 0)
    BY <1>1, <1>2
  <2>2. \A g, h \in Files : stamp'[g] = stamp'[h] /\ stamp'[g] > 0 => g = h
    BY <1>1, <1>2 DEF Tracked, StampsUnique
  <2>3. \A n \in Names : landing'[n] # NoFile => stamp'[landing'[n]] > 0
    <3> SUFFICES ASSUME NEW n \in Names, landing'[n] # NoFile
                 PROVE  stamp'[landing'[n]] > 0
      OBVIOUS
    <3>1. CASE landing'[n] = f
      BY <1>1, <3>1
    <3>2. CASE landing'[n] = landing[n] /\ landing[n] # f
      BY <1>1, <3>2 DEF Tracked, TypeOK, StampsUnique
    <3> QED
      BY <3>1, <3>2
  <2>4. \A g \in writing' : stamp'[g] > 0
    BY <1>1 DEF Tracked, TypeOK, StampsUnique
  <2> QED
    BY <2>1, <2>2, <2>3, <2>4 DEF StampsUnique
<1>4. ASSUME NEW w \in Workers
      PROVE  Knows(w)'
  <2> DEFINE v == version[w]
  <2>1. /\ Knows(w)
        /\ UNCHANGED <<pc, unit, version, stream, read, checked, handled>>
        /\ pc[w] \in Phases
    BY DEF Tracked, TypeOK, locals
  <2>2. pc[w] # "idle" => unit[w] \in Names /\ v \in 1 .. clock /\ v \in 1 .. clock'
    BY <1>1, <2>1 DEF Knows
  <2>3. pc[w] \in {"opened", "reading", "moving"} =>
            stream[w] # NoFile /\ stream[w] \in Files /\ stamp'[stream[w]] > 0
    BY <1>1, <2>1 DEF Knows, Tracked, TypeOK
  <2>4. pc[w] \in {"reading", "moving"} =>
            \A g \in Files : stamp'[g] = v => g = stream[w] /\ read[w] \subseteq {v}
    <3> SUFFICES ASSUME pc[w] \in {"reading", "moving"}, NEW g \in Files, stamp'[g] = v
                 PROVE  g = stream[w] /\ read[w] \subseteq {v}
      OBVIOUS
    <3>1. g # f
      BY <1>1, <2>2
    <3> QED
      BY <1>1, <2>1, <3>1 DEF Knows
  <2>5. pc[w] = "renaming" =>
            /\ read[w] = {v} /\ v \in handled
            /\ checked[w] <= clock'
            /\ \/ landing'[unit[w]] = NoFile
               \/ stamp'[landing'[unit[w]]] = v
               \/ stamp'[landing'[unit[w]]] > checked[w]
    <3> SUFFICES ASSUME pc[w] = "renaming"
                 PROVE  /\ read[w] = {v} /\ v \in handled
                        /\ checked[w] <= clock'
                        /\ \/ landing'[unit[w]] = NoFile
                           \/ stamp'[landing'[unit[w]]] = v
                           \/ stamp'[landing'[unit[w]]] > checked[w]
      OBVIOUS
    <3>1. /\ checked[w] \in Nat /\ checked[w] <= clock
          /\ read[w] = {v} /\ v \in handled
          /\ unit[w] \in Names
          /\ \/ landing[unit[w]] = NoFile
             \/ stamp[landing[unit[w]]] = v
             \/ stamp[landing[unit[w]]] > checked[w]
      BY <2>1, <2>2, ChangesAssumption DEF Knows, Tracked, TypeOK, Stamps
    <3>2. CASE landing'[unit[w]] = f
      BY <1>1, <3>1, <3>2
    <3>3. CASE landing'[unit[w]] = landing[unit[w]] /\ landing[unit[w]] # f
      BY <1>1, <3>1, <3>3 DEF Tracked, TypeOK
    <3> QED
      BY <1>1, <3>1, <3>2, <3>3
  <2> QED
    BY <2>1, <2>2, <2>3, <2>4, <2>5 DEF Knows
<1> QED
  BY <1>3, <1>4 DEF Tracked

\* A step of one invocation, which at most takes a file from its path.
OnlyOf(w) ==
    /\ UNCHANGED <<stamp, writing, clock>>
    /\ handled \subseteq handled'
    /\ \A n \in Names : landing'[n] = landing[n] \/ landing'[n] = NoFile
    /\ \A x \in Workers \ {w} :
           /\ pc'[x] = pc[x] /\ unit'[x] = unit[x] /\ version'[x] = version[x]
           /\ stream'[x] = stream[x] /\ read'[x] = read[x] /\ checked'[x] = checked[x]

\* It keeps the invariant if it keeps what this invocation knows.
LEMMA WorkerStep ==
    ASSUME Tracked, TypeOK', NEW w \in Workers, OnlyOf(w), Knows(w)'
    PROVE  Tracked'
<1>1. StampsUnique'
  BY DEF Tracked, StampsUnique, OnlyOf
<1>2. ASSUME NEW x \in Workers \ {w}
      PROVE  Knows(x)'
  <2>1. Knows(x)
    BY DEF Tracked
  <2>2. pc[x] # "idle" => unit[x] \in Names
    BY <2>1 DEF Knows, Tracked, TypeOK
  <2> QED
    BY <2>1, <2>2 DEF Knows, OnlyOf
<1> QED
  BY <1>1, <1>2 DEF Tracked

\* An invocation that is over knows nothing.
LEMMA EndTracked ==
    ASSUME Tracked, TypeOK', NEW w \in Workers, End(w),
           UNCHANGED <<stamp, writing, clock, handled>>,
           \A n \in Names : landing'[n] = landing[n] \/ landing'[n] = NoFile
    PROVE  Tracked'
<1>1. OnlyOf(w)
  BY DEF End, Goto, OnlyOf, Tracked, TypeOK
<1>2. pc'[w] = "idle" /\ read'[w] = {}
  BY DEF End, Goto, Tracked, TypeOK
<1>3. Knows(w)'
  BY <1>2 DEF Knows
<1> QED
  BY <1>1, <1>3, WorkerStep

LEMMA StartWriteTracked ==
    ASSUME Tracked, TypeOK', NEW n \in Names, StartWrite(n)
    PROVE  Tracked'
<1>1. PICK f : /\ f = IF landing[n] = NoFile THEN clock + 1 ELSE landing[n]
               /\ Change(f)
               /\ landing' = [landing EXCEPT ![n] = f]
               /\ writing' = writing \cup {f}
  BY DEF StartWrite
<1>2. f \in Files
  BY <1>1, ChangesAssumption DEF Tracked, TypeOK, Change, Files, Stamps
<1>3. f = clock + 1 \/ stamp[f] > 0
  BY <1>1 DEF Tracked, StampsUnique
<1>4. \A m \in Names : landing'[m] = landing[m] \/ landing'[m] = f
  BY <1>1 DEF Tracked, TypeOK
<1> QED
  BY <1>1, <1>2, <1>3, <1>4, ChangeTracked DEF StartWrite

LEMMA ReplaceTracked ==
    ASSUME Tracked, TypeOK', NEW n \in Names, Replace(n)
    PROVE  Tracked'
<1>1. clock + 1 \in Files
  BY ChangesAssumption DEF Tracked, TypeOK, Replace, Change, Files, Stamps
<1>2. \A m \in Names : landing'[m] = landing[m] \/ landing'[m] = clock + 1
  BY DEF Replace, Tracked, TypeOK
<1> QED
  BY <1>1, <1>2, ChangeTracked DEF Replace

LEMMA EndWriteTracked ==
    ASSUME Tracked, TypeOK', NEW f \in Files, EndWrite(f)
    PROVE  Tracked'
<1>1. stamp[f] > 0
  BY DEF EndWrite, Tracked, StampsUnique
<1> QED
  BY <1>1, ChangeTracked DEF EndWrite

LEMMA ListTracked ==
    ASSUME Tracked, TypeOK', NEW w \in Workers, List(w)
    PROVE  Tracked'
<1>1. PICK n \in Names : /\ landing[n] # NoFile
                         /\ unit' = [unit EXCEPT ![w] = n]
                         /\ version' = [version EXCEPT ![w] = stamp[landing[n]]]
  BY DEF List
<1>2. /\ OnlyOf(w)
      /\ pc'[w] = "listed" /\ unit'[w] = n /\ read'[w] = {}
      /\ version'[w] = stamp[landing[n]]
  BY <1>1 DEF List, Goto, OnlyOf, Tracked, TypeOK, Knows, folders
<1>3. stamp[landing[n]] \in 1 .. clock
  BY <1>1, ChangesAssumption DEF Tracked, TypeOK, StampsUnique, Stamps
<1>4. Knows(w)'
  BY <1>2, <1>3 DEF Knows, OnlyOf
<1> QED
  BY <1>2, <1>4, WorkerStep

LEMMA OpenStreamTracked ==
    ASSUME Tracked, TypeOK', NEW w \in Workers, OpenStream(w)
    PROVE  Tracked'
<1>1. CASE End(w)
  BY <1>1, EndTracked DEF OpenStream, folders
<1>2. CASE /\ landing[unit[w]] # NoFile
           /\ stream' = [stream EXCEPT ![w] = landing[unit[w]]]
           /\ Goto(w, "opened")
           /\ UNCHANGED <<unit, version, read, checked>>
  <2>1. /\ OnlyOf(w)
        /\ pc'[w] = "opened" /\ stream'[w] = landing[unit[w]]
    BY <1>2 DEF OpenStream, Goto, OnlyOf, Tracked, TypeOK, folders
  <2>2. Knows(w) /\ pc[w] = "listed" /\ unit[w] \in Names
    BY DEF OpenStream, Tracked, Knows, Phases
  <2>3. stamp[landing[unit[w]]] > 0
    BY <1>2, <2>2 DEF Tracked, StampsUnique
  <2>4. Knows(w)'
    BY <1>2, <2>1, <2>2, <2>3 DEF Knows, OnlyOf, OpenStream, Phases
  <2> QED
    BY <2>1, <2>4, WorkerStep
<1> QED
  BY <1>1, <1>2 DEF OpenStream

\* The open file has the listed version: no other file has.
LEMMA CheckStreamTracked ==
    ASSUME Tracked, TypeOK', NEW w \in Workers, CheckStream(w)
    PROVE  Tracked'
<1>1. CASE End(w)
  BY <1>1, EndTracked DEF CheckStream, folders
<1>2. CASE stamp[stream[w]] = version[w] /\ GoOn(w, "reading")
  <2>1. OnlyOf(w) /\ pc'[w] = "reading" /\ UNCHANGED locals
    BY <1>2 DEF CheckStream, GoOn, Goto, OnlyOf, Tracked, TypeOK, folders, locals
  <2>2. Knows(w) /\ pc[w] = "opened" /\ stream[w] \in Files
    BY HandyType DEF CheckStream, Tracked
  <2>3. \A f \in Files : stamp[f] = version[w] => f = stream[w]
    BY <1>2, <2>2 DEF Knows, Tracked, StampsUnique
  <2>4. Knows(w)'
    BY <2>1, <2>2, <2>3 DEF Knows, OnlyOf, Phases, locals
  <2> QED
    BY <2>1, <2>4, WorkerStep
<1> QED
  BY <1>1, <1>2 DEF CheckStream

LEMMA ReadPieceTracked ==
    ASSUME Tracked, TypeOK', NEW w \in Workers, ReadPiece(w)
    PROVE  Tracked'
<1>1. /\ OnlyOf(w)
      /\ read'[w] = read[w] \cup {stamp[stream[w]]}
      /\ UNCHANGED <<pc, unit, version, stream>>
  BY DEF ReadPiece, OnlyOf, Tracked, TypeOK, folders
<1>2. Knows(w) /\ pc[w] = "reading" /\ stream[w] \in Files
  BY HandyType DEF ReadPiece, Tracked
<1>3. \A f \in Files : stamp[f] = version[w] => f = stream[w] /\ read'[w] \subseteq {version[w]}
  BY <1>1, <1>2 DEF Knows
<1>4. Knows(w)'
  BY <1>1, <1>2, <1>3 DEF Knows, OnlyOf, Phases
<1> QED
  BY <1>1, <1>4, WorkerStep

\* A run that has read one content only has handled it.
LEMMA EndReadTracked ==
    ASSUME Tracked, TypeOK', NEW w \in Workers, EndRead(w)
    PROVE  Tracked'
<1> DEFINE all == read[w] \cup {stamp[stream[w]]}
<1>1. /\ OnlyOf(w)
      /\ pc'[w] = "moving" /\ read'[w] = all
      /\ UNCHANGED <<unit, version, stream>>
      /\ handled' = IF Cardinality(all) = 1 THEN handled \cup all ELSE handled
  BY DEF EndRead, Goto, OnlyOf, Tracked, TypeOK, folders
<1>2. Knows(w) /\ pc[w] = "reading" /\ stream[w] \in Files
  BY HandyType DEF EndRead, Tracked
<1>3. \A f \in Files : stamp[f] = version[w] => f = stream[w] /\ read'[w] \subseteq {version[w]}
  BY <1>1, <1>2 DEF Knows
<1>4. \A s \in Stamps : read'[w] = {s} => s \in handled'
  <2> SUFFICES ASSUME NEW s \in Stamps, all = {s}
               PROVE  s \in handled'
    BY <1>1
  <2>1. Cardinality(all) = 1
    BY FS_Singleton
  <2> QED
    BY <1>1, <2>1
<1>5. Knows(w)'
  BY <1>1, <1>2, <1>3, <1>4 DEF Knows, OnlyOf, Phases
<1> QED
  BY <1>1, <1>5, WorkerStep

\* The file at the path has the listed version: it is the one that was read.
LEMMA CheckMoveTracked ==
    ASSUME Tracked, TypeOK', NEW w \in Workers, CheckMove(w)
    PROVE  Tracked'
<1>1. CASE End(w)
  BY <1>1, EndTracked DEF CheckMove, folders
<1>2. CASE /\ AtPath(w, version[w])
           /\ checked' = [checked EXCEPT ![w] = clock]
           /\ Goto(w, "renaming")
           /\ UNCHANGED <<unit, version, stream, read>>
  <2>1. /\ OnlyOf(w)
        /\ pc'[w] = "renaming" /\ checked'[w] = clock
        /\ UNCHANGED <<landing, handled>>
    BY <1>2 DEF CheckMove, Goto, OnlyOf, Tracked, TypeOK, folders
  <2>2. Knows(w) /\ pc[w] = "moving" /\ unit[w] \in Names /\ version[w] \in Stamps
    BY HandyType DEF CheckMove, Tracked
  <2>3. landing[unit[w]] \in Files /\ stamp[landing[unit[w]]] = version[w]
    BY <1>2, <2>2 DEF AtPath, Tracked, TypeOK
  <2>4. read[w] = {version[w]} /\ version[w] \in handled
    BY <2>2, <2>3 DEF Knows
  <2>5. clock <= clock
    BY ChangesAssumption DEF Tracked, TypeOK, Stamps
  <2>6. Knows(w)'
    BY <1>2, <2>1, <2>2, <2>3, <2>4, <2>5 DEF Knows, OnlyOf, Phases
  <2> QED
    BY <2>1, <2>6, WorkerStep
<1> QED
  BY <1>1, <1>2 DEF CheckMove

LEMMA RenameTracked ==
    ASSUME Tracked, TypeOK', NEW w \in Workers, Rename(w)
    PROVE  Tracked'
<1>1. \A n \in Names : landing'[n] = landing[n] \/ landing'[n] = NoFile
  BY DEF Rename, Tracked, TypeOK
<1> QED
  BY <1>1, EndTracked DEF Rename

LEMMA TrackedStep == Tracked /\ [Next]_vars => Tracked'
<1> SUFFICES ASSUME Tracked, [Next]_vars
             PROVE  Tracked'
  OBVIOUS
<1>1. TypeOK'
  BY TypeStep
<1>2. CASE UNCHANGED vars
  BY <1>1, <1>2 DEF vars, Tracked, StampsUnique, Knows
<1>3. CASE Produce
  BY <1>1, <1>3, StartWriteTracked, ReplaceTracked, EndWriteTracked DEF Produce
<1>4. ASSUME NEW w \in Workers, Work(w) \/ ReadPiece(w) \/ Stop(w)
      PROVE  Tracked'
  <2>1. CASE Stop(w)
    BY <1>1, <2>1, EndTracked DEF Stop, folders
  <2> QED
    BY <1>1, <1>4, <2>1, ListTracked, OpenStreamTracked, CheckStreamTracked,
       ReadPieceTracked, EndReadTracked, CheckMoveTracked, RenameTracked DEF Work
<1> QED
  BY <1>2, <1>3, <1>4 DEF Next

-----------------------------------------------------------------------------
(* The theorems. *)

\* The inductive invariant, and with it the types.
THEOREM TrackedAlways == Spec => []Tracked
  BY TrackedInit, TrackedStep, PTL DEF Spec

\* An object is moved only after all of that version, and nothing else, has been
\* read.
THEOREM OnlyReadIsMoved == Spec => []CheckedIsRead
<1>1. Tracked => CheckedIsRead
  BY DEF Tracked, Knows, CheckedIsRead
<1> QED
  BY <1>1, TrackedAlways, PTL

\* A file moves to processed only if its content has been handled, or if it was
\* written after the check of the move.
THEOREM OnlyLateWritesAreLost == Spec => LostOnlyToLateWrites
<1>1. Tracked /\ [Next]_vars => [MovesHandled]_vars
  <2> SUFFICES ASSUME Tracked, Next
               PROVE  MovesHandled
    OBVIOUS
  <2>1. CASE processed' = processed
    BY <2>1 DEF MovesHandled
  <2>2. ASSUME NEW w \in Workers, Rename(w)
        PROVE  MovesHandled
    <3>1. /\ pc[w] = "renaming" /\ unit[w] \in Names
          /\ Knows(w)
      BY <2>2 DEF Rename, Tracked, Knows, Phases
    <3> SUFFICES ASSUME NEW n \in Names, processed'[n] # processed[n]
                 PROVE  \/ stamp[processed'[n]] \in handled
                        \/ stamp[processed'[n]] > checked[w] /\ unit[w] = n
      BY <2>2, <3>1 DEF MovesHandled
    <3>2. /\ n = unit[w]
          /\ landing[n] # NoFile
          /\ processed'[n] = landing[n]
      BY <2>2 DEF Rename, Tracked, TypeOK
    <3> QED
      BY <3>1, <3>2 DEF Knows
  <2> QED
    BY <2>1, <2>2 DEF Next, Produce, StartWrite, EndWrite, Replace, Work, List,
       OpenStream, CheckStream, ReadPiece, EndRead, CheckMove, Stop, folders
<1> QED
  BY <1>1, TrackedAlways, PTL DEF Spec, LostOnlyToLateWrites
=============================================================================
