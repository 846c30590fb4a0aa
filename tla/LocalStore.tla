----------------------------- MODULE LocalStore -----------------------------
(***************************************************************************)
(* The local folder backend: files that are written in place or replaced   *)
(* while the CSV job lists, reads and moves them.                          *)
(*                                                                         *)
(* A path leads to a file, and an open file stays what it is when its path *)
(* is renamed or taken by another.  A file's content is named by the stamp *)
(* of its last change; the version that the store derives from its size    *)
(* and mtime is the same stamp, on the assumption that every change gets a *)
(* new one.                                                                *)
(***************************************************************************)
EXTENDS Integers, FiniteSets

CONSTANTS
    Workers,    \* invocations of run_csv_job
    Names,      \* object names
    MaxChanges, \* bound: changes that are made to files
    MaxStops,   \* bound: invocations that stop halfway
    NoFile,     \* nothing at this path
    NoName      \* the invocation has no object at hand

ASSUME ChangesAssumption == MaxChanges \in Nat
ASSUME StopsAssumption   == MaxStops \in Nat
ASSUME NoFileAssumption  == NoFile \notin 1 .. MaxChanges
ASSUME NoNameAssumption  == NoName \notin Names

\* A file is named by the stamp of its creation.
Files  == 1 .. MaxChanges
Stamps == 0 .. MaxChanges

VARIABLES
    landing,   \* [Names -> the file at the path, or NoFile]
    processed, \* [Names -> the file at the path, or NoFile]
    stamp,     \* [Files -> stamp of the last change, 0 before the creation]
    writing,   \* files that a producer has open and has not finished
    clock,     \* the last stamp
    completed, \* <<name, version>> of completed runs
    pc,        \* [Workers -> where the invocation is]
    unit,      \* [Workers -> name of the object at hand]
    version,   \* [Workers -> its version when it was listed]
    stream,    \* [Workers -> the file that is open, or NoFile]
    read,      \* [Workers -> stamps of the pieces read so far]
    checked,   \* [Workers -> history: the clock at the check of move]
    handled,   \* history: stamps of contents that one run has read alone
    stops      \* stops that may still happen

vars == <<landing, processed, stamp, writing, clock, completed, pc, unit,
          version, stream, read, checked, handled, stops>>
folders == <<landing, processed, stamp, writing, clock>>
locals  == <<unit, version, stream, read, checked>>

Phases == {"idle", "listed", "opened", "reading", "moving", "renaming"}

TypeOK ==
    /\ landing \in [Names -> Files \cup {NoFile}]
    /\ processed \in [Names -> Files \cup {NoFile}]
    /\ stamp \in [Files -> Stamps]
    /\ writing \subseteq Files
    /\ clock \in Stamps
    /\ completed \subseteq Names \X Stamps
    /\ pc \in [Workers -> Phases]
    /\ unit \in [Workers -> Names \cup {NoName}]
    /\ version \in [Workers -> Stamps]
    /\ stream \in [Workers -> Files \cup {NoFile}]
    /\ read \in [Workers -> SUBSET Stamps]
    /\ checked \in [Workers -> Stamps]
    /\ handled \subseteq Stamps
    /\ stops \in 0 .. MaxStops

Init ==
    /\ landing = [n \in Names |-> NoFile]
    /\ processed = [n \in Names |-> NoFile]
    /\ stamp = [f \in Files |-> 0]
    /\ writing = {}
    /\ clock = 0
    /\ completed = {}
    /\ pc = [w \in Workers |-> "idle"]
    /\ unit = [w \in Workers |-> NoName]
    /\ version = [w \in Workers |-> 0]
    /\ stream = [w \in Workers |-> NoFile]
    /\ read = [w \in Workers |-> {}]
    /\ checked = [w \in Workers |-> 0]
    /\ handled = {}
    /\ stops = MaxStops

-----------------------------------------------------------------------------
(* Producers. *)

\* A change to file f gets a new stamp.
Change(f) ==
    /\ clock < MaxChanges
    /\ clock' = clock + 1
    /\ stamp' = [stamp EXCEPT ![f] = clock + 1]

\* path.write_bytes opens the path: a new file, or the one there is, truncated.
StartWrite(n) ==
    /\ LET new == landing[n] = NoFile
           f   == IF new THEN clock + 1 ELSE landing[n]
       IN  /\ f \notin writing
           /\ Change(f)
           /\ landing' = [landing EXCEPT ![n] = f]
           /\ writing' = writing \cup {f}
    /\ UNCHANGED <<processed, completed, pc, locals, handled, stops>>

\* The data is in the file, wherever its path has gone since.
EndWrite(f) ==
    /\ f \in writing
    /\ Change(f)
    /\ writing' = writing \ {f}
    /\ UNCHANGED <<landing, processed, completed, pc, locals, handled, stops>>

\* A producer puts a finished file in place of whatever is there.
Replace(n) ==
    /\ Change(clock + 1)
    /\ landing' = [landing EXCEPT ![n] = clock + 1]
    /\ UNCHANGED <<processed, writing, completed, pc, locals, handled, stops>>

-----------------------------------------------------------------------------
(* The job. *)

Goto(w, phase) == pc' = [pc EXCEPT ![w] = phase]

\* The invocation is over: its locals are dead.
End(w) ==
    /\ Goto(w, "idle")
    /\ unit' = [unit EXCEPT ![w] = NoName]
    /\ version' = [version EXCEPT ![w] = 0]
    /\ stream' = [stream EXCEPT ![w] = NoFile]
    /\ read' = [read EXCEPT ![w] = {}]
    /\ checked' = [checked EXCEPT ![w] = 0]

GoOn(w, phase) == Goto(w, phase) /\ UNCHANGED locals

\* (Mutant of List: a name is claimed once, whatever its version.)
ListOnce(w) ==
    /\ pc[w] = "idle"
    /\ \E n \in Names :
         /\ landing[n] # NoFile
         /\ \A v \in Stamps : <<n, v>> \notin completed
         /\ unit' = [unit EXCEPT ![w] = n]
         /\ version' = [version EXCEPT ![w] = stamp[landing[n]]]
    /\ Goto(w, "listed")
    /\ UNCHANGED <<folders, completed, stream, read, checked, handled, stops>>

\* list_objects, and a claim: the ledger has no completed run of this version.
List(w) ==
    /\ pc[w] = "idle"
    /\ \E n \in Names :
         /\ landing[n] # NoFile
         /\ <<n, stamp[landing[n]]>> \notin completed
         /\ unit' = [unit EXCEPT ![w] = n]
         /\ version' = [version EXCEPT ![w] = stamp[landing[n]]]
    /\ Goto(w, "listed")
    /\ UNCHANGED <<folders, completed, stream, read, checked, handled, stops>>

\* open_stream opens the path, or fails if nothing is there ...
OpenStream(w) ==
    /\ pc[w] = "listed"
    /\ IF landing[unit[w]] = NoFile THEN End(w)
       ELSE /\ stream' = [stream EXCEPT ![w] = landing[unit[w]]]
            /\ Goto(w, "opened")
            /\ UNCHANGED <<unit, version, read, checked>>
    /\ UNCHANGED <<folders, completed, handled, stops>>

\* ... and compares the version of the file it has open.
CheckStream(w) ==
    /\ pc[w] = "opened"
    /\ IF stamp[stream[w]] = version[w] THEN GoOn(w, "reading") ELSE End(w)
    /\ UNCHANGED <<folders, completed, handled, stops>>

\* A buffer is read, as the file is now.
ReadPiece(w) ==
    /\ pc[w] = "reading"
    /\ read' = [read EXCEPT ![w] = @ \cup {stamp[stream[w]]}]
    /\ UNCHANGED <<folders, completed, pc, unit, version, stream, checked, handled, stops>>

\* The last buffer; its rows are persisted and the run is completed.
EndRead(w) ==
    /\ pc[w] = "reading"
    /\ LET all == read[w] \cup {stamp[stream[w]]}
       IN  /\ read' = [read EXCEPT ![w] = all]
           /\ handled' = IF Cardinality(all) = 1 THEN handled \cup all ELSE handled
    /\ completed' = completed \cup {<<unit[w], version[w]>>}
    /\ Goto(w, "moving")
    /\ UNCHANGED <<folders, unit, version, stream, checked, stops>>

AtPath(w, v) == landing[unit[w]] # NoFile /\ stamp[landing[unit[w]]] = v

\* (Mutants of CheckMove: _archive passes no version; the version is taken from
\* the file that was read.)
MoveUnchecked(w) ==
    /\ pc[w] = "moving"
    /\ IF landing[unit[w]] # NoFile
       THEN /\ checked' = [checked EXCEPT ![w] = clock]
            /\ Goto(w, "renaming")
            /\ UNCHANGED <<unit, version, stream, read>>
       ELSE End(w)
    /\ UNCHANGED <<folders, completed, handled, stops>>
MoveByStream(w) ==
    /\ pc[w] = "moving"
    /\ IF stamp[stream[w]] = version[w]
       THEN /\ checked' = [checked EXCEPT ![w] = clock]
            /\ Goto(w, "renaming")
            /\ UNCHANGED <<unit, version, stream, read>>
       ELSE End(w)
    /\ UNCHANGED <<folders, completed, handled, stops>>

\* move looks at the path: the archiving is given up when the file is gone or
\* is not the version that was listed.
CheckMove(w) ==
    /\ pc[w] = "moving"
    /\ IF AtPath(w, version[w])
       THEN /\ checked' = [checked EXCEPT ![w] = clock]
            /\ Goto(w, "renaming")
            /\ UNCHANGED <<unit, version, stream, read>>
       ELSE End(w)
    /\ UNCHANGED <<folders, completed, handled, stops>>

\* shutil.move renames whatever is at the path by then.
Rename(w) ==
    /\ pc[w] = "renaming"
    /\ IF landing[unit[w]] = NoFile THEN UNCHANGED <<landing, processed>>
       ELSE /\ processed' = [processed EXCEPT ![unit[w]] = landing[unit[w]]]
            /\ landing' = [landing EXCEPT ![unit[w]] = NoFile]
    /\ End(w)
    /\ UNCHANGED <<stamp, writing, clock, completed, handled, stops>>

\* The invocation fails or is killed.
Stop(w) ==
    /\ pc[w] # "idle"
    /\ stops > 0
    /\ stops' = stops - 1
    /\ End(w)
    /\ UNCHANGED <<folders, completed, handled>>

Work(w) ==
    \/ List(w) \/ OpenStream(w) \/ CheckStream(w) \/ EndRead(w)
    \/ CheckMove(w) \/ Rename(w)

Produce ==
    \/ \E n \in Names : StartWrite(n) \/ Replace(n)
    \/ \E f \in Files : EndWrite(f)

Next == Produce \/ \E w \in Workers : Work(w) \/ ReadPiece(w) \/ Stop(w)

Spec == Init /\ [][Next]_vars

\* The job is run again and again, and an invocation goes on to its end.
FairSpec == Spec /\ \A w \in Workers : WF_vars(Work(w))

-----------------------------------------------------------------------------
(* Properties. *)

\* An object is moved only after all of the version that is being moved has
\* been read, and nothing else: no mixture of two contents, no other file that
\* had the path for a while (src/docs/ARCHITECTURE.md:131).
CheckedIsRead == \A w \in Workers : pc[w] = "renaming" => read[w] = {version[w]}

\* A content gets into processed only if a run has read it, or if it was written
\* after the check that let the move go ahead (src/docs/LEARNINGS.md:90).
MovesHandled ==
    \A n \in Names : processed'[n] # processed[n] =>
        \/ stamp[processed'[n]] \in handled
        \/ \E w \in Workers : /\ pc[w] = "renaming" /\ unit[w] = n
                              /\ stamp[processed'[n]] > checked[w]
LostOnlyToLateWrites == [][MovesHandled]_vars

\* The last content of a file that stays in landing is read as a whole, even if
\* runs of earlier versions were completed on contents they only partly saw.
Handled(n) == landing[n] # NoFile /\ stamp[landing[n]] \in handled
LandedFileIsHandled ==
    \A n \in Names : <>[](landing[n] # NoFile) => <>[]Handled(n)

\* Why they hold: stamps tell contents apart, so that the one file that could
\* still have the listed version is the file the run has open, and then it has
\* had it all the time.
StampsUnique ==
    /\ \A f \in Files : stamp[f] <= clock /\ (f > clock => stamp[f] = 0)
    /\ \A f, g \in Files : stamp[f] = stamp[g] /\ stamp[f] > 0 => f = g
    /\ \A n \in Names : landing[n] # NoFile => stamp[landing[n]] > 0
    /\ \A f \in writing : stamp[f] > 0

Knows(w) ==
    LET in(phases) == pc[w] \in phases
        v == version[w]
    IN  /\ in(Phases \ {"idle"}) => unit[w] \in Names /\ v \in 1 .. clock
        /\ in({"idle", "listed", "opened"}) => read[w] = {}
        /\ in({"opened", "reading", "moving"}) =>
               stream[w] # NoFile /\ stamp[stream[w]] > 0
        /\ in({"reading", "moving"}) =>
               \A f \in Files : stamp[f] = v => f = stream[w] /\ read[w] \subseteq {v}
        /\ in({"moving"}) => read[w] # {} /\ \A s \in Stamps : read[w] = {s} => s \in handled
        /\ in({"renaming"}) =>
               /\ read[w] = {v} /\ v \in handled
               /\ checked[w] <= clock
               /\ \/ landing[unit[w]] = NoFile
                  \/ stamp[landing[unit[w]]] = v
                  \/ stamp[landing[unit[w]]] > checked[w]

Tracked == TypeOK /\ StampsUnique /\ \A w \in Workers : Knows(w)
=============================================================================
