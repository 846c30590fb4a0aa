---------------------------- MODULE ApiSyncProofs ---------------------------
(***************************************************************************)
(* Theorems about ApiSync for every set of workers and students, every     *)
(* page size and any number of changes and faults, on the conditions that  *)
(* the vendor dates a record with its change and leaves its data alone     *)
(* while a sync pages through it.                                          *)
(***************************************************************************)
EXTENDS ApiSync, NumberLemmas

-----------------------------------------------------------------------------
(* Facts about the operators of the model. *)

\* Max of a finite set of numbers that is not empty.
LEMMA MaxIs ==
    ASSUME NEW S \in SUBSET Nat, IsFiniteSet(S), S # {}
    PROVE  Max(S) \in S /\ \A x \in S : x <= Max(S)
<1>1. \E x \in S : \A y \in S : x >= y
  BY GreatestNumber
<1> QED
  BY <1>1 DEF Max

\* The dates of some records, and one number besides.
LEMMA MaxOfDates ==
    ASSUME NEW a \in Nat, NEW S \in SUBSET Record, IsFiniteSet(S)
    PROVE  LET m == Max({a} \cup {r.at : r \in S})
           IN  /\ m \in Nat /\ a <= m
               /\ m = a \/ \E r \in S : m = r.at
               /\ \A r \in S : r.at <= m
<1> DEFINE T == {r.at : r \in S}
           f == [r \in S |-> r.at]
<1>1. IsFiniteSet({f[r] : r \in S})
  BY FiniteImage
<1>2. {f[r] : r \in S} = T
  OBVIOUS
<1>3. T \subseteq Nat
  BY DEF Record
<1>4. IsFiniteSet({a} \cup T)
  BY <1>1, <1>2, FS_AddElement
<1> HIDE DEF T
<1>5. Max({a} \cup T) \in {a} \cup T /\ \A x \in {a} \cup T : x <= Max({a} \cup T)
  BY <1>3, <1>4, MaxIs
<1> QED
  BY <1>3, <1>5 DEF T

LEMMA MaxOfTwo ==
    ASSUME NEW a \in Nat, NEW b \in Nat
    PROVE  /\ Max({a, b}) \in {a, b}
           /\ a <= Max({a, b}) /\ b <= Max({a, b})
<1>1. IsFiniteSet({a, b})
  <2>1. {a, b} = {a} \cup {b}
    OBVIOUS
  <2>2. IsFiniteSet({a})
    BY FS_Singleton
  <2> QED
    BY <2>1, <2>2, FS_AddElement
<1> QED
  BY <1>1, MaxIs

\* The set of records that a listing selects from.
IsList(S) ==
    /\ S \subseteq Record /\ IsFiniteSet(S)
    /\ \A r, s \in S : r.id = s.id => r = s

LEMMA OffsetType ==
    ASSUME NEW S, IsList(S), NEW r \in S
    PROVE  /\ Offset(r, S) \in Nat
           /\ Offset(r, S) < Cardinality(S)
<1> DEFINE before == {s \in S : s.id < r.id}
<1>1. IsFiniteSet(S \ {r}) /\ Cardinality(S \ {r}) = Cardinality(S) - 1
  BY FS_RemoveElement DEF IsList
<1>2. before \in SUBSET (S \ {r})
  <2>1. r \in Record
    BY DEF IsList
  <2>2. r.id \in Nat
    BY <2>1, IdsAssumption DEF Record
  <2>3. ~ (r.id < r.id)
    BY <2>2
  <2> QED
    BY <2>3
<1>3. IsFiniteSet(before) /\ Cardinality(before) <= Cardinality(S) - 1
  BY <1>1, <1>2, FS_Subset
<1>4. Cardinality(before) \in Nat /\ Cardinality(S) \in Nat
  BY <1>3, FS_CardinalityType DEF IsList
<1> QED
  BY <1>3, <1>4 DEF Offset

\* Offsets leave no gap: up to the largest one, every offset occurs.
LEMMA OffsetsDense ==
    ASSUME NEW S, IsList(S), NEW n \in Nat, NEW r \in S, Offset(r, S) >= n
    PROVE  \E s \in S : Offset(s, S) = n
<1> DEFINE late == {s \in S : Offset(s, S) >= n}
           ids == {s.id : s \in late}
<1>1. \A s \in S : s.id \in Nat /\ Offset(s, S) \in Nat
  BY IdsAssumption, OffsetType DEF IsList, Record
<1>2. PICK s \in late : \A t \in late : s.id <= t.id
  <2>1. ids \in SUBSET Nat /\ ids # {}
    BY <1>1
  <2>2. \E x \in ids : \A y \in ids : x <= y
    <3> HIDE DEF ids
    <3> QED
      BY <2>1, LeastNumber
  <2> QED
    BY <2>2
<1> DEFINE before == {t \in S : t.id < s.id}
<1> SUFFICES ASSUME Offset(s, S) > n
             PROVE  FALSE
  BY <1>1
<1>3. IsFiniteSet(before) /\ Cardinality(before) = Offset(s, S) /\ before # {}
  <2>1. IsFiniteSet(before)
    BY FS_Subset DEF IsList
  <2>2. Cardinality(before) = Offset(s, S)
    BY DEF Offset
  <2> QED
    BY <1>1, <2>1, <2>2, FS_EmptySet
<1>4. PICK b \in before : \A t \in before : t.id <= b.id
  <2> DEFINE names == {t.id : t \in before}
  <2>1. names \in SUBSET Nat /\ names # {} /\ \A x \in names : x <= s.id
    BY <1>1, <1>3
  <2>2. IsFiniteSet(names)
    <3> HIDE DEF names
    <3> QED
      BY <1>1, <2>1, FS_BoundedSetOfNaturals
  <2>3. \E x \in names : \A y \in names : x >= y
    <3> HIDE DEF names
    <3> QED
      BY <2>1, <2>2, GreatestNumber
  <2> QED
    BY <1>1, <2>3
<1>5. {t \in S : t.id < b.id} = before \ {b}
  BY <1>1, <1>4 DEF IsList
<1>6. Offset(b, S) = Offset(s, S) - 1
  BY <1>3, <1>4, <1>5, FS_RemoveElement DEF Offset
<1>7. b \in late
  BY <1>1, <1>4, <1>6
<1> QED
  BY <1>1, <1>2, <1>4, <1>7

\* What a request selects from are the vendor's records that are not old.
LEMMA ListedIsList ==
    ASSUME TypeOK, NEW w \in Workers
    PROVE  /\ IsList(Listed(w))
           /\ \A i \in Ids : vendor[i] \in Listed(w) <=> ~ Old(w, i)
           /\ \A r \in Listed(w) : \E i \in Ids : r = vendor[i]
<1>1. vendor \in [Ids -> Record] /\ \A i \in Ids : vendor[i].id = i
  BY DEF TypeOK
<1>2. IsFiniteSet({vendor[i] : i \in Ids})
  BY <1>1, IdsAssumption, FiniteImage
<1>3. IsFiniteSet(Listed(w))
  BY <1>2, FS_Subset DEF Listed
<1>4. since[w] \in Nat /\ \A i \in Ids : vendor[i].at \in Nat
  BY <1>1 DEF TypeOK, Record
<1> QED
  BY <1>1, <1>3, <1>4 DEF IsList, Listed, Old

\* A page has the records with the offsets of the page.
LEMMA PageIs ==
    ASSUME TypeOK, NEW w \in Workers, NEW l \in Nat
    PROVE  /\ Page(w, l + 1) \subseteq Listed(w) /\ IsFiniteSet(Page(w, l + 1))
           /\ \A r \in Listed(w) : r \in Page(w, l + 1) <=>
                  l * PageSize <= Offset(r, Listed(w))
                  /\ Offset(r, Listed(w)) < (l + 1) * PageSize
<1>1. IsList(Listed(w))
  BY ListedIsList
<1>2. Page(w, l + 1) = {r \in Listed(w) : Offset(r, Listed(w)) \div PageSize = l}
  BY DEF Page
<1>3. IsFiniteSet(Page(w, l + 1))
  BY <1>1, <1>2, FS_Subset DEF IsList
<1>4. \A r \in Listed(w) : Offset(r, Listed(w)) \in Nat
  BY <1>1, OffsetType
<1>5. \A a \in Nat : a \div PageSize = l <=> l * PageSize <= a /\ a < (l + 1) * PageSize
  BY ApiBoundsAssumption, Quotient
<1> QED
  BY <1>2, <1>3, <1>4, <1>5

\* What a request for page l + 1 gets of the records from that page on.
LEMMA PageCovers ==
    ASSUME TypeOK, NEW w \in Workers, NEW l \in Nat, NEW i \in Ids,
           ~ Old(w, i), Later(w, i, l)
    PROVE  /\ Page(w, l + 1) # {}
           /\ \/ vendor[i] \in Page(w, l + 1)
              \/ Later(w, i, l + 1) /\ Cardinality(Listed(w)) > (l + 1) * PageSize
<1> DEFINE S == Listed(w)
           o == Offset(vendor[i], S)
<1>1. vendor[i] \in S /\ IsList(S)
  BY ListedIsList
<1>2. o \in Nat /\ o < Cardinality(S) /\ Cardinality(S) \in Nat
  BY <1>1, OffsetType, FS_CardinalityType DEF IsList
<1>3. o >= l * PageSize
  BY DEF Later
<1>4. /\ PageSize \in Nat \ {0}
      /\ l * PageSize \in Nat /\ (l + 1) * PageSize \in Nat
      /\ l * PageSize < (l + 1) * PageSize
  BY ApiBoundsAssumption
<1>5. PICK s \in S : Offset(s, S) = l * PageSize
  BY <1>1, <1>3, <1>4, OffsetsDense
<1>6. s \in Page(w, l + 1)
  BY <1>4, <1>5, PageIs
<1>7. CASE o < (l + 1) * PageSize
  BY <1>1, <1>3, <1>6, <1>7, PageIs
<1>8. CASE o >= (l + 1) * PageSize
  BY <1>2, <1>4, <1>6, <1>8 DEF Later
<1> QED
  BY <1>2, <1>4, <1>7, <1>8

-----------------------------------------------------------------------------
(* Type correctness. *)

LEMMA PhaseNames ==
    Phases = {"idle", "claim", "fetch", "fetched", "persist", "advance", "complete",
              "recover"}
  BY DEF Phases

LEMMA ProgressType ==
    ASSUME NEW r \in Run, NEW k \in Nat, NEW m \in Nat, NEW n \in Nat
    PROVE  Progressed(r, k, m, n) \in Run
<1>1. r.read + m \in Nat /\ r.valid + n \in Nat
  BY DEF Run
<1>2. ASSUME NEW x \in Nat, NEW y \in Nat
      PROVE  [r EXCEPT !.last = k, !.read = x, !.valid = y] \in Run
  BY DEF Run
<1> QED
  BY <1>1, <1>2 DEF Progressed

LEMMA RunType ==
    ASSUME NEW r \in Run
    PROVE  /\ Completed(r) \in Run /\ Failed(r) \in Run
           /\ Completed(r).status = "completed" /\ Failed(r).status = "failed"
<1>1. Completed(r) \in Run /\ Failed(r) \in Run
  BY DEF Run, Status, Completed, Failed
<1>2. Completed(r).status = "completed" /\ Failed(r).status = "failed"
  BY DEF Run, Completed, Failed
<1> QED
  BY <1>1, <1>2

LEMMA NewRunType ==
    AbsentRun \in Run /\ NewRun \in Run /\ NewRun.status = "running" /\ NewRun.last = 0
  BY DEF Run, Status, AbsentRun, NewRun

LEMMA MergeType ==
    ASSUME TypeOK, NEW S \in SUBSET Record, IsFiniteSet(S), Merge(S)
    PROVE  /\ stored' \in [Ids -> Nat]
           /\ \A i \in Ids : stored[i] <= stored'[i]
           /\ \A r \in S : r.at <= stored'[r.id]
<1> DEFINE of(i) == {s \in S : s.id = i}
<1>1. ASSUME NEW i \in Ids
      PROVE  /\ stored'[i] \in Nat /\ stored[i] <= stored'[i]
             /\ \A r \in of(i) : r.at <= stored'[i]
  <2>1. of(i) \in SUBSET Record /\ IsFiniteSet(of(i)) /\ stored[i] \in Nat
    BY FS_Subset DEF TypeOK
  <2>2. stored'[i] = Max({stored[i]} \cup {r.at : r \in of(i)})
    BY DEF Merge
  <2> HIDE DEF of
  <2> QED
    BY <2>1, <2>2, MaxOfDates
<1>2. stored' = [i \in Ids |-> stored'[i]]
  BY DEF Merge
<1> QED
  BY <1>1, <1>2 DEF Record

LEMMA EndSyncType ==
    ASSUME TypeOK, NEW w \in Workers, EndSync(w)
    PROVE  /\ pc' \in [Workers -> Phases]
           /\ batch' \in [Workers -> SUBSET Record]
           /\ good' \in [Workers -> SUBSET Record]
           /\ more' \in [Workers -> BOOLEAN]
  BY PhaseNames DEF EndSync, Goto, TypeOK

LEMMA GotoType ==
    ASSUME TypeOK, NEW w \in Workers, NEW phase \in Phases, Goto(w, phase)
    PROVE  pc' \in [Workers -> Phases]
  BY DEF Goto, TypeOK

LEMMA TypeInit == Init => TypeOK
<1> SUFFICES ASSUME Init
             PROVE  TypeOK
  OBVIOUS
<1>1. clock \in 0 .. MaxClock /\ faults \in 0 .. MaxFaults
  BY ApiBoundsAssumption DEF Init
<1>2. vendor \in [Ids -> Record] /\ \A i \in Ids : vendor[i].id = i
  <2>1. \A i \in Ids : [id |-> i, at |-> 0, ok |-> TRUE] \in Record
    BY DEF Record
  <2> QED
    BY <2>1 DEF Init
<1>3. run \in [Workers -> Run]
  BY NewRunType DEF Init
<1>4. pc \in [Workers -> Phases]
  BY PhaseNames DEF Init
<1> QED
  BY <1>1, <1>2, <1>3, <1>4 DEF Init, TypeOK

LEMMA TypeStep == Synced /\ [Next]_vars => TypeOK'
<1> SUFFICES ASSUME Synced, [Next]_vars
             PROVE  TypeOK'
  OBVIOUS
<1>1. TypeOK /\ \A w \in Workers : Knows(w)
  BY DEF Synced
<1>2. CASE UNCHANGED vars
  BY <1>1, <1>2 DEF TypeOK, vars, shared, local, external
<1>3. CASE VendorUpdates
  <2>1. PICK S \in SUBSET Ids \ {{}}, d \in Ahead, ok \in BOOLEAN :
          vendor' = [i \in Ids |->
                      IF i \in S THEN [id |-> i, at |-> clock + 1 + d, ok |-> ok]
                      ELSE vendor[i]]
    BY <1>3 DEF VendorUpdates
  <2>2. clock \in Nat /\ d \in Nat /\ clock' \in 0 .. MaxClock
    BY <1>1, <1>3, ApiBoundsAssumption DEF VendorUpdates, TypeOK
  <2>3. \A i \in Ids : [id |-> i, at |-> clock + 1 + d, ok |-> ok] \in Record
    BY <2>2 DEF Record
  <2>4. vendor' \in [Ids -> Record] /\ \A i \in Ids : vendor'[i].id = i
    BY <1>1, <2>1, <2>3 DEF TypeOK
  <2> QED
    BY <1>1, <1>3, <2>2, <2>4 DEF VendorUpdates, TypeOK, shared, local
<1>4. ASSUME NEW w \in Workers, Work(w) \/ Interrupt(w) \/ Die(w)
      PROVE  TypeOK'
  <2> USE <1>1
  <2>1. CASE ReadWatermark(w)
    BY <2>1, PhaseNames DEF ReadWatermark, Goto, TypeOK, shared, external
  <2>2. CASE ClaimRun(w)
    BY <2>2, PhaseNames, NewRunType DEF ClaimRun, Goto, TypeOK, shared, external
  <2>3. CASE FetchPage(w)
    <3>1. run[w].last \in Nat
      BY DEF TypeOK, Run
    <3>2. Page(w, run[w].last + 1) \in SUBSET Record
      BY <3>1, PageIs, ListedIsList DEF IsList
    <3>3. (Cardinality(Listed(w)) > (run[w].last + 1) * PageSize) \in BOOLEAN
      OBVIOUS
    <3>4. batch' \in [Workers -> SUBSET Record] /\ more' \in [Workers -> BOOLEAN]
      BY <2>3, <3>2, <3>3 DEF FetchPage, TypeOK
    <3>5. pc' \in [Workers -> Phases]
      BY <2>3, PhaseNames, GotoType DEF FetchPage
    <3> QED
      BY <2>3, <3>4, <3>5 DEF FetchPage, TypeOK, shared, external
  <2>4. CASE QuarantinePage(w)
    <3>1. batch[w] \in SUBSET Record
      BY DEF TypeOK
    <3>2. /\ rejected' \in SUBSET Record
          /\ good' \in [Workers -> SUBSET Record]
          /\ pc' \in [Workers -> Phases]
      BY <2>4, <3>1, PhaseNames DEF QuarantinePage, Goto, TypeOK
    <3> QED
      BY <2>4, <3>2 DEF QuarantinePage, TypeOK, external
  <2>5. CASE PersistPage(w)
    <3>1. /\ IsFiniteSet(batch[w]) /\ good[w] \in SUBSET Record
          /\ IsFiniteSet(good[w]) /\ seen[w] \in Nat
      BY FS_Subset DEF TypeOK, Knows
    <3>2. stored' \in [Ids -> Nat]
      BY <2>5, <3>1, MergeType DEF PersistPage
    <3>3. Cardinality(batch[w]) \in Nat /\ Cardinality(good[w]) \in Nat
      BY <3>1, FS_CardinalityType
    <3>4. run[w] \in Run /\ run[w].last + 1 \in Nat
      BY DEF TypeOK, Run
    <3>5. run' \in [Workers -> Run]
      BY <2>5, <3>3, <3>4, ProgressType DEF PersistPage, TypeOK
    <3>6. seen' \in [Workers -> Nat]
      BY <2>5, <3>1, MaxOfDates DEF PersistPage, TypeOK
    <3>7. pc' \in [Workers -> Phases]
      BY <2>5, PhaseNames, GotoType DEF PersistPage
    <3> QED
      BY <2>5, <3>2, <3>5, <3>6, <3>7 DEF PersistPage, TypeOK, external
  <2>6. CASE AdvanceWatermark(w)
    <3>1. watermark' \in Nat
      BY <2>6, MaxOfTwo DEF AdvanceWatermark, TypeOK
    <3> QED
      BY <2>6, <3>1, PhaseNames DEF AdvanceWatermark, Goto, TypeOK, external
  <2>7. CASE CompleteRun(w)
    BY <2>7, EndSyncType, RunType DEF CompleteRun, TypeOK, shared, external
  <2>8. CASE FailRun(w)
    BY <2>8, EndSyncType, RunType DEF FailRun, TypeOK, shared, external
  <2>9. CASE Interrupt(w)
    <3>1. faults' \in 0 .. MaxFaults
      BY <2>9, ApiBoundsAssumption DEF Interrupt, TypeOK
    <3> QED
      BY <2>9, <3>1, PhaseNames DEF Interrupt, Goto, TypeOK, shared, external
  <2>10. CASE Die(w)
    <3>1. faults' \in 0 .. MaxFaults
      BY <2>10, ApiBoundsAssumption DEF Die, TypeOK
    <3> QED
      BY <2>10, <3>1, EndSyncType DEF Die, TypeOK, shared, external
  <2> QED
    BY <1>4, <2>1, <2>2, <2>3, <2>4, <2>5, <2>6, <2>7, <2>8, <2>9, <2>10 DEF Work
<1> QED
  BY <1>2, <1>3, <1>4 DEF Next

-----------------------------------------------------------------------------
(* The inductive invariant, when the vendor dates a record with its change *)
(* and changes nothing while a sync pages through its list.                *)

Calm == ~ Drift /\ Ahead = {0}

LEMMA SyncedInit == Init => Synced
<1> SUFFICES ASSUME Init
             PROVE  Synced
  OBVIOUS
<1>1. TypeOK
  BY TypeInit
<1>2. \A i \in Ids : vendor[i].at <= clock /\ vendor[i].at = 0 /\ Ingested(i)
  BY DEF Init, Ingested
<1>3. \A w \in Workers : Knows(w)
  <2>1. IsFiniteSet({})
    BY FS_EmptySet
  <2>2. AbsentRun.status # "completed"
    BY DEF AbsentRun
  <2> QED
    BY <2>1, <2>2 DEF Init, Knows
<1>4. CompletedSyncsNotRepeated
  BY DEF Init, CompletedSyncsNotRepeated
<1> QED
  BY <1>1, <1>2, <1>3, <1>4 DEF Init, Synced, NothingSkipped

\* A change of the vendor is newer than what any sync has seen, and no sync has
\* a further page to ask for.
LEMMA VendorSynced ==
    ASSUME Calm, Synced, TypeOK', VendorUpdates
    PROVE  Synced'
<1>1. PICK S \in SUBSET Ids, d \in Ahead, ok \in BOOLEAN :
          vendor' = [i \in Ids |->
                      IF i \in S THEN [id |-> i, at |-> clock + 1 + d, ok |-> ok]
                      ELSE vendor[i]]
  BY DEF VendorUpdates
<1>2. clock \in Nat /\ clock' = clock + 1 /\ d = 0 /\ \A w \in Workers : ~ Paging(w)
  BY <1>1 DEF VendorUpdates, Synced, TypeOK, Calm
<1>3. TypeOK /\ watermark <= clock /\ watermark \in Nat
  BY DEF Synced, TypeOK
<1>4. /\ \A i \in Ids : vendor[i].at \in Nat /\ vendor[i].at <= clock
      /\ \A i \in Ids : \/ vendor'[i].at = clock + 1
                        \/ vendor'[i] = vendor[i]
  <2>1. \A i \in Ids : vendor[i].at \in Nat /\ vendor[i].at <= clock
    BY <1>3 DEF Synced, TypeOK, Record
  <2>2. \A i \in Ids : i \in S => vendor'[i].at = clock + 1
    BY <1>1, <1>2
  <2>3. \A i \in Ids : i \notin S => vendor'[i] = vendor[i]
    BY <1>1
  <2> QED
    BY <2>1, <2>2, <2>3
<1>5. UNCHANGED <<stored, rejected, watermark, pc, since, run, batch, more, good, seen>>
  BY DEF VendorUpdates, shared, local
<1>6. \A i \in Ids : vendor'[i].at <= clock'
  BY <1>2, <1>4
<1>7. ASSUME NEW w \in Workers
      PROVE  Knows(w)'
  <2>1. Knows(w) /\ since[w] \in Nat /\ seen[w] \in Nat
    BY DEF Synced, TypeOK
  <2>2. \A i \in Ids : vendor'[i] = vendor[i] =>
          (Old(w, i)' <=> Old(w, i)) /\ (Ingested(i)' <=> Ingested(i))
    BY <1>5 DEF Old, Ingested
  <2>3. \A i \in Ids : vendor'[i].at = clock + 1 => Newer(w, i)'
    <3>1. seen[w] <= clock /\ \A r \in batch[w] : r.at <= clock
      BY <2>1 DEF Knows
    <3>2. \A r \in batch[w] : r.at \in Nat
      BY <1>3 DEF TypeOK, Record
    <3> QED
      BY <1>2, <1>5, <2>1, <3>1, <3>2 DEF Newer
  <2>4. \A i \in Ids : vendor'[i] = vendor[i] => (Newer(w, i) => Newer(w, i)')
    BY <1>5 DEF Newer
  <2>5. ASSUME NEW i \in Ids
        PROVE  Later(w, i, 0)'
    <3>1. vendor' \in [Ids -> Record]
      BY DEF TypeOK
    <3>2. IsFiniteSet({vendor'[j] : j \in Ids})
      BY <3>1, IdsAssumption, FiniteImage
    <3>3. IsFiniteSet({r \in Listed(w)' : r.id < vendor'[i].id})
      BY <3>2, FS_Subset DEF Listed
    <3>4. Offset(vendor'[i], Listed(w)') \in Nat
      BY <3>3, FS_CardinalityType DEF Offset
    <3>5. 0 * PageSize = 0
      BY ApiBoundsAssumption
    <3> QED
      BY <3>4, <3>5 DEF Later
  <2>6. since'[w] <= watermark' /\ seen'[w] <= clock'
    BY <1>2, <1>5, <2>1 DEF Knows
  <2>7. IsFiniteSet(batch'[w]) /\ \A r \in batch'[w] : r.at <= clock'
    <3>1. \A r \in batch[w] : r.at \in Nat /\ r.at <= clock
      BY <1>3, <2>1 DEF TypeOK, Record, Knows
    <3> QED
      BY <1>2, <1>5, <2>1, <3>1 DEF Knows
  <2>8. pc'[w] = "fetch" =>
          /\ run'[w].last = 0
          /\ batch'[w] = {} /\ good'[w] = {}
          /\ \A i \in Ids : Later(w, i, run[w].last)'
    BY <1>2, <1>5, <2>1, <2>5 DEF Knows, Paging
  <2>9. pc'[w] \in {"fetched", "persist"} =>
          /\ ~ more'[w]
          /\ \A i \in Ids : ~ Old(w, i)' /\ ~ Ingested(i)' =>
                vendor'[i] \in batch'[w] \/ Newer(w, i)'
    <3> SUFFICES ASSUME pc[w] \in {"fetched", "persist"}
                 PROVE  /\ ~ more[w]
                        /\ \A i \in Ids : ~ Old(w, i)' /\ ~ Ingested(i)' =>
                              vendor'[i] \in batch[w] \/ Newer(w, i)'
      BY <1>5
    <3>1. ~ more[w]
      BY <1>2 DEF Paging
    <3>2. \A i \in Ids : ~ Old(w, i) /\ ~ Ingested(i) =>
              vendor[i] \in batch[w] \/ Newer(w, i)
      BY <2>1, <3>1 DEF Knows
    <3> QED
      BY <1>4, <2>2, <2>3, <2>4, <3>1, <3>2
  <2>10. pc'[w] = "advance" =>
          \A i \in Ids : ~ Old(w, i)' /\ ~ Ingested(i)' => vendor'[i].at > seen'[w]
    <3> SUFFICES ASSUME pc[w] = "advance"
                 PROVE  \A i \in Ids : ~ Old(w, i)' /\ ~ Ingested(i)' =>
                            vendor'[i].at > seen[w]
      BY <1>5
    <3>1. \A i \in Ids : ~ Old(w, i) /\ ~ Ingested(i) => vendor[i].at > seen[w]
      BY <2>1 DEF Knows
    <3>2. \A i \in Ids : vendor'[i].at = clock + 1 => vendor'[i].at > seen[w]
      BY <1>5, <2>3 DEF Newer
    <3> QED
      BY <1>4, <2>2, <3>1, <3>2
  <2>11. /\ good'[w] \subseteq batch'[w]
         /\ pc'[w] \in {"idle", "claim"} =>
              ~ more'[w] /\ batch'[w] = {} /\ good'[w] = {}
         /\ pc'[w] = "persist" => batch'[w] \ good'[w] \subseteq rejected'
         /\ pc'[w] = "complete" => seen'[w] <= watermark'
         /\ run'[w].status = "completed" => pc'[w] \in {"idle", "claim"}
    BY <1>5, <2>1 DEF Knows
  <2> QED
    BY <2>6, <2>7, <2>8, <2>9, <2>10, <2>11 DEF Knows
<1>8. NothingSkipped'
  <2>1. \A i \in Ids : vendor'[i] = vendor[i] => (Ingested(i)' <=> Ingested(i))
    BY <1>5 DEF Ingested
  <2> QED
    BY <1>2, <1>3, <1>4, <1>5, <2>1 DEF NothingSkipped, Synced
<1>9. CompletedSyncsNotRepeated'
  BY <1>5 DEF CompletedSyncsNotRepeated, Synced
<1> QED
  BY <1>2, <1>3, <1>5, <1>6, <1>7, <1>8, <1>9 DEF Synced

\* What every step of a sync leaves to the others: the vendor is as it was, and
\* the table, the quarantine files and the watermark only grow.
Grown ==
    /\ vendor' = vendor /\ clock' = clock
    /\ \A i \in Ids : stored[i] <= stored'[i]
    /\ rejected \subseteq rejected'
    /\ watermark <= watermark'

Same(w) ==
    /\ pc'[w] = pc[w] /\ since'[w] = since[w] /\ run'[w] = run[w]
    /\ batch'[w] = batch[w] /\ more'[w] = more[w] /\ good'[w] = good[w]
    /\ seen'[w] = seen[w]

LEMMA GrownIngests ==
    ASSUME TypeOK, TypeOK', Grown
    PROVE  \A i \in Ids : Ingested(i) => Ingested(i)'
<1>1. \A i \in Ids : stored[i] \in Nat /\ stored'[i] \in Nat /\ vendor[i].at \in Nat
  BY DEF TypeOK, Record
<1> QED
  BY <1>1 DEF Grown, Ingested

\* A sync that asks from the same watermark gets the same list.
LEMMA SameList ==
    ASSUME Grown, NEW w \in Workers, since'[w] = since[w]
    PROVE  /\ Listed(w)' = Listed(w)
           /\ \A i \in Ids : Old(w, i)' <=> Old(w, i)
  BY DEF Grown, Listed, Old

LEMMA OthersKnow ==
    ASSUME TypeOK, TypeOK', Grown, NEW w \in Workers, Knows(w), Same(w)
    PROVE  Knows(w)'
<1>1. \A i \in Ids : Ingested(i) => Ingested(i)'
  BY GrownIngests
<1>2. Listed(w)' = Listed(w) /\ \A i \in Ids : Old(w, i)' <=> Old(w, i)
  BY SameList DEF Same
<1>3. \A i \in Ids : Newer(w, i) => Newer(w, i)'
  BY DEF Newer, Grown, Same
<1>4. \A i \in Ids : Later(w, i, run[w].last) => Later(w, i, run[w].last)'
  BY <1>2 DEF Later, Grown, Same
<1>5. \A i \in Ids : Later(w, i, run[w].last + 1) => Later(w, i, run[w].last + 1)'
  BY <1>2 DEF Later, Grown, Same
<1>6. /\ watermark \in Nat /\ watermark' \in Nat
      /\ since[w] \in Nat /\ seen[w] \in Nat /\ clock \in Nat
  BY ApiBoundsAssumption DEF TypeOK
<1>7. since'[w] <= watermark' /\ seen'[w] <= clock'
  BY <1>6 DEF Knows, Same, Grown
<1>8. /\ IsFiniteSet(batch'[w]) /\ (\A r \in batch'[w] : r.at <= clock')
      /\ good'[w] \subseteq batch'[w]
      /\ pc'[w] \in {"idle", "claim"} => ~ more'[w] /\ batch'[w] = {} /\ good'[w] = {}
      /\ pc'[w] = "persist" => batch'[w] \ good'[w] \subseteq rejected'
      /\ run'[w].status = "completed" => pc'[w] \in {"idle", "claim"}
  BY DEF Knows, Same, Grown
<1>9. pc'[w] = "complete" => seen'[w] <= watermark'
  BY <1>6 DEF Knows, Same, Grown
<1>10. pc'[w] = "fetch" =>
          /\ run'[w].last = 0 \/ more'[w]
          /\ batch'[w] = {} /\ good'[w] = {}
          /\ \A i \in Ids : ~ Old(w, i)' /\ ~ Ingested(i)' => Later(w, i, run[w].last)'
  BY <1>1, <1>2, <1>4 DEF Knows, Same
<1>11. pc'[w] \in {"fetched", "persist"} =>
          \A i \in Ids : ~ Old(w, i)' /\ ~ Ingested(i)' =>
             \/ vendor'[i] \in batch'[w]
             \/ IF more'[w] THEN Later(w, i, run[w].last + 1)' ELSE Newer(w, i)'
  BY <1>1, <1>2, <1>3, <1>5 DEF Knows, Same, Grown
<1>12. pc'[w] = "advance" =>
          \A i \in Ids : ~ Old(w, i)' /\ ~ Ingested(i)' => vendor'[i].at > seen'[w]
  BY <1>1, <1>2 DEF Knows, Same, Grown
<1> QED
  BY <1>7, <1>8, <1>9, <1>10, <1>11, <1>12 DEF Knows

\* So a step of a sync that keeps the watermark needs a proof about its own
\* progress only.
LEMMA StepSynced ==
    ASSUME Synced, TypeOK', Grown, NEW w \in Workers,
           \A v \in Workers \ {w} : Same(v),
           Knows(w)',
           run'[w].status = "completed" => seen'[w] <= watermark',
           watermark' <= clock', NothingSkipped'
    PROVE  Synced'
<1>1. TypeOK
  BY DEF Synced
<1>2. \A v \in Workers : Knows(v)'
  <2>1. ASSUME NEW v \in Workers, v # w
        PROVE  Knows(v)'
    BY <1>1, <2>1, OthersKnow DEF Synced
  <2> QED
    BY <2>1
<1>3. CompletedSyncsNotRepeated'
  <2>1. \A v \in Workers : seen[v] \in Nat /\ watermark \in Nat /\ watermark' \in Nat
    BY <1>1 DEF TypeOK
  <2>2. \A v \in Workers \ {w} : run'[v].status = "completed" => seen'[v] <= watermark'
    BY <2>1 DEF Synced, CompletedSyncsNotRepeated, Same, Grown
  <2> QED
    BY <2>2 DEF CompletedSyncsNotRepeated
<1> QED
  BY <1>2, <1>3 DEF Synced, Grown

\* A step that writes nothing the others read.
LEMMA QuietStep ==
    ASSUME Synced, TypeOK', UNCHANGED <<shared, external>>, NEW w \in Workers,
           \A v \in Workers \ {w} : Same(v),
           Knows(w)',
           run'[w].status = "completed" => seen'[w] <= watermark'
    PROVE  Synced'
<1>1. TypeOK /\ watermark \in Nat /\ \A i \in Ids : stored[i] \in Nat
  BY DEF Synced, TypeOK
<1>2. Grown
  BY <1>1 DEF Grown, shared, external
<1>3. NothingSkipped'
  BY DEF Synced, NothingSkipped, Ingested, shared, external
<1> QED
  BY <1>2, <1>3, StepSynced DEF Synced, shared, external

LEMMA ReadSynced ==
    ASSUME Synced, TypeOK', NEW w \in Workers, ReadWatermark(w)
    PROVE  Synced'
<1>1. Knows(w) /\ TypeOK /\ watermark \in Nat
  BY DEF Synced, TypeOK
<1>2. \A v \in Workers \ {w} : Same(v)
  BY <1>1 DEF ReadWatermark, Goto, Same, TypeOK
<1>3. Knows(w)'
  BY <1>1 DEF ReadWatermark, Goto, Knows, TypeOK, shared, external
<1>4. run'[w].status = "completed" => seen'[w] <= watermark'
  BY <1>1 DEF ReadWatermark, Synced, CompletedSyncsNotRepeated, shared
<1> QED
  BY <1>2, <1>3, <1>4, QuietStep DEF ReadWatermark

LEMMA ClaimSynced ==
    ASSUME Synced, TypeOK', NEW w \in Workers, ClaimRun(w)
    PROVE  Synced'
<1>1. Knows(w) /\ TypeOK
  BY DEF Synced
<1>2. \A v \in Workers \ {w} : Same(v)
  BY <1>1 DEF ClaimRun, Goto, Same, TypeOK
<1>3. /\ run'[w].status = "running" /\ run'[w].last = 0
      /\ pc'[w] = "fetch" /\ seen'[w] = 0 /\ clock \in Nat
  BY <1>1, NewRunType, ApiBoundsAssumption DEF ClaimRun, Goto, TypeOK
<1>4. \A i \in Ids : ~ Old(w, i)' => Later(w, i, 0)'
  <2>1. ASSUME NEW i \in Ids, ~ Old(w, i)
        PROVE  Later(w, i, 0)
    <3>1. Offset(vendor[i], Listed(w)) \in Nat
      BY <1>1, <2>1, ListedIsList, OffsetType
    <3>2. 0 * PageSize = 0
      BY ApiBoundsAssumption
    <3> QED
      BY <3>1, <3>2 DEF Later
  <2>2. /\ Listed(w)' = Listed(w)
        /\ \A i \in Ids : (Old(w, i)' <=> Old(w, i)) /\ (Later(w, i, 0)' <=> Later(w, i, 0))
    BY DEF ClaimRun, Listed, Old, Later, external
  <2> QED
    BY <2>1, <2>2
<1>5. Knows(w)'
  <2>1. \A i \in Ids : ~ Old(w, i)' => Later(w, i, run[w].last)'
    BY <1>3, <1>4
  <2>2. since'[w] <= watermark' /\ seen'[w] <= clock'
    BY <1>1, <1>3 DEF ClaimRun, Knows, shared, external
  <2>3. batch'[w] = {} /\ good'[w] = {} /\ IsFiniteSet(batch'[w])
    BY <1>1 DEF ClaimRun, Knows
  <2> QED
    BY <1>3, <2>1, <2>2, <2>3 DEF Knows
<1> QED
  BY <1>2, <1>3, <1>5, QuietStep DEF ClaimRun

\* A page has the records that are next in the listing; when it is empty or
\* the last one, nothing is left on later pages.
LEMMA FetchSynced ==
    ASSUME Synced, TypeOK', NEW w \in Workers, FetchPage(w)
    PROVE  Synced'
<1> DEFINE l == run[w].last
           page == Page(w, l + 1)
           further == Cardinality(Listed(w)) > (l + 1) * PageSize
<1>1. Knows(w) /\ TypeOK /\ l \in Nat /\ pc[w] = "fetch"
  BY DEF Synced, TypeOK, Run, FetchPage
<1>2. \A v \in Workers \ {w} : Same(v)
  BY <1>1 DEF FetchPage, Goto, Same, TypeOK
<1>3. /\ batch'[w] = page /\ more'[w] = further
      /\ pc'[w] = IF page = {} THEN "advance" ELSE "fetched"
      /\ good'[w] = {} /\ seen'[w] = seen[w] /\ since'[w] = since[w] /\ run'[w] = run[w]
  BY <1>1 DEF FetchPage, Goto, TypeOK, Knows
<1>4. UNCHANGED <<shared, external>>
  BY DEF FetchPage
<1> HIDE DEF page, further
<1>5. page \subseteq Listed(w) /\ IsFiniteSet(page)
  BY <1>1, PageIs DEF page
<1>6. ASSUME NEW i \in Ids, ~ Old(w, i), ~ Ingested(i)
      PROVE  /\ page # {}
             /\ vendor[i] \in page \/ (further /\ Later(w, i, l + 1))
  <2>1. Later(w, i, l)
    BY <1>1, <1>6 DEF Knows
  <2> QED
    BY <1>1, <1>6, <2>1, PageCovers DEF page, further
<1>7. \A r \in page : r.at <= clock
  BY <1>1, <1>5, ListedIsList DEF Synced
<1>8. /\ \A i \in Ids : Old(w, i)' <=> Old(w, i)
      /\ \A i \in Ids : Ingested(i)' <=> Ingested(i)
      /\ \A i \in Ids : Later(w, i, run[w].last + 1)' <=> Later(w, i, l + 1)
  BY <1>3, <1>4 DEF Old, Ingested, Later, Listed, shared, external
<1>9. run[w].status # "completed"
  BY <1>1 DEF Knows
<1>10. Knows(w)'
  <2>1. since'[w] <= watermark' /\ seen'[w] <= clock'
    BY <1>1, <1>3, <1>4 DEF Knows, shared, external
  <2>2. IsFiniteSet(batch'[w]) /\ \A r \in batch'[w] : r.at <= clock'
    BY <1>3, <1>4, <1>5, <1>7 DEF external
  <2>3. pc'[w] \in {"fetched", "advance"}
    BY <1>3
  <2>4. pc'[w] = "fetched" =>
          \A i \in Ids : ~ Old(w, i)' /\ ~ Ingested(i)' =>
             \/ vendor'[i] \in batch'[w]
             \/ IF more'[w] THEN Later(w, i, run[w].last + 1)' ELSE Newer(w, i)'
    BY <1>3, <1>4, <1>6, <1>8 DEF external
  <2>5. pc'[w] = "advance" => \A i \in Ids : Old(w, i)' \/ Ingested(i)'
    BY <1>3, <1>6, <1>8
  <2> QED
    BY <1>3, <1>9, <2>1, <2>2, <2>3, <2>4, <2>5 DEF Knows
<1> QED
  BY <1>2, <1>3, <1>4, <1>9, <1>10, QuietStep

LEMMA QuarantineSynced ==
    ASSUME Synced, TypeOK', NEW w \in Workers, QuarantinePage(w)
    PROVE  Synced'
<1> DEFINE valid == {r \in batch[w] : r.ok /\ r.at <= clock + Skew}
<1>1. Knows(w) /\ TypeOK /\ pc[w] = "fetched"
  BY DEF Synced, QuarantinePage
<1>2. \A v \in Workers \ {w} : Same(v)
  BY <1>1 DEF QuarantinePage, Goto, Same, TypeOK
<1>3. /\ good'[w] = valid /\ pc'[w] = "persist"
      /\ batch'[w] = batch[w] /\ more'[w] = more[w] /\ seen'[w] = seen[w]
      /\ since'[w] = since[w] /\ run'[w] = run[w]
      /\ rejected' = rejected \cup (batch[w] \ valid)
  BY <1>1 DEF QuarantinePage, Goto, TypeOK
<1> HIDE DEF valid
<1>4. /\ watermark \in Nat /\ \A i \in Ids : stored[i] \in Nat
      /\ watermark' = watermark /\ stored' = stored /\ vendor' = vendor /\ clock' = clock
  BY <1>1 DEF QuarantinePage, TypeOK, external
<1>5. Grown
  BY <1>3, <1>4 DEF Grown
<1>6. \A i \in Ids : Ingested(i) => Ingested(i)'
  BY <1>1, <1>5, GrownIngests
<1>7. /\ \A i \in Ids : Old(w, i)' <=> Old(w, i)
      /\ \A i \in Ids : Newer(w, i)' <=> Newer(w, i)
      /\ \A i \in Ids : Later(w, i, run[w].last + 1)' <=> Later(w, i, run[w].last + 1)
  BY <1>3, <1>4 DEF Old, Newer, Later, Listed
<1>8. run[w].status # "completed"
  BY <1>1 DEF Knows
<1>9. Knows(w)'
  <2>1. since'[w] <= watermark' /\ seen'[w] <= clock'
    BY <1>1, <1>3, <1>4 DEF Knows
  <2>2. IsFiniteSet(batch'[w]) /\ \A r \in batch'[w] : r.at <= clock'
    BY <1>1, <1>3, <1>4 DEF Knows
  <2>3. good'[w] \subseteq batch'[w] /\ batch'[w] \ good'[w] \subseteq rejected'
    BY <1>3 DEF valid
  <2>4. \A i \in Ids : ~ Old(w, i)' /\ ~ Ingested(i)' =>
             \/ vendor'[i] \in batch'[w]
             \/ IF more'[w] THEN Later(w, i, run[w].last + 1)' ELSE Newer(w, i)'
    BY <1>1, <1>3, <1>4, <1>6, <1>7 DEF Knows
  <2> QED
    BY <1>3, <1>8, <2>1, <2>2, <2>3, <2>4 DEF Knows
<1>10. NothingSkipped'
  BY <1>4, <1>6 DEF Synced, NothingSkipped
<1>11. watermark' <= clock'
  BY <1>4 DEF Synced
<1> QED
  BY <1>2, <1>3, <1>5, <1>8, <1>9, <1>10, <1>11, StepSynced

\* The page is ingested: its valid records are merged, the others are rejects.
LEMMA PersistSynced ==
    ASSUME Synced, TypeOK', NEW w \in Workers, PersistPage(w)
    PROVE  Synced'
<1> DEFINE dates == {seen[w]} \cup {r.at : r \in good[w]}
           read == Cardinality(batch[w])
           kept == Cardinality(good[w])
<1>1. Knows(w) /\ TypeOK /\ pc[w] = "persist"
  BY DEF Synced, PersistPage
<1>2. \A v \in Workers \ {w} : Same(v)
  BY <1>1 DEF PersistPage, Goto, Same, TypeOK
<1>3. /\ good[w] \in SUBSET Record /\ good[w] \subseteq batch[w]
      /\ IsFiniteSet(batch[w]) /\ IsFiniteSet(good[w])
      /\ run[w] \in Run /\ run[w].last \in Nat /\ seen[w] \in Nat
  BY <1>1, FS_Subset DEF TypeOK, Knows, Run
<1>4. /\ batch'[w] = {} /\ good'[w] = {} /\ more'[w] = more[w]
      /\ pc'[w] = IF more[w] THEN "fetch" ELSE "advance"
      /\ seen'[w] = Max(dates) /\ since'[w] = since[w]
      /\ run'[w] = Progressed(run[w], run[w].last + 1, read, kept)
      /\ rejected' = rejected /\ watermark' = watermark
      /\ vendor' = vendor /\ clock' = clock
  BY <1>1 DEF PersistPage, Goto, TypeOK, external
<1>5. run'[w].last = run[w].last + 1 /\ run'[w].status = run[w].status
  <2>1. read \in Nat /\ kept \in Nat
    BY <1>3, FS_CardinalityType
  <2>2. run[w] \in Run /\ run[w].last + 1 \in Nat
    BY <1>3
  <2>3. ASSUME NEW k \in Nat, NEW m \in Nat, NEW n \in Nat
        PROVE  /\ Progressed(run[w], k, m, n).last = k
               /\ Progressed(run[w], k, m, n).status = run[w].status
    BY <2>2 DEF Progressed, Run
  <2> HIDE DEF read, kept
  <2> QED
    BY <1>4, <2>1, <2>2, <2>3
<1>6. /\ \A i \in Ids : stored[i] <= stored'[i]
      /\ \A r \in good[w] : r.at <= stored'[r.id]
  BY <1>1, <1>3, MergeType DEF PersistPage
<1>7. Max(dates) = seen[w] \/ \E r \in good[w] : Max(dates) = r.at
  BY <1>3, MaxOfDates
<1> HIDE DEF dates, read, kept
<1>8. Grown
  BY <1>1, <1>4, <1>6 DEF Grown, TypeOK
<1>9. \A i \in Ids : Ingested(i) => Ingested(i)'
  BY <1>1, <1>8, GrownIngests
<1>10. \A i \in Ids : vendor[i] \in batch[w] => Ingested(i)'
  <2> SUFFICES ASSUME NEW i \in Ids, vendor[i] \in batch[w]
               PROVE  stored'[i] >= vendor[i].at \/ vendor[i] \in rejected
    BY <1>4 DEF Ingested
  <2>1. CASE vendor[i] \in good[w]
    <3>1. vendor[i].id = i /\ vendor[i].at \in Nat /\ stored'[i] \in Nat
      BY <1>1 DEF TypeOK, Record
    <3> QED
      BY <1>6, <2>1, <3>1
  <2>2. CASE vendor[i] \notin good[w]
    BY <1>1, <2>2 DEF Knows
  <2> QED
    BY <2>1, <2>2
<1>11. /\ \A i \in Ids : Old(w, i)' <=> Old(w, i)
       /\ \A i \in Ids : Later(w, i, run[w].last)' <=> Later(w, i, run[w].last + 1)
  BY <1>4, <1>5 DEF Old, Later, Listed
<1>12. run[w].status # "completed"
  BY <1>1 DEF Knows
<1>13. Knows(w)'
  <2>1. since'[w] <= watermark' /\ seen'[w] <= clock'
    BY <1>1, <1>3, <1>4, <1>7 DEF Knows
  <2>2. IsFiniteSet(batch'[w])
    BY <1>4, FS_EmptySet
  <2>3. \A i \in Ids : ~ Old(w, i)' /\ ~ Ingested(i)' =>
             IF more[w] THEN Later(w, i, run[w].last)' ELSE Newer(w, i)
    BY <1>1, <1>9, <1>10, <1>11 DEF Knows
  <2>4. \A i \in Ids : Newer(w, i) => vendor'[i].at > seen'[w]
    BY <1>3, <1>4, <1>7 DEF Newer
  <2>5. more[w] \in BOOLEAN
    BY <1>1 DEF TypeOK
  <2>6. pc'[w] = "fetch" =>
          more'[w] /\ \A i \in Ids : ~ Old(w, i)' /\ ~ Ingested(i)' => Later(w, i, run[w].last)'
    BY <1>4, <2>3, <2>5
  <2>7. pc'[w] = "advance" =>
          \A i \in Ids : ~ Old(w, i)' /\ ~ Ingested(i)' => vendor'[i].at > seen'[w]
    BY <1>4, <2>3, <2>4, <2>5
  <2>8. pc'[w] \in {"fetch", "advance"} /\ run'[w].status # "completed"
    BY <1>4, <1>5, <1>12
  <2> QED
    BY <1>4, <2>1, <2>2, <2>6, <2>7, <2>8 DEF Knows
<1>14. NothingSkipped'
  BY <1>4, <1>9 DEF Synced, NothingSkipped
<1>15. watermark' <= clock'
  BY <1>4 DEF Synced
<1> QED
  BY <1>2, <1>5, <1>8, <1>12, <1>13, <1>14, <1>15, StepSynced

\* Up to what a sync has seen, everything is ingested when it advances the
\* watermark.
LEMMA AdvanceSynced ==
    ASSUME Synced, TypeOK', NEW w \in Workers, AdvanceWatermark(w)
    PROVE  Synced'
<1>1. Knows(w) /\ TypeOK /\ pc[w] = "advance"
  BY DEF Synced, AdvanceWatermark
<1>2. \A v \in Workers \ {w} : Same(v)
  BY <1>1 DEF AdvanceWatermark, Goto, Same, TypeOK
<1>3. /\ pc'[w] = "complete" /\ seen'[w] = seen[w] /\ since'[w] = since[w]
      /\ run'[w] = run[w] /\ batch'[w] = batch[w] /\ good'[w] = good[w]
      /\ stored' = stored /\ rejected' = rejected
      /\ vendor' = vendor /\ clock' = clock
  BY <1>1 DEF AdvanceWatermark, Goto, TypeOK, external
<1>4. /\ watermark \in Nat /\ seen[w] \in Nat /\ since[w] \in Nat /\ clock \in Nat
      /\ \A i \in Ids : vendor[i].at \in Nat /\ stored[i] \in Nat
  BY <1>1, ApiBoundsAssumption DEF TypeOK, Record
<1>5. /\ watermark' \in {watermark, seen[w]}
      /\ watermark <= watermark' /\ seen[w] <= watermark'
  BY <1>4, MaxOfTwo DEF AdvanceWatermark
<1>6. watermark' <= clock' /\ since'[w] <= watermark' /\ seen'[w] <= clock'
  BY <1>1, <1>3, <1>4, <1>5 DEF Knows, Synced
<1>7. Grown
  BY <1>3, <1>4, <1>5 DEF Grown
<1>8. Knows(w)'
  <2>1. run[w].status # "completed"
    BY <1>1 DEF Knows
  <2>2. /\ IsFiniteSet(batch'[w]) /\ (\A r \in batch'[w] : r.at <= clock')
        /\ good'[w] \subseteq batch'[w]
    BY <1>1, <1>3 DEF Knows
  <2> QED
    BY <1>3, <1>5, <1>6, <2>1, <2>2 DEF Knows
<1>9. NothingSkipped'
  <2> SUFFICES ASSUME NEW i \in Ids, vendor[i].at <= watermark'
               PROVE  Ingested(i)
    BY <1>3 DEF NothingSkipped, Ingested
  <2>1. CASE vendor[i].at <= watermark
    BY <2>1 DEF Synced, NothingSkipped
  <2>2. CASE vendor[i].at <= seen[w]
    <3>1. Old(w, i) => vendor[i].at <= watermark
      BY <1>1, <1>4 DEF Old, Knows
    <3>2. ~ Old(w, i) /\ ~ Ingested(i) => vendor[i].at > seen[w]
      BY <1>1 DEF Knows
    <3> QED
      BY <1>4, <2>1, <2>2, <3>1, <3>2
  <2> QED
    BY <1>5, <2>1, <2>2
<1> QED
  BY <1>2, <1>3, <1>5, <1>6, <1>7, <1>8, <1>9, StepSynced

\* The end of a sync, with its row as it is or ended.
LEMMA EndSynced ==
    ASSUME Synced, TypeOK', NEW w \in Workers, EndSync(w),
           UNCHANGED <<shared, external, since, seen>>,
           \A v \in Workers \ {w} : run'[v] = run[v],
           run'[w].status = "completed" => seen[w] <= watermark
    PROVE  Synced'
<1>1. Knows(w) /\ TypeOK
  BY DEF Synced
<1>2. \A v \in Workers \ {w} : Same(v)
  BY <1>1 DEF EndSync, Goto, Same, TypeOK
<1>3. /\ pc'[w] = "idle" /\ ~ more'[w] /\ batch'[w] = {} /\ good'[w] = {}
  BY <1>1 DEF EndSync, Goto, TypeOK
<1>4. Knows(w)'
  <2>1. IsFiniteSet({})
    BY FS_EmptySet
  <2>2. since'[w] <= watermark' /\ seen'[w] <= clock'
    BY <1>1 DEF Knows, shared, external
  <2> QED
    BY <1>3, <2>1, <2>2 DEF Knows
<1> QED
  BY <1>2, <1>4, QuietStep DEF shared

LEMMA CompleteSynced ==
    ASSUME Synced, TypeOK', NEW w \in Workers, CompleteRun(w)
    PROVE  Synced'
<1>1. seen[w] <= watermark
  BY DEF CompleteRun, Synced, Knows
<1>2. \A v \in Workers \ {w} : run'[v] = run[v]
  BY DEF CompleteRun, Synced, TypeOK
<1> QED
  BY <1>1, <1>2, EndSynced DEF CompleteRun

LEMMA FailSynced ==
    ASSUME Synced, TypeOK', NEW w \in Workers, FailRun(w)
    PROVE  Synced'
<1>1. /\ run[w] \in Run /\ run'[w] = Failed(run[w])
      /\ \A v \in Workers \ {w} : run'[v] = run[v]
  BY DEF FailRun, Synced, TypeOK
<1>2. run'[w].status # "completed"
  BY <1>1, RunType
<1> QED
  BY <1>1, <1>2, EndSynced DEF FailRun

LEMMA DieSynced ==
    ASSUME Synced, TypeOK', NEW w \in Workers, Die(w)
    PROVE  Synced'
<1>1. run[w].status = "completed" => seen[w] <= watermark
  BY DEF Synced, CompletedSyncsNotRepeated
<1> QED
  BY <1>1, EndSynced DEF Die

\* An exception leaves everything to fail_run.
LEMMA InterruptSynced ==
    ASSUME Synced, TypeOK', NEW w \in Workers, Interrupt(w)
    PROVE  Synced'
<1>1. Knows(w) /\ TypeOK
  BY DEF Synced
<1>2. \A v \in Workers \ {w} : Same(v)
  BY <1>1 DEF Interrupt, Goto, Same, TypeOK
<1>3. /\ pc'[w] = "recover" /\ run[w].status # "completed"
      /\ UNCHANGED <<since, run, batch, more, good, seen, watermark, clock>>
  BY <1>1 DEF Interrupt, Goto, TypeOK, Knows, shared, external
<1>4. Knows(w)'
  BY <1>1, <1>3 DEF Knows
<1> QED
  BY <1>2, <1>3, <1>4, QuietStep DEF Interrupt

LEMMA SyncedStep ==
    ASSUME Calm
    PROVE  Synced /\ [Next]_vars => Synced'
<1> SUFFICES ASSUME Synced, [Next]_vars
             PROVE  Synced'
  OBVIOUS
<1>1. TypeOK'
  BY TypeStep
<1>2. CASE UNCHANGED vars
  <2>1. UNCHANGED <<vendor, clock, stored, rejected, watermark, faults, pc, since,
                    run, batch, more, good, seen>>
    BY <1>2 DEF vars, shared, local, external
  <2>2. \A w \in Workers : Knows(w)'
    <3>1. ASSUME NEW w \in Workers
          PROVE  Knows(w)'
      <4>1. Knows(w) /\ TypeOK
        BY DEF Synced
      <4>2. Grown /\ Same(w)
        BY <2>1, <4>1 DEF Grown, Same, TypeOK
      <4> QED
        BY <1>1, <4>1, <4>2, OthersKnow
    <3> QED
      BY <3>1
  <2> QED
    BY <1>1, <2>1, <2>2 DEF Synced, NothingSkipped, Ingested, CompletedSyncsNotRepeated
<1>3. CASE VendorUpdates
  BY <1>1, <1>3, VendorSynced
<1>4. ASSUME NEW w \in Workers, Work(w) \/ Interrupt(w) \/ Die(w)
      PROVE  Synced'
  BY <1>1, <1>4, ReadSynced, ClaimSynced, FetchSynced, QuarantineSynced,
     PersistSynced, AdvanceSynced, CompleteSynced, FailSynced, InterruptSynced,
     DieSynced DEF Work
<1> QED
  BY <1>2, <1>3, <1>4 DEF Next

-----------------------------------------------------------------------------
(* The theorems. *)

\* How far each sync has got is what keeps the watermark from passing a record
\* that no sync has ingested (run_api_job, api_source.py and mock_api).
THEOREM SyncedAlways == ASSUME Calm PROVE Spec => []Synced
<1>1. Synced /\ [Next]_vars => Synced'
  BY SyncedStep
<1> QED
  BY <1>1, SyncedInit, PTL DEF Spec

\* What the next sync will not ask for again has been ingested, whatever died
\* or overlapped before: the watermark advances only after every page
\* (pipeline.py run_api_job).
THEOREM NothingIsSkipped == ASSUME Calm PROVE Spec => []NothingSkipped
<1>1. Synced => NothingSkipped
  BY DEF Synced
<1> QED
  BY <1>1, SyncedAlways, PTL

\* What a completed sync persisted stays behind the watermark, which a slower
\* sync that read less does not rewind (persist.py advance_watermark).
THEOREM CompletedStaysDone == ASSUME Calm PROVE Spec => []CompletedSyncsNotRepeated
<1>1. Synced => CompletedSyncsNotRepeated
  BY DEF Synced
<1> QED
  BY <1>1, SyncedAlways, PTL
=============================================================================
