-------------------------- MODULE PublisherProofs --------------------------
(***************************************************************************)
(* Theorems about the publisher for every set of tenants, queries, value   *)
(* columns, label tuples and result sets.                                  *)
(***************************************************************************)
EXTENDS Publisher, FiniteSetTheorems, TLAPS

(* What the rows of a result set are, and the series an owner's cell names. *)
LEMMA SnapshotFacts ==
    ASSUME NEW rs \in Snapshots
    PROVE  /\ rs \in Seq(Row)
           /\ Len(rs) \in Nat
           /\ DOMAIN rs = 1 .. Len(rs)
           /\ \A i \in DOMAIN rs : rs[i] \in Row
           /\ \A i \in DOMAIN rs : rs[i].label \in Labels
           /\ \A i \in DOMAIN rs, c \in Columns : rs[i].cell[c] \in Cell
           /\ LabelsOf(rs) \subseteq Labels
<1>1. rs \in Seq(Row)
  BY DataAssumption
<1>2. Len(rs) \in Nat /\ DOMAIN rs = 1 .. Len(rs)
      /\ \A i \in DOMAIN rs : rs[i] \in Row
  BY <1>1
<1> QED
  BY <1>1, <1>2 DEF Row, LabelsOf

LEMMA OwnerFacts ==
    ASSUME NEW o \in Owners
    PROVE  /\ o[1] \in Tenants
           /\ o[2] \in Queries
           /\ o = <<o[1], o[2]>>
           /\ \A c \in Columns, l \in Labels :
                 /\ SeriesOf(o, c, l) \in Series
                 /\ Owner(SeriesOf(o, c, l)) = o
                 /\ SeriesOf(o, c, l)[1] = o[1]
                 /\ SeriesOf(o, c, l)[3] = c
                 /\ SeriesOf(o, c, l)[4] = l
BY DEF Owners, Series, SeriesOf, Owner

LEMMA SeriesFacts ==
    ASSUME NEW s \in Series
    PROVE  /\ s[1] \in Tenants
           /\ s[3] \in Columns
           /\ s[4] \in Labels
           /\ Owner(s) \in Owners
           /\ Owner(s)[1] = s[1]
           /\ s = SeriesOf(Owner(s), s[3], s[4])
BY DEF Owners, Series, SeriesOf, Owner

LEMMA NoOwnerIsNone == NoOwner \notin Owners
BY DEF NoOwner, Owners

----------------------------------------------------------------------------
LEMMA TypeInit == Init => TypeOK
BY DataAssumption, MaxResultsAssumption DEF Init, TypeOK, Applying, Owners

LEMMA TypeNext == TypeOK /\ [Next]_vars => TypeOK'
<1> SUFFICES ASSUME TypeOK, [Next]_vars PROVE TypeOK'
  OBVIOUS
<1> USE DEF TypeOK, Applying
<1>1. ASSUME NEW o \in Owners, RejectResult(o) PROVE TypeOK'
  BY <1>1, MaxResultsAssumption DEF RejectResult, Forget
<1>2. ASSUME NEW o \in Owners, NEW rs \in Snapshots, ReceiveRows(o, rs)
      PROVE  TypeOK'
  BY <1>2, SnapshotFacts, MaxResultsAssumption DEF ReceiveRows
<1>3. ASSUME NEW c \in Columns, SkipNull(c) PROVE TypeOK'
  BY <1>3 DEF SkipNull, AtCell
<1>4. ASSUME NEW c \in Columns, Lookup(c) PROVE TypeOK'
  BY <1>4, DataAssumption DEF Lookup, AtCell, SeriesOf
<1>5. ASSUME NEW c \in Columns, Panic(c) PROVE TypeOK'
  <2>1. owner[1] \in Tenants
    BY <1>5, OwnerFacts DEF Panic, AtCell
  <2> QED
    BY <1>5, <2>1 DEF Panic, Forget, AtCell
<1>6. CASE Store
  <2>1. rows[row].cell[col] \in Values \cup {Null}
    BY <1>6, SnapshotFacts DEF Store, Cell
  <2> QED
    BY <1>6, <2>1 DEF Store
<1>7. CASE NextRow
  <2>1. DOMAIN rows = 1 .. Len(rows) /\ Len(rows) \in Nat
    BY <1>7, SnapshotFacts DEF NextRow
  <2> QED
    BY <1>7, <2>1 DEF NextRow
<1>8. CASE BeginDelete
  <2>1. Gone(owner, rows) \subseteq Labels
    BY <1>8 DEF BeginDelete, Gone
  <2> QED
    BY <1>8, <2>1 DEF BeginDelete
<1>9. ASSUME NEW c \in Columns, NEW l \in Labels, DeleteSeries(c, l)
      PROVE  TypeOK'
  BY <1>9 DEF DeleteSeries
<1>10. CASE Finish
  <2>1. LabelsOf(rows) \subseteq Labels
    BY <1>10, SnapshotFacts DEF Finish
  <2> QED
    BY <1>10, <2>1 DEF Finish, Forget
<1>11. CASE Return
  BY <1>11 DEF Return, resultVars
<1>12. CASE UNCHANGED vars
  BY <1>12 DEF vars, resultVars
<1> QED
  BY <1>1, <1>2, <1>3, <1>4, <1>5, <1>6, <1>7, <1>8, <1>9, <1>10, <1>11, <1>12
  DEF Next, Deliver, ApplyStep, Returned

(* Every variable of the publisher stays in its range.                     *)
THEOREM TypeCorrect == Spec => []TypeOK
BY TypeInit, TypeNext, PTL DEF Spec

----------------------------------------------------------------------------
(* Visiting a cell with no number, and moving on from a finished row, add  *)
(* no writer; storing a cell adds its row, the latest one so far.          *)
LEMMA SkipAddsNoWriter ==
    ASSUME NEW c \in Columns, SkipNull(c), NEW d \in Columns, NEW l \in Labels
    PROVE  WritersDone(d, l)' = WritersDone(d, l)
BY DEF SkipNull, AtCell, WritersDone, Writers

LEMMA NextRowAddsNoWriter ==
    ASSUME TypeOK, NextRow, NEW d \in Columns, NEW l \in Labels
    PROVE  WritersDone(d, l)' = WritersDone(d, l)
<1>1. DOMAIN rows \subseteq Int /\ row \in Int
  BY SnapshotFacts DEF TypeOK, Applying, NextRow
<1>2. \A i \in DOMAIN rows :
        (i < row' \/ (i = row' /\ d \notin todo')) <=>
        (i < row \/ (i = row /\ d \notin todo))
  BY <1>1 DEF NextRow
<1>3. rows' = rows
  BY DEF NextRow
<1> QED
  BY <1>2, <1>3 DEF WritersDone, Writers

LEMMA StoreAddsRow ==
    ASSUME TypeOK, Store, NEW d \in Columns, NEW l \in Labels
    PROVE  IF d = col /\ l = rows[row].label
           THEN /\ WritersDone(d, l)' = WritersDone(d, l) \cup {row}
                /\ Latest(WritersDone(d, l)') = row
           ELSE WritersDone(d, l)' = WritersDone(d, l)
<1>1. /\ DOMAIN rows \subseteq Int
      /\ row \in DOMAIN rows
      /\ col \in todo
      /\ rows[row].cell[col] # Null
  BY SnapshotFacts DEF TypeOK, Applying, Store
<1>2. rows' = rows /\ row' = row /\ todo' = todo \ {col}
  BY DEF Store
<1>3. ASSUME ~(d = col /\ l = rows[row].label)
      PROVE  WritersDone(d, l)' = WritersDone(d, l)
  BY <1>1, <1>2, <1>3 DEF WritersDone, Writers
<1>4. ASSUME d = col, l = rows[row].label
      PROVE  WritersDone(d, l)' = WritersDone(d, l) \cup {row}
  BY <1>1, <1>2, <1>4 DEF WritersDone, Writers
<1>5. ASSUME d = col, l = rows[row].label
      PROVE  Latest(WritersDone(d, l)') = row
  <2> DEFINE W == WritersDone(d, l)'
  <2>1. row \in W /\ W \subseteq Int /\ \A j \in W : j <= row
    BY <1>1, <1>4, <1>5 DEF WritersDone, Writers
  <2>2. \A i \in W : (\A j \in W : j <= i) => i = row
    BY <2>1
  <2> QED
    BY <2>1, <2>2 DEF Latest
<1> QED
  BY <1>3, <1>4, <1>5

----------------------------------------------------------------------------
LEMMA ProgressInit == Init => ApplyProgress
BY DEF Init, ApplyProgress, Applying

(* A result that has just been received has written nothing.               *)
LEMMA ProgressReceive ==
    ASSUME TypeOK, ApplyProgress,
           NEW o \in Owners, NEW rs \in Snapshots, ReceiveRows(o, rs)
    PROVE  ApplyProgress'
<1>1. /\ pc' = "set"
      /\ owner' = o
      /\ rows' = rs
      /\ row' = 1
      /\ todo' = Columns
      /\ gauge' = gauge
      /\ gaugeBefore' = gauge
  BY DEF ReceiveRows, ApplyProgress, Applying
<1>2. ASSUME NEW s \in Series, Owner(s)' = owner' PROVE SetProgress(s)'
  <2>1. s[3] \in Columns /\ \A i \in DOMAIN rs : i >= 1
    BY SeriesFacts, SnapshotFacts
  <2>2. WritersDone(s[3], s[4])' = {}
    BY <1>1, <2>1, SnapshotFacts DEF WritersDone, Writers
  <2>3. Written(rows, s[3], WritersDone(s[3], s[4]), gaugeBefore[s])' = gauge[s]
    BY <1>1, <2>2 DEF Written
  <2> QED
    BY <1>1, <2>2, <2>3 DEF SetProgress
<1> QED
  BY <1>1, <1>2 DEF ApplyProgress, Applying, Owner

(* A step of the Set loop that neither writes a gauge nor adds a writer.   *)
LEMMA ProgressIdleStep ==
    ASSUME TypeOK, ApplyProgress, pc = "set", pc' = "set",
           UNCHANGED <<gauge, gaugeBefore, owner, rows>>,
           \A d \in Columns, l \in Labels :
               WritersDone(d, l)' = WritersDone(d, l)
    PROVE  ApplyProgress'
<1>1. ASSUME NEW s \in Series, Owner(s) = owner PROVE SetProgress(s)'
  <2>1. SetProgress(s)
    BY <1>1 DEF ApplyProgress, Applying
  <2>2. WritersDone(s[3], s[4])' = WritersDone(s[3], s[4])
    BY SeriesFacts
  <2> QED
    BY <2>1, <2>2 DEF SetProgress, Written, Latest
<1> QED
  BY <1>1 DEF ApplyProgress, Applying, Owner

LEMMA ProgressLookup ==
    ASSUME TypeOK, ApplyProgress, NEW c \in Columns, Lookup(c)
    PROVE  ApplyProgress'
<1> DEFINE s0 == SeriesOf(owner, c, rows[row].label)
<1>1. /\ pc = "set"
      /\ pc' = "store"
      /\ col' = c
      /\ gauge' = [gauge EXCEPT ![s0] = IF @ = Absent THEN Zero ELSE @]
      /\ UNCHANGED <<gaugeBefore, owner, rows, row, todo>>
  BY DEF Lookup, AtCell
<1>2. owner \in Owners /\ rows[row].label \in Labels /\ s0 \in Series
  BY SnapshotFacts, OwnerFacts DEF Lookup, AtCell, TypeOK, Applying
<1>3. Owner(s0) = owner
  BY <1>2, OwnerFacts
<1>4. ASSUME NEW s \in Series, Owner(s) = owner PROVE SetProgress(s)'
  <2>1. SetProgress(s)
    BY <1>1, <1>4 DEF ApplyProgress, Applying
  <2>2. WritersDone(s[3], s[4])' = WritersDone(s[3], s[4])
    BY <1>1 DEF WritersDone, Writers
  <2>3. CASE s = s0
    <3>1. gauge'[s0] # Absent
      BY <1>1, <1>2, DataAssumption DEF TypeOK
    <3> QED
      BY <1>1, <2>1, <2>2, <2>3, <3>1 DEF SetProgress
  <2>4. CASE s # s0
    <3>1. gauge'[s] = gauge[s]
      BY <1>1, <1>2, <2>4 DEF TypeOK
    <3>2. gauge[s] = Written(rows, s[3], WritersDone(s[3], s[4]), gaugeBefore[s])
      BY <1>1, <2>1 DEF SetProgress
    <3> QED
      BY <1>1, <2>1, <2>2, <2>4, <3>1, <3>2 DEF SetProgress
  <2> QED
    BY <2>3, <2>4
<1>5. ASSUME NEW s \in Series, Owner(s) # owner
      PROVE  gauge'[s] = gaugeBefore'[s]
  BY <1>1, <1>2, <1>3, <1>5 DEF ApplyProgress, Applying, TypeOK
<1> QED
  BY <1>1, <1>4, <1>5 DEF ApplyProgress, Applying, Owner

LEMMA ProgressStore ==
    ASSUME TypeOK, ApplyProgress, Store
    PROVE  ApplyProgress'
<1> DEFINE s0 == SeriesOf(owner, col, rows[row].label)
<1>1. /\ pc = "store"
      /\ pc' = "set"
      /\ gauge' = [gauge EXCEPT ![s0] = rows[row].cell[col]]
      /\ UNCHANGED <<gaugeBefore, owner, rows, row>>
  BY DEF Store
<1>2. /\ owner \in Owners
      /\ col \in Columns
      /\ rows[row].label \in Labels \ BadLabels
      /\ s0 \in Series
  BY SnapshotFacts, OwnerFacts DEF Store, TypeOK, Applying
<1>3. Owner(s0) = owner /\ s0[3] = col /\ s0[4] = rows[row].label
  BY <1>2, OwnerFacts
<1>4. ASSUME NEW s \in Series, Owner(s) = owner PROVE SetProgress(s)'
  <2> DEFINE W == WritersDone(s[3], s[4])
  <2>1. SetProgress(s)
    BY <1>1, <1>4 DEF ApplyProgress, Applying
  <2>2. s[3] \in Columns /\ s[4] \in Labels
    BY SeriesFacts
  <2>3. CASE s = s0
    <3>1. W' = W \cup {row} /\ Latest(W') = row
      BY <1>3, <2>2, <2>3, StoreAddsRow
    <3>2. gauge'[s] = rows[row].cell[col]
      BY <1>1, <1>2, <2>3 DEF TypeOK
    <3>3. Written(rows, s[3], W, gaugeBefore[s])' = rows[row].cell[col]
      BY <1>1, <1>3, <2>3, <3>1 DEF Written
    <3>4. \A i \in W' : rows[i].label \notin BadLabels
      BY <1>2, <2>1, <3>1 DEF SetProgress
    <3> QED
      BY <1>1, <3>1, <3>2, <3>3, <3>4 DEF SetProgress
  <2>4. CASE s # s0
    <3>1. ~(s[3] = col /\ s[4] = rows[row].label)
      BY <1>2, <1>4, <2>4, SeriesFacts
    <3>2. W' = W
      BY <2>2, <3>1, StoreAddsRow
    <3>3. gauge'[s] = gauge[s]
      BY <1>1, <1>2, <2>4 DEF TypeOK
    <3> QED
      BY <1>1, <2>1, <2>4, <3>2, <3>3 DEF SetProgress, Written
  <2> QED
    BY <2>3, <2>4
<1>5. ASSUME NEW s \in Series, Owner(s) # owner
      PROVE  gauge'[s] = gaugeBefore'[s]
  BY <1>1, <1>2, <1>3, <1>5 DEF ApplyProgress, Applying, TypeOK
<1> QED
  BY <1>1, <1>4, <1>5 DEF ApplyProgress, Applying, Owner

(* Steps that leave the result being applied alone.                        *)
LEMMA SameRows ==
    ASSUME UNCHANGED <<rows, owner, lastLabels, gaugeBefore>>
    PROVE  /\ LabelsOf(rows)' = LabelsOf(rows)
           /\ Gone(owner, rows)' = Gone(owner, rows)
           /\ \A s \in Series :
                 Written(rows, s[3], Writers(rows, s[3], s[4]), gaugeBefore[s])'
                 = Written(rows, s[3], Writers(rows, s[3], s[4]), gaugeBefore[s])
BY DEF LabelsOf, Gone, Written, Writers, Latest

(* When the Set loop ends every row has been written, and nothing of the   *)
(* previous result set has been removed yet.                               *)
LEMMA ProgressBeginDelete ==
    ASSUME TypeOK, ApplyProgress, BeginDelete
    PROVE  ApplyProgress'
<1>1. /\ pc = "set"
      /\ row \notin DOMAIN rows
      /\ pc' = "delete"
      /\ drop' = Columns \X Gone(owner, rows)
      /\ UNCHANGED <<gauge, lastLabels, gaugeBefore, owner, rows, row, todo>>
  BY DEF BeginDelete
<1>2. \A i \in DOMAIN rows : i < row
  BY <1>1, SnapshotFacts DEF TypeOK, Applying
<1>3. ASSUME NEW s \in Series, Owner(s) = owner PROVE DeleteProgress(s)'
  <2> DEFINE W == Writers(rows, s[3], s[4])
  <2>1. gauge[s] = Written(rows, s[3], WritersDone(s[3], s[4]), gaugeBefore[s])
    BY <1>1, <1>3 DEF ApplyProgress, Applying, SetProgress
  <2>2. WritersDone(s[3], s[4]) = W
    BY <1>2 DEF WritersDone, Writers
  <2>3. s[4] \notin LabelsOf(rows) => W = {}
    BY DEF LabelsOf, Writers
  <2>4. s[4] \in Gone(owner, rows) => <<s[3], s[4]>> \in drop'
    BY <1>1, SeriesFacts
  <2> HIDE DEF W
  <2>5. gauge[s] = IF s[4] \in LabelsOf(rows)
                   THEN Written(rows, s[3], W, gaugeBefore[s])
                   ELSE gaugeBefore[s]
    BY <2>1, <2>2, <2>3 DEF Written
  <2> QED
    BY <1>1, <2>4, <2>5, SameRows DEF DeleteProgress, W
<1>4. row' \notin DOMAIN rows' /\ drop' \subseteq Columns \X Gone(owner', rows')
  BY <1>1 DEF Gone
<1> QED
  BY <1>1, <1>3, <1>4 DEF ApplyProgress, Applying, Owner, Gone

LEMMA ProgressDelete ==
    ASSUME TypeOK, ApplyProgress,
           NEW c \in Columns, NEW l \in Labels, DeleteSeries(c, l)
    PROVE  ApplyProgress'
<1> DEFINE s0 == SeriesOf(owner, c, l)
<1>1. /\ pc = "delete"
      /\ pc' = "delete"
      /\ <<c, l>> \in drop
      /\ gauge' = [gauge EXCEPT ![s0] = Absent]
      /\ drop' = drop \ {<<c, l>>}
      /\ UNCHANGED <<lastLabels, gaugeBefore, owner, rows, row, todo>>
  BY DEF DeleteSeries
<1>2. owner \in Owners /\ s0 \in Series /\ Owner(s0) = owner
      /\ s0[3] = c /\ s0[4] = l
  BY <1>1, OwnerFacts DEF TypeOK, Applying
<1>3. l \in Gone(owner, rows) /\ l \notin LabelsOf(rows)
  BY <1>1 DEF ApplyProgress, Gone
<1>4. ASSUME NEW s \in Series, Owner(s) = owner PROVE DeleteProgress(s)'
  <2>1. DeleteProgress(s)
    BY <1>1, <1>4 DEF ApplyProgress, Applying
  <2>2. CASE s = s0
    <3>1. gauge'[s] = Absent
      BY <1>1, <1>2, <2>2 DEF TypeOK
    <3> QED
      BY <1>1, <1>2, <1>3, <2>2, <3>1 DEF DeleteProgress, Gone
  <2>3. CASE s # s0
    <3>1. gauge'[s] = gauge[s]
      BY <1>1, <1>2, <2>3 DEF TypeOK
    <3>2. <<s[3], s[4]>> # <<c, l>>
      BY <1>4, <2>3, SeriesFacts
    <3>3. <<s[3], s[4]>> \in drop' <=> <<s[3], s[4]>> \in drop
      BY <1>1, <3>2
    <3> QED
      BY <1>1, <2>1, <3>1, <3>3, SameRows DEF DeleteProgress
  <2> QED
    BY <2>2, <2>3
<1>5. ASSUME NEW s \in Series, Owner(s) # owner
      PROVE  gauge'[s] = gaugeBefore'[s]
  BY <1>1, <1>2, <1>5 DEF ApplyProgress, Applying, TypeOK
<1>6. row' \notin DOMAIN rows' /\ drop' \subseteq Columns \X Gone(owner', rows')
  BY <1>1 DEF ApplyProgress, Gone
<1> QED
  BY <1>1, <1>4, <1>5, <1>6 DEF ApplyProgress, Applying, Owner, Gone

LEMMA ProgressNext == TypeOK /\ ApplyProgress /\ [Next]_vars => ApplyProgress'
<1> SUFFICES ASSUME TypeOK, ApplyProgress, [Next]_vars PROVE ApplyProgress'
  OBVIOUS
<1>1. ASSUME NEW o \in Owners, RejectResult(o) PROVE ApplyProgress'
  BY <1>1 DEF RejectResult, Forget, ApplyProgress, Applying
<1>2. ASSUME NEW c \in Columns, SkipNull(c) PROVE ApplyProgress'
  <2>1. UNCHANGED <<gauge, gaugeBefore, owner, rows>> /\ pc = "set" /\ pc' = "set"
    BY <1>2 DEF SkipNull, AtCell
  <2> QED
    BY <1>2, <2>1, SkipAddsNoWriter, ProgressIdleStep
<1>3. ASSUME NEW c \in Columns, Panic(c) PROVE ApplyProgress'
  <2>1. gauge' = gauge /\ pc' = "idle" /\ gaugeBefore' = gauge'
        /\ row' = 1 /\ todo' = Columns
    BY <1>3 DEF Panic, Forget
  <2> QED
    BY <2>1 DEF ApplyProgress, Applying
<1>4. CASE NextRow
  <2>1. UNCHANGED <<gauge, gaugeBefore, owner, rows>> /\ pc = "set" /\ pc' = "set"
    BY <1>4 DEF NextRow
  <2> QED
    BY <1>4, <2>1, NextRowAddsNoWriter, ProgressIdleStep
<1>5. CASE Finish
  BY <1>5 DEF Finish, Forget, ApplyProgress, Applying
<1>6. CASE Return
  BY <1>6 DEF Return, resultVars, ApplyProgress, Applying
<1>7. CASE UNCHANGED vars
  <2>1. /\ UNCHANGED <<gauge, lastLabels, pc, owner, rows, row, todo, col, drop>>
        /\ gaugeBefore' = gaugeBefore
    BY <1>7 DEF vars, resultVars
  <2>2. \A s \in Series : SetProgress(s) => SetProgress(s)'
    BY <2>1 DEF SetProgress, WritersDone, Writers, Written, Latest, SeriesOf
  <2>3. \A s \in Series : DeleteProgress(s) => DeleteProgress(s)'
    BY <2>1, SameRows DEF DeleteProgress
  <2> QED
    BY <2>1, <2>2, <2>3 DEF ApplyProgress, Applying, Gone, Owner
<1> QED
  BY <1>1, <1>2, <1>3, <1>4, <1>5, <1>6, <1>7, ProgressReceive, ProgressLookup,
     ProgressStore, ProgressBeginDelete, ProgressDelete
  DEF Next, Deliver, ApplyStep, Returned

(* The gauges in the middle of a result are exactly the old board with the *)
(* cells visited so far written over it (the Set and Delete loops).        *)
THEOREM ProgressCorrect == Spec => []ApplyProgress
BY TypeInit, TypeNext, ProgressInit, ProgressNext, PTL DEF Spec

----------------------------------------------------------------------------
LEMMA OrphanInit == Init => NoOrphanSeries
BY DEF Init, NoOrphanSeries

(* A step that shows nothing new and takes no cover away.                  *)
LEMMA OrphanFrame ==
    ASSUME NoOrphanSeries, TypeOK,
           UNCHANGED <<lastLabels, owner, rows, panics>>,
           \A s \in Series : gauge'[s] # Absent => gauge[s] # Absent
    PROVE  NoOrphanSeries'
<1>1. LabelsOf(rows)' = LabelsOf(rows)
  BY DEF LabelsOf
<1> QED
  BY <1>1 DEF NoOrphanSeries, Owner

(* A step that shows one series of the result being applied.               *)
LEMMA OrphanShow ==
    ASSUME NoOrphanSeries, TypeOK, Applying,
           UNCHANGED <<lastLabels, owner, rows, panics>>,
           NEW c \in Columns, NEW l \in LabelsOf(rows), NEW v,
           gauge' = [gauge EXCEPT ![SeriesOf(owner, c, l)] = v]
    PROVE  NoOrphanSeries'
<1> DEFINE s0 == SeriesOf(owner, c, l)
<1>1. owner \in Owners /\ l \in Labels
  BY SnapshotFacts DEF TypeOK
<1>2. s0 \in Series /\ Owner(s0) = owner /\ s0[4] = l
  BY <1>1, OwnerFacts
<1>3. LabelsOf(rows)' = LabelsOf(rows)
  BY DEF LabelsOf
<1>4. ASSUME NEW s \in Series, s # s0 PROVE gauge'[s] = gauge[s]
  BY <1>2, <1>4 DEF TypeOK
<1> HIDE DEF s0
<1> QED
  BY <1>2, <1>3, <1>4 DEF NoOrphanSeries, Owner

LEMMA OrphanNext ==
    TypeOK /\ ApplyProgress /\ NoOrphanSeries /\ [Next]_vars => NoOrphanSeries'
<1> SUFFICES ASSUME TypeOK, ApplyProgress, NoOrphanSeries, [Next]_vars
             PROVE  NoOrphanSeries'
  OBVIOUS
<1>1. ASSUME NEW o \in Owners, RejectResult(o) PROVE NoOrphanSeries'
  <2>1. UNCHANGED <<gauge, lastLabels, panics>> /\ owner = NoOwner
        /\ owner' = NoOwner
    BY <1>1 DEF RejectResult, Forget, TypeOK, Applying
  <2> QED
    BY <2>1, NoOwnerIsNone, SeriesFacts DEF NoOrphanSeries, Owner
<1>2. ASSUME NEW o \in Owners, NEW rs \in Snapshots, ReceiveRows(o, rs)
      PROVE  NoOrphanSeries'
  <2>1. UNCHANGED <<gauge, lastLabels, panics>> /\ owner = NoOwner
    BY <1>2 DEF ReceiveRows, TypeOK, Applying
  <2> QED
    BY <2>1, NoOwnerIsNone, SeriesFacts DEF NoOrphanSeries, Owner
<1>3. ASSUME NEW c \in Columns, SkipNull(c) PROVE NoOrphanSeries'
  BY <1>3, OrphanFrame DEF SkipNull
<1>4. ASSUME NEW c \in Columns, Lookup(c) PROVE NoOrphanSeries'
  <2> DEFINE s0 == SeriesOf(owner, c, rows[row].label)
  <2>1. Applying /\ rows[row].label \in LabelsOf(rows)
        /\ UNCHANGED <<lastLabels, owner, rows, panics>>
    BY <1>4 DEF Lookup, AtCell, Applying, LabelsOf
  <2>2. gauge' = [gauge EXCEPT ![s0] = IF gauge[s0] = Absent THEN Zero
                                       ELSE gauge[s0]]
    BY <1>4 DEF Lookup
  <2> QED
    BY <2>1, <2>2, OrphanShow
<1>5. ASSUME NEW c \in Columns, Panic(c) PROVE NoOrphanSeries'
  <2>1. /\ UNCHANGED <<gauge, lastLabels>>
        /\ owner' = NoOwner
        /\ owner \in Owners
        /\ panics' = [panics EXCEPT ![owner[1]] = @ + 1]
    BY <1>5 DEF Panic, Forget, AtCell, TypeOK, Applying
  <2>2. panics'[owner[1]] # 0
    BY <2>1, OwnerFacts DEF TypeOK
  <2>3. ASSUME NEW s \in Series, panics'[s[1]] = 0
        PROVE  panics[s[1]] = 0 /\ Owner(s) # owner
    BY <2>1, <2>2, <2>3, SeriesFacts, OwnerFacts DEF TypeOK
  <2> QED
    BY <2>1, <2>3 DEF NoOrphanSeries, Owner
<1>6. CASE Store
  <2>1. Applying /\ rows[row].label \in LabelsOf(rows) /\ col \in Columns
        /\ UNCHANGED <<lastLabels, owner, rows, panics>>
    BY <1>6 DEF Store, TypeOK, Applying, LabelsOf
  <2> QED
    BY <1>6, <2>1, OrphanShow DEF Store
<1>7. CASE NextRow
  BY <1>7, OrphanFrame DEF NextRow
<1>8. CASE BeginDelete
  BY <1>8, OrphanFrame DEF BeginDelete
<1>9. ASSUME NEW c \in Columns, NEW l \in Labels, DeleteSeries(c, l)
      PROVE  NoOrphanSeries'
  <2>1. owner \in Owners
    BY <1>9 DEF DeleteSeries, TypeOK, Applying
  <2>2. \A s \in Series : gauge'[s] # Absent => gauge[s] # Absent
    BY <1>9, <2>1, OwnerFacts DEF DeleteSeries, TypeOK
  <2> QED
    BY <1>9, <2>2, OrphanFrame DEF DeleteSeries
<1>10. CASE Finish
  <2>1. /\ UNCHANGED <<gauge, panics>>
        /\ owner' = NoOwner
        /\ owner \in Owners
        /\ lastLabels' = [lastLabels EXCEPT ![owner] = LabelsOf(rows)]
        /\ pc = "delete"
        /\ drop = {}
    BY <1>10 DEF Finish, Forget, TypeOK, Applying
  <2>2. ASSUME NEW s \in Series, gauge[s] # Absent, panics[s[1]] = 0
        PROVE  s[4] \in lastLabels'[Owner(s)]
    <3>1. CASE Owner(s) # owner
      BY <2>1, <2>2, <3>1, SeriesFacts DEF NoOrphanSeries, TypeOK
    <3>2. CASE Owner(s) = owner
      <4>1. DeleteProgress(s)
        BY <2>1, <3>2 DEF ApplyProgress, Applying
      <4>2. s[4] \notin Gone(owner, rows)
        BY <2>1, <2>2, <4>1 DEF DeleteProgress, Gone
      <4>3. s[4] \in lastLabels[owner] \cup LabelsOf(rows)
        BY <2>2, <3>2 DEF NoOrphanSeries
      <4> QED
        BY <2>1, <3>2, <4>2, <4>3 DEF Gone, TypeOK
    <3> QED
      BY <3>1, <3>2
  <2> QED
    BY <2>1, <2>2 DEF NoOrphanSeries, Owner
<1>11. CASE Return
  BY <1>11, OrphanFrame DEF Return, resultVars
<1>12. CASE UNCHANGED vars
  BY <1>12, OrphanFrame DEF vars, resultVars
<1> QED
  BY <1>1, <1>2, <1>3, <1>4, <1>5, <1>6, <1>7, <1>8, <1>9, <1>10, <1>11, <1>12
  DEF Next, Deliver, ApplyStep, Returned

(* While no result of a tenant has panicked, every series of the tenant on *)
(* the page is tracked or belongs to the result being applied: the diff    *)
(* against lastLabels leaves no orphan.                                    *)
THEOREM NoOrphanCorrect == Spec => []NoOrphanSeries
<1>1. Init => TypeOK /\ ApplyProgress /\ NoOrphanSeries
  BY TypeInit, ProgressInit, OrphanInit
<1>2. TypeOK /\ ApplyProgress /\ NoOrphanSeries /\ [Next]_vars
      => (TypeOK /\ ApplyProgress /\ NoOrphanSeries)'
  BY TypeNext, ProgressNext, OrphanNext
<1> QED
  BY <1>1, <1>2, PTL DEF Spec

----------------------------------------------------------------------------
(* A series leaves the page only in the Delete loop, when the whole of the *)
(* new snapshot is already there: no scrape finds a query blank.           *)
THEOREM NoBlankWindowCorrect == Spec => NoBlankWindow
<1>1. TypeOK /\ ApplyProgress /\ [Next]_vars => [RemovalsAreLast]_vars
  <2> SUFFICES ASSUME TypeOK, ApplyProgress, Next,
                      NEW s \in Series, gauge[s] # Absent, gauge'[s] = Absent
               PROVE  /\ Owner(s) = owner
                      /\ s[4] \notin LabelsOf(rows)
                      /\ SnapshotShown
    BY DEF RemovalsAreLast
  <2>1. ASSUME NEW c \in Columns, NEW l \in Labels, DeleteSeries(c, l)
        PROVE  /\ Owner(s) = owner
               /\ s[4] \notin LabelsOf(rows)
               /\ SnapshotShown
    <3>1. pc = "delete" /\ owner \in Owners /\ l \in Gone(owner, rows)
      BY <2>1 DEF DeleteSeries, TypeOK, Applying, ApplyProgress
    <3>2. s = SeriesOf(owner, c, l)
      BY <2>1, <3>1, OwnerFacts DEF DeleteSeries, TypeOK
    <3>3. Owner(s) = owner /\ s[4] = l
      BY <3>1, <3>2, OwnerFacts
    <3>4. ASSUME NEW d \in Columns, NEW m \in LabelsOf(rows)
          PROVE  gauge[SeriesOf(owner, d, m)] =
                    Written(rows, d, Writers(rows, d, m),
                            gaugeBefore[SeriesOf(owner, d, m)])
      <4> DEFINE u == SeriesOf(owner, d, m)
      <4>1. m \in Labels
        BY <3>1, SnapshotFacts DEF TypeOK, Applying
      <4>2. u \in Series /\ Owner(u) = owner /\ u[3] = d /\ u[4] = m
        BY <3>1, <4>1, OwnerFacts
      <4>3. DeleteProgress(u)
        BY <3>1, <4>2 DEF ApplyProgress, Applying
      <4> HIDE DEF u
      <4>4. gauge[u] = Written(rows, d, Writers(rows, d, m), gaugeBefore[u])
        BY <4>2, <4>3 DEF DeleteProgress
      <4> QED
        BY <4>4 DEF u
    <3> QED
      BY <3>1, <3>3, <3>4 DEF SnapshotShown, Gone
  <2>2. ASSUME NEW c \in Columns, Lookup(c) PROVE FALSE
    <3>1. owner \in Owners /\ rows[row].label \in Labels
      BY <2>2, SnapshotFacts DEF Lookup, AtCell, TypeOK, Applying
    <3>2. SeriesOf(owner, c, rows[row].label) \in Series
      BY <3>1, OwnerFacts
    <3> QED
      BY <2>2, <3>2, DataAssumption DEF Lookup, TypeOK
  <2>3. ASSUME Store PROVE FALSE
    <3>1. /\ owner \in Owners
          /\ rows[row].label \in Labels
          /\ col \in Columns
          /\ rows[row].cell[col] \in Values
      BY <2>3, SnapshotFacts DEF Store, TypeOK, Applying, Cell
    <3>2. SeriesOf(owner, col, rows[row].label) \in Series
      BY <3>1, OwnerFacts
    <3> QED
      BY <2>3, <3>1, <3>2, DataAssumption DEF Store, TypeOK
  <2>4. ASSUME gauge' = gauge PROVE FALSE
    BY <2>4
  <2> QED
    BY <2>1, <2>2, <2>3, <2>4 DEF Next, Deliver, ApplyStep, Returned, Return,
       RejectResult, ReceiveRows, SkipNull, Panic, NextRow, BeginDelete, Finish,
       vars
<1> QED
  BY <1>1, TypeInit, TypeNext, ProgressInit, ProgressNext, PTL
  DEF Spec, NoBlankWindow

----------------------------------------------------------------------------
(* The cells without a number that the Set loop has visited, and the       *)
(* errors counted for them.                                                *)
NullDone ==
    { p \in NullCells(rows) :
        p[1] < row \/ (p[1] = row /\ p[2] \notin todo) }

ErrorsProgress ==
    errors = IF Applying
             THEN [errorsBefore EXCEPT ![owner] = @ + Cardinality(NullDone)]
             ELSE errorsBefore

LEMMA NullDoneFinite ==
    ASSUME TypeOK, Applying
    PROVE  IsFiniteSet(NullDone) /\ Cardinality(NullDone) \in Nat
<1>1. rows \in Snapshots
  BY DEF TypeOK
<1>2. IsFiniteSet(DOMAIN rows)
  BY <1>1, SnapshotFacts, FS_Interval
<1>3. IsFiniteSet((DOMAIN rows) \X Columns)
  BY <1>2, DataAssumption, FS_Product
<1>4. NullDone \subseteq (DOMAIN rows) \X Columns
  BY DEF NullDone, NullCells
<1> QED
  BY <1>3, <1>4, FS_Subset, FS_CardinalityType

LEMMA ErrorsInit == Init => ErrorsProgress
BY DEF Init, ErrorsProgress, Applying

(* A step that counts no error and visits no such cell.                    *)
LEMMA ErrorsIdleStep ==
    ASSUME ErrorsProgress, Applying, Applying',
           UNCHANGED <<errors, errorsBefore, owner>>, NullDone' = NullDone
    PROVE  ErrorsProgress'
BY DEF ErrorsProgress

LEMMA ErrorsNext ==
    TypeOK /\ ApplyProgress /\ ErrorsProgress /\ [Next]_vars => ErrorsProgress'
<1> SUFFICES ASSUME TypeOK, ApplyProgress, ErrorsProgress, [Next]_vars
    PROVE  ErrorsProgress'
  OBVIOUS
<1>1. ASSUME NEW o \in Owners, RejectResult(o) PROVE ErrorsProgress'
  BY <1>1 DEF RejectResult, Forget, ErrorsProgress, Applying
<1>2. ASSUME NEW o \in Owners, NEW rs \in Snapshots, ReceiveRows(o, rs)
      PROVE  ErrorsProgress'
  <2>1. /\ pc = "idle" /\ pc' = "set"
        /\ owner' = o /\ rows' = rs /\ row' = 1 /\ todo' = Columns
        /\ errors' = errors /\ errorsBefore' = errors
    BY <1>2 DEF ReceiveRows, ApplyProgress, ErrorsProgress, Applying
  <2>2. NullDone' = {}
    BY <2>1, SnapshotFacts DEF NullDone, NullCells
  <2>3. Cardinality(NullDone)' = 0
    BY <2>2, FS_EmptySet
  <2>4. errors \in [Owners -> Nat]
    BY DEF TypeOK
  <2>5. errors = [errors EXCEPT ![o] = @ + 0]
    BY <2>4
  <2> QED
    BY <2>1, <2>3, <2>5 DEF ErrorsProgress, Applying
<1>3. ASSUME NEW c \in Columns, SkipNull(c) PROVE ErrorsProgress'
  <2> DEFINE p == <<row, c>>
  <2>1. /\ pc = "set" /\ pc' = "set"
        /\ row \in DOMAIN rows /\ c \in todo
        /\ rows[row].cell[c] = Null
        /\ errors' = [errors EXCEPT ![owner] = @ + 1]
        /\ todo' = todo \ {c}
        /\ UNCHANGED <<errorsBefore, owner, rows, row>>
    BY <1>3 DEF SkipNull, AtCell
  <2>2. /\ owner \in Owners
        /\ DOMAIN rows \subseteq Int
        /\ errors \in [Owners -> Nat]
        /\ errorsBefore \in [Owners -> Nat]
    BY <2>1, SnapshotFacts DEF TypeOK, Applying
  <2>3. p \notin NullDone
    BY <2>1, <2>2 DEF NullDone
  <2>4. NullDone' = NullDone \cup {p}
    BY <2>1, <2>2 DEF NullDone, NullCells
  <2>5. /\ Cardinality(NullDone)' = Cardinality(NullDone) + 1
        /\ Cardinality(NullDone) \in Nat
    BY <2>1, <2>3, <2>4, NullDoneFinite, FS_AddElement DEF Applying
  <2>6. errors = [errorsBefore EXCEPT ![owner] = @ + Cardinality(NullDone)]
    BY <2>1 DEF ErrorsProgress, Applying
  <2>7. errors' =
          [errorsBefore EXCEPT ![owner] = @ + (Cardinality(NullDone) + 1)]
    BY <2>1, <2>2, <2>5, <2>6
  <2> QED
    BY <2>1, <2>5, <2>7 DEF ErrorsProgress, Applying
<1>4. ASSUME NEW c \in Columns, Lookup(c) PROVE ErrorsProgress'
  BY <1>4, ErrorsIdleStep DEF Lookup, AtCell, NullDone, NullCells, Applying
<1>5. ASSUME NEW c \in Columns, Panic(c) PROVE ErrorsProgress'
  BY <1>5 DEF Panic, Forget, ErrorsProgress, Applying
<1>6. CASE Store
  <2>1. row \in DOMAIN rows /\ rows[row].cell[col] # Null
    BY <1>6 DEF Store, TypeOK
  <2>2. NullDone' = NullDone
    BY <1>6, <2>1 DEF Store, NullDone, NullCells
  <2> QED
    BY <1>6, <2>2, ErrorsIdleStep DEF Store, Applying
<1>7. CASE NextRow
  <2>1. DOMAIN rows \subseteq Int /\ row \in Int
    BY <1>7, SnapshotFacts DEF NextRow, TypeOK, Applying
  <2>2. \A i \in DOMAIN rows, d \in Columns :
          (i < row' \/ (i = row' /\ d \notin todo')) <=>
          (i < row \/ (i = row /\ d \notin todo))
    BY <1>7, <2>1 DEF NextRow
  <2>3. NullDone' = NullDone
    BY <1>7, <2>2 DEF NextRow, NullDone, NullCells
  <2> QED
    BY <1>7, <2>3, ErrorsIdleStep DEF NextRow, Applying
<1>8. CASE BeginDelete
  BY <1>8, ErrorsIdleStep DEF BeginDelete, NullDone, NullCells, Applying
<1>9. ASSUME NEW c \in Columns, NEW l \in Labels, DeleteSeries(c, l)
      PROVE  ErrorsProgress'
  BY <1>9, ErrorsIdleStep DEF DeleteSeries, NullDone, NullCells, Applying
<1>10. CASE Finish
  BY <1>10 DEF Finish, Forget, ErrorsProgress, Applying
<1>11. CASE Return
  BY <1>11 DEF Return, resultVars, ErrorsProgress, Applying
<1>12. CASE UNCHANGED vars
  BY <1>12 DEF vars, resultVars, ErrorsProgress, Applying, NullDone, NullCells
<1> QED
  BY <1>1, <1>2, <1>3, <1>4, <1>5, <1>6, <1>7, <1>8, <1>9, <1>10, <1>11, <1>12
  DEF Next, Deliver, ApplyStep, Returned

LEMMA ErrorsCorrect == Spec => []ErrorsProgress
BY TypeCorrect, ProgressCorrect, ErrorsInit, ErrorsNext, PTL DEF Spec

(* A result applied to its end adds one error per cell it could not read,  *)
(* and none to another query (applyQuery).                                 *)
THEOREM ErrorsAreExact == Spec => []ErrorsCountNullCells
<1>1. TypeOK /\ ApplyProgress /\ ErrorsProgress => ErrorsCountNullCells
  <2> SUFFICES ASSUME TypeOK, ApplyProgress, ErrorsProgress, pc = "delete"
      PROVE  errors = [errorsBefore EXCEPT ![owner] =
                           @ + Cardinality(NullCells(rows))]
    BY DEF ErrorsCountNullCells
  <2>1. \A i \in DOMAIN rows : i < row
    BY SnapshotFacts DEF TypeOK, ApplyProgress, Applying
  <2>2. NullDone = NullCells(rows)
    BY <2>1 DEF NullDone, NullCells
  <2> QED
    BY <2>2 DEF ErrorsProgress, Applying
<1> QED
  BY <1>1, TypeCorrect, ProgressCorrect, ErrorsCorrect, PTL

----------------------------------------------------------------------------
(* The publisher implements the Board.  The Board speaks of result sets    *)
(* and series in the same words.                                           *)
LEMMA BoardVocabulary ==
    /\ B!Series = Series
    /\ B!Owners = Owners
    /\ \A s \in Series : B!Owner(s) = Owner(s)
    /\ \A rs \in Snapshots :
          /\ B!LabelsOf(rs) = LabelsOf(rs)
          /\ B!Poisonous(rs) <=> Poisonous(rs)
          /\ \A s \in Series : \A old :
                /\ B!Writers(rs, s[3], s[4]) = Writers(rs, s[3], s[4])
                /\ B!Written(rs, s[3], B!Writers(rs, s[3], s[4]), old) =
                       Written(rs, s[3], Writers(rs, s[3], s[4]), old)
<1>1. \A W : B!Latest(W) = Latest(W)
  BY DEF B!Latest, Latest
<1>2. \A rs \in Snapshots, s \in Series :
         B!Writers(rs, s[3], s[4]) = Writers(rs, s[3], s[4])
  BY DEF B!Writers, Writers
<1>3. \A rs \in Snapshots, s \in Series : \A old :
         B!Written(rs, s[3], Writers(rs, s[3], s[4]), old) =
             Written(rs, s[3], Writers(rs, s[3], s[4]), old)
  BY <1>1 DEF B!Written, Written
<1> QED
  BY <1>2, <1>3 DEF B!Series, Series, B!Owners, Owners, B!Owner, Owner,
     B!LabelsOf, LabelsOf, B!Poisonous, Poisonous

LEMMA FinishIsApply ==
    ASSUME TypeOK, ApplyProgress, Finish
    PROVE  owner \in Owners /\ rows \in Snapshots /\ B!Apply(owner, rows)
<1>1. /\ pc = "delete"
      /\ drop = {}
      /\ gaugeBefore' = gauge
      /\ lastLabels' = [lastLabels EXCEPT ![owner] = LabelsOf(rows)]
      /\ owner \in Owners
      /\ rows \in Snapshots
  BY DEF Finish, Forget, TypeOK, Applying
<1>2. ASSUME NEW s \in Series PROVE gauge[s] = B!Applied(owner, rows)[s]
  <2>1. CASE Owner(s) # owner
    BY <1>1, <2>1, BoardVocabulary DEF B!Applied, ApplyProgress, Applying
  <2>2. CASE Owner(s) = owner
    <3>1. DeleteProgress(s)
      BY <1>1, <2>2 DEF ApplyProgress, Applying
    <3> QED
      BY <1>1, <2>2, <3>1, BoardVocabulary DEF DeleteProgress, Gone, B!Applied
  <2> QED
    BY <2>1, <2>2
<1>3. gauge = B!Applied(owner, rows)
  BY <1>2, BoardVocabulary DEF B!Applied, TypeOK
<1> QED
  BY <1>1, <1>3, BoardVocabulary DEF B!Apply

LEMMA PanicIsSpoil ==
    ASSUME TypeOK, ApplyProgress, NEW c \in Columns, Panic(c)
    PROVE  owner \in Owners /\ rows \in Snapshots /\ B!Spoil(owner, rows)
<1>1. /\ pc = "set"
      /\ row \in DOMAIN rows
      /\ rows[row].cell[c] # Null
      /\ rows[row].label \in BadLabels
      /\ UNCHANGED <<gauge, lastLabels>>
      /\ gaugeBefore' = gauge
      /\ owner \in Owners
      /\ rows \in Snapshots
  BY DEF Panic, AtCell, Forget, TypeOK, Applying
<1>2. Poisonous(rows)
  BY <1>1 DEF Poisonous
<1>3. DOMAIN gaugeBefore' = Series
  BY <1>1 DEF TypeOK
<1>4. ASSUME NEW s \in Series, gauge[s] # gaugeBefore[s]
      PROVE  /\ Owner(s) = owner
             /\ s[4] \in LabelsOf(rows) \ BadLabels
             /\ gauge[s] \in { rows[i].cell[s[3]] :
                               i \in Writers(rows, s[3], s[4]) }
  <2> DEFINE W == WritersDone(s[3], s[4])
  <2>1. Owner(s) = owner
    BY <1>1, <1>4 DEF ApplyProgress, Applying
  <2>2. SetProgress(s)
    BY <1>1, <2>1 DEF ApplyProgress, Applying
  <2>3. gauge[s] = Written(rows, s[3], W, gaugeBefore[s])
    BY <1>1, <2>2 DEF SetProgress
  <2>4. W # {} /\ Latest(W) \in W /\ rows[Latest(W)].label \notin BadLabels
    BY <1>4, <2>2, <2>3 DEF SetProgress, Written
  <2>5. gauge[s] = rows[Latest(W)].cell[s[3]]
    BY <2>3, <2>4 DEF Written
  <2>6. Latest(W) \in Writers(rows, s[3], s[4])
    BY <2>4 DEF WritersDone
  <2>7. rows[Latest(W)].label = s[4] /\ Latest(W) \in DOMAIN rows
    BY <2>6 DEF Writers
  <2> QED
    BY <2>1, <2>4, <2>5, <2>6, <2>7 DEF LabelsOf
<1> QED
  BY <1>1, <1>2, <1>3, <1>4, BoardVocabulary DEF B!Spoil

(* Each result takes effect on the board as one step, or, if it panics,    *)
(* spoils only series of its own query and removes none.                   *)
THEOREM ImplementsBoard == Spec => BoardSpec
<1>1. Init => B!BoardInit
  BY BoardVocabulary DEF Init, B!BoardInit
<1>2. TypeOK /\ ApplyProgress /\ [Next]_vars => [B!BoardNext]_(B!boardVars)
  <2> SUFFICES ASSUME TypeOK, ApplyProgress, [Next]_vars
               PROVE  B!BoardNext \/ UNCHANGED <<gaugeBefore, lastLabels>>
    BY DEF B!boardVars
  <2>1. ASSUME NEW o \in Owners, RejectResult(o)
        PROVE  UNCHANGED <<gaugeBefore, lastLabels>>
    BY <2>1 DEF RejectResult, Forget, ApplyProgress, Applying
  <2>2. CASE Finish
    BY <2>2, FinishIsApply, BoardVocabulary DEF B!BoardNext
  <2>3. ASSUME NEW c \in Columns, Panic(c) PROVE B!BoardNext
    BY <2>3, PanicIsSpoil, BoardVocabulary DEF B!BoardNext
  <2> QED
    BY <2>1, <2>2, <2>3 DEF Next, Deliver, ApplyStep, Returned, Return,
       ReceiveRows, SkipNull, Lookup, Store, NextRow, BeginDelete, DeleteSeries,
       vars, resultVars
<1> QED
  BY <1>1, <1>2, TypeInit, TypeNext, ProgressInit, ProgressNext, PTL
  DEF Spec, BoardSpec, B!BoardSpec

============================================================================
