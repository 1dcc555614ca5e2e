------------------------- MODULE PlayerSnapshotProofs -------------------------
(***************************************************************************)
(* For any number of readers, fields and Stores, what Load returns is one  *)
(* snapshot that was published, and a fresh one.                           *)
(***************************************************************************)
EXTENDS PlayerSnapshot, TLAPS

\* The writer's three steps keep its own invariant.
LEMMA WriterStep ==
    ASSUME SeqlockInv, Store
    PROVE  TypeOK' /\ WriterInv' /\ UNCHANGED readerVars
<1> USE SnapshotAssumption DEF SeqlockInv, TypeOK, WriterInv, Fields
<1>1. CASE StoreBegin
  BY <1>1 DEF StoreBegin, readerVars
<1>2. CASE StoreField
  BY <1>2 DEF StoreField, readerVars
<1>3. CASE StoreEnd
  BY <1>3 DEF StoreEnd, readerVars
<1>4. QED
  BY <1>1, <1>2, <1>3 DEF Store

\* No complete Store is forgotten, and a sequence a reader may have started
\* from is never seen again once the writer has moved.
LEMMA WriterMoves ==
    ASSUME SeqlockInv, Store
    PROVE  /\ stores \in Nat /\ Completed \in Int /\ Completed' \in Int
           /\ Completed <= Completed'
           /\ stores' \in Nat /\ stores <= stores'
           /\ \A v \in Nat : v <= Completed => sequence' # 2 * v
<1> USE SnapshotAssumption DEF SeqlockInv, TypeOK, WriterInv
<1>1. CASE StoreBegin
  BY <1>1 DEF StoreBegin, Completed
<1>2. CASE StoreField
  BY <1>2 DEF StoreField, Completed, Fields
<1>3. CASE StoreEnd
  BY <1>3 DEF StoreEnd, Completed
<1>4. QED
  BY <1>1, <1>2, <1>3 DEF Store

\* Hence the writer breaks nothing a reader relies on.
LEMMA WriterKeepsReaders ==
    ASSUME SeqlockInv, Store
    PROVE  ReaderInv' /\ CoherentAndFresh'
<1>1. UNCHANGED readerVars
  BY WriterStep
<1>2. ASSUME NEW r \in Readers
      PROVE  /\ floor[r] <= Completed'
             /\ pc[r] = "fields" =>
                   \E v \in floor[r] .. Completed' :
                      start[r] = 2 * v /\ sequence' # start[r]
             /\ pc[r] = "returned" =>
                   \E v \in floor[r] .. stores' : \A f \in Fields : copy[r][f] = v
  <2>1. floor[r] \in Nat
    BY <1>2 DEF SeqlockInv, TypeOK
  <2>2. floor[r] <= Completed'
    BY <1>2, <2>1, WriterMoves DEF SeqlockInv, ReaderInv
  <2>3. ASSUME pc[r] = "fields"
        PROVE  \E v \in floor[r] .. Completed' :
                  start[r] = 2 * v /\ sequence' # start[r]
    <3>1. PICK v \in floor[r] .. Completed : start[r] = 2 * v
      BY <1>2, <2>3 DEF SeqlockInv, ReaderInv
    <3>2. v \in Nat /\ v <= Completed /\ v \in floor[r] .. Completed'
      BY <2>1, <3>1, WriterMoves
    <3>3. QED
      BY <3>1, <3>2, WriterMoves
  <2>4. ASSUME pc[r] = "returned"
        PROVE  \E v \in floor[r] .. stores' : \A f \in Fields : copy[r][f] = v
    <3>1. PICK v \in floor[r] .. stores : \A f \in Fields : copy[r][f] = v
      BY <1>2, <2>4 DEF SeqlockInv, CoherentAndFresh
    <3>2. v \in floor[r] .. stores'
      BY <2>1, <3>1, WriterMoves
    <3>3. QED
      BY <3>1, <3>2
  <2>5. QED
    BY <2>2, <2>3, <2>4
<1>3. ReaderInv'
  BY <1>1, <1>2 DEF ReaderInv, readerVars
<1>4. CoherentAndFresh'
  BY <1>1, <1>2 DEF CoherentAndFresh, readerVars
<1>5. QED
  BY <1>3, <1>4

\* A step of reader r leaves the writer and the other readers alone.
LEMMA ReaderStep ==
    ASSUME SeqlockInv, NEW r \in Readers, Load(r)
    PROVE  /\ TypeOK' /\ WriterInv'
           /\ UNCHANGED <<sequence, stores, Completed>>
           /\ \A q \in Readers \ {r} :
                 /\ pc'[q] = pc[q] /\ start'[q] = start[q] /\ next'[q] = next[q]
                 /\ copy'[q] = copy[q] /\ floor'[q] = floor[q]
<1> USE SnapshotAssumption DEF SeqlockInv, TypeOK, writerVars, Completed
<1>1. UNCHANGED writerVars
  BY DEF Load, LoadCalled, LoadStart, LoadField, LoadEnd
<1>2. WriterInv'
  BY <1>1 DEF WriterInv
<1>3. Completed \in Nat
  BY DEF WriterInv
<1>4. CASE LoadCalled(r)
  BY <1>1, <1>2, <1>3, <1>4 DEF LoadCalled, ReaderPc
<1>5. CASE LoadStart(r)
  BY <1>1, <1>2, <1>5 DEF LoadStart, ReaderPc
<1>6. CASE LoadField(r)
  <2>1. copy' \in [Readers -> [Fields -> Nat]]
    BY <1>6 DEF LoadField
  <2>2. next' \in [Readers -> 1 .. FieldCount + 1]
    BY <1>6 DEF LoadField, Fields
  <2>3. QED
    BY <1>1, <1>2, <1>6, <2>1, <2>2 DEF LoadField
<1>7. CASE LoadEnd(r)
  BY <1>1, <1>2, <1>7 DEF LoadEnd, ReaderPc
<1>8. QED
  BY <1>4, <1>5, <1>6, <1>7 DEF Load

\* What reader r itself may rely on after its step: LoadStart finds an even
\* sequence, so no Store is in progress; LoadField, if no Store began since,
\* loads a field of that snapshot; LoadEnd returns only in that case.
LEMMA ReaderOwnStep ==
    ASSUME SeqlockInv, NEW r \in Readers, Load(r)
    PROVE  /\ floor'[r] <= Completed
           /\ pc'[r] = "fields" =>
                 \E v \in floor'[r] .. Completed :
                    /\ start'[r] = 2 * v
                    /\ sequence = start'[r] =>
                          \A f \in Fields : f < next'[r] => copy'[r][f] = v
           /\ pc'[r] = "returned" =>
                 \E v \in floor'[r] .. stores : \A f \in Fields : copy'[r][f] = v
<1> USE SnapshotAssumption
<1>1. /\ floor[r] \in Nat /\ stores \in Nat /\ Completed \in Nat
      /\ floor[r] <= Completed /\ Completed <= stores
  BY DEF SeqlockInv, TypeOK, WriterInv, ReaderInv, Completed
<1>2. CASE LoadCalled(r)
  BY <1>1, <1>2 DEF LoadCalled, SeqlockInv, TypeOK
<1>3. CASE LoadStart(r)
  <2>1. sequence = 2 * Completed
    BY <1>3 DEF LoadStart, SeqlockInv, TypeOK, WriterInv, Completed
  <2>2. /\ pc'[r] = "fields" /\ start'[r] = sequence /\ next'[r] = 1
        /\ floor'[r] = floor[r]
    BY <1>3 DEF LoadStart, SeqlockInv, TypeOK
  <2>3. \A f \in Fields : ~(f < next'[r])
    BY <2>2 DEF Fields
  <2>4. QED
    BY <1>1, <2>1, <2>2, <2>3
<1>4. CASE LoadField(r)
  <2>1. PICK v \in floor[r] .. Completed :
              /\ start[r] = 2 * v
              /\ sequence = start[r] =>
                    \A f \in Fields : f < next[r] => copy[r][f] = v
    BY <1>4 DEF LoadField, SeqlockInv, ReaderInv
  <2>2. /\ pc'[r] = "fields" /\ start'[r] = start[r] /\ floor'[r] = floor[r]
        /\ next[r] \in Fields /\ next'[r] = next[r] + 1
        /\ copy'[r] = [copy[r] EXCEPT ![next[r]] = memory[next[r]]]
    BY <1>4 DEF LoadField, SeqlockInv, TypeOK
  <2>3. ASSUME sequence = start[r], NEW f \in Fields, f < next'[r]
        PROVE  copy'[r][f] = v
    <3>1. writing = 0 /\ stores = v
      BY <1>1, <2>1, <2>3 DEF SeqlockInv, TypeOK, WriterInv, Completed
    <3>2. CASE f = next[r]
      BY <2>2, <3>1, <3>2 DEF SeqlockInv, TypeOK, WriterInv
    <3>3. CASE f # next[r]
      <4>1. f < next[r]
        BY <2>2, <2>3, <3>3 DEF Fields
      <4>2. QED
        BY <2>1, <2>2, <2>3, <3>3, <4>1 DEF SeqlockInv, TypeOK
    <3>4. QED
      BY <3>2, <3>3
  <2>4. QED
    BY <1>1, <2>1, <2>2, <2>3
<1>5. CASE LoadEnd(r)
  <2>1. PICK v \in floor[r] .. Completed :
              /\ start[r] = 2 * v
              /\ sequence = start[r] =>
                    \A f \in Fields : f < next[r] => copy[r][f] = v
    BY <1>5 DEF LoadEnd, SeqlockInv, ReaderInv
  <2>2. /\ pc'[r] = IF sequence = start[r] THEN "returned" ELSE "start"
        /\ floor'[r] = floor[r] /\ copy'[r] = copy[r] /\ next[r] = FieldCount + 1
    BY <1>5 DEF LoadEnd, SeqlockInv, TypeOK
  <2>3. \A f \in Fields : f < next[r]
    BY <2>2 DEF Fields
  <2>4. v \in floor[r] .. stores
    BY <1>1, <2>1
  <2>5. QED
    BY <1>1, <2>1, <2>2, <2>3, <2>4
<1>6. QED
  BY <1>2, <1>3, <1>4, <1>5 DEF Load

LEMMA ReaderKeepsReaders ==
    ASSUME SeqlockInv, NEW r \in Readers, Load(r)
    PROVE  ReaderInv' /\ CoherentAndFresh'
<1>1. ReaderInv'
  BY ReaderStep, ReaderOwnStep DEF SeqlockInv, ReaderInv
<1>2. CoherentAndFresh'
  BY ReaderStep, ReaderOwnStep DEF SeqlockInv, CoherentAndFresh
<1>3. QED
  BY <1>1, <1>2

\* SeqlockInv holds in every reachable state: the writer's sequence counts its
\* Stores and a reader that saw no Store begin holds fields of one snapshot.
THEOREM SeqlockCorrect == Spec => []SeqlockInv
<1>1. Init => SeqlockInv
  <2> SUFFICES ASSUME Init PROVE SeqlockInv
    OBVIOUS
  <2> USE SnapshotAssumption DEF Init
  <2>1. TypeOK
    BY DEF TypeOK, Fields, ReaderPc
  <2>2. WriterInv
    BY DEF WriterInv, Fields
  <2>3. ReaderInv
    <3>1. ASSUME NEW r \in Readers
          PROVE  floor[r] <= Completed /\ pc[r] # "fields"
      BY <3>1 DEF Completed
    <3>2. QED
      BY <3>1 DEF ReaderInv
  <2>4. CoherentAndFresh
    BY DEF CoherentAndFresh
  <2>5. QED
    BY <2>1, <2>2, <2>3, <2>4 DEF SeqlockInv
<1>2. SeqlockInv /\ [Next]_vars => SeqlockInv'
  <2> SUFFICES ASSUME SeqlockInv, [Next]_vars PROVE SeqlockInv'
    OBVIOUS
  <2>1. CASE Store
    BY <2>1, WriterStep, WriterKeepsReaders DEF SeqlockInv
  <2>2. ASSUME NEW r \in Readers, Load(r) PROVE SeqlockInv'
    BY <2>2, ReaderStep, ReaderKeepsReaders DEF SeqlockInv
  <2>3. CASE UNCHANGED vars
    BY <2>3 DEF vars, writerVars, readerVars, SeqlockInv, TypeOK, WriterInv,
                ReaderInv, CoherentAndFresh, Completed
  <2>4. QED
    BY <2>1, <2>2, <2>3 DEF Next
<1>3. QED
  BY <1>1, <1>2, PTL DEF Spec

\* Load never returns a torn or an outdated snapshot (player_state.go:73-75),
\* whatever the number of readers and of fields.
THEOREM LoadCoherent == Spec => []CoherentAndFresh
<1>1. SeqlockInv => CoherentAndFresh
  BY DEF SeqlockInv
<1>2. QED
  BY <1>1, SeqlockCorrect, PTL
=============================================================================
