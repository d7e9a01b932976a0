------------------------- MODULE PhotoStorageProofs -------------------------
(***************************************************************************)
(* Rows and bytes agree, for any number of uploads, households, contents,  *)
(* classes and legacy rows, and any grace window.                          *)
(***************************************************************************)
EXTENDS PhotoStorage, FiniteSetTheorems, TLAPS

LEMMA Strings ==
  Local # S3 /\ Local \in Backend /\ S3 \in Backend /\ \A b \in Backend : b # S3 => b = Local
BY DEF Local, S3, Backend

LEMMA Constants ==
  /\ AnyRef \in Ref
  /\ Idle \in Call /\ Idle.pc = "idle"
  /\ NotReaping \in Reaper /\ NotReaping.pc = "idle" /\ NotReaping.candidates = {}
  /\ NotMigrating \in [id : 0..MaxPhotos, exposed : BOOLEAN] /\ NotMigrating.id = 0
  /\ Time \subseteq Nat /\ Missing \notin Time /\ Missing \in Int
<1>1. Time \subseteq Nat /\ Missing \notin Time /\ Missing \in Int
  BY PhotoAssumption DEF Time, Missing
<1>2. Ref # {}
  <2>1. PICK h \in Household, x \in Content : TRUE
    BY PhotoAssumption
  <2>2. 1 \in Class
    BY PhotoAssumption DEF Class
  <2>3. [household |-> h, class |-> 1, content |-> x] \in Ref
    BY <2>1, <2>2 DEF Ref
  <2> QED  BY <2>3
<1>3. AnyRef \in Ref
  BY <1>2 DEF AnyRef
<1>4. Idle \in Call /\ Idle.pc = "idle"
  BY <1>3 DEF Idle, Call
<1>5. NotReaping \in Reaper /\ NotReaping.pc = "idle" /\ NotReaping.candidates = {}
  <2>1. 1 \in Class /\ 0 \in (0 - GraceWindow)..MaxTime
    BY PhotoAssumption DEF Class
  <2> QED  BY <1>3, <2>1 DEF NotReaping, Reaper
<1>6. NotMigrating \in [id : 0..MaxPhotos, exposed : BOOLEAN] /\ NotMigrating.id = 0
  BY PhotoAssumption DEF NotMigrating
<1> QED  BY <1>1, <1>3, <1>4, <1>5, <1>6

\* A row's fields.
LEMMA RowFields ==
  ASSUME TypeOK, NEW p \in photos
  PROVE  /\ p \in Photo /\ p.id \in 1..MaxPhotos /\ p.id \in Nat \ {0} /\ p.ref \in Ref
         /\ p.backend \in Backend
<1>1. p \in Photo
  BY DEF TypeOK
<1>2. p.id \in 1..MaxPhotos /\ p.ref \in Ref /\ p.backend \in Backend
  BY <1>1 DEF Photo
<1> QED  BY <1>1, <1>2, PhotoAssumption

LEMMA InitIInv == Init => IInv
<1> SUFFICES ASSUME Init PROVE IInv
  OBVIOUS
<1>1. PICK ids \in [Legacy -> 1..MaxPhotos] :
        /\ \A r, s \in Legacy : ids[r] = ids[s] => r = s
        /\ \A r \in Legacy : ids[r] <= Cardinality(Legacy)
        /\ photos = {[id |-> ids[r], ref |-> r, hash |-> NoHash,
                      backend |-> Local, exposed |-> FALSE] : r \in Legacy}
  BY DEF Init
<1>2. Cardinality(Legacy) \in 0..MaxPhotos
  <2>1. IsFiniteSet(1..MaxPhotos) /\ Cardinality(1..MaxPhotos) = MaxPhotos
    <3>1. 1 \in Int /\ MaxPhotos \in Int /\ MaxPhotos \in Nat
      BY PhotoAssumption
    <3> QED  BY <3>1, FS_Interval
  <2>2. ids \in Injection(Legacy, 1..MaxPhotos)
    BY <1>1 DEF Injection, IsInjective
  <2>3. IsFiniteSet(Legacy) /\ Cardinality(Legacy) <= MaxPhotos
    BY <2>1, <2>2, FS_Injection
  <2> QED  BY <2>3, FS_CardinalityType, PhotoAssumption
<1> DEFINE row(r) == [id |-> ids[r], ref |-> r, hash |-> NoHash, backend |-> Local, exposed |-> FALSE]
<1>3. \A p \in photos : /\ p \in Photo /\ p.ref \in Legacy /\ p = row(p.ref) /\ p.id = ids[p.ref]
                        /\ p.hash = NoHash /\ p.backend = Local /\ ~ p.exposed
  <2> SUFFICES ASSUME NEW p \in photos
               PROVE  /\ p \in Photo /\ p.ref \in Legacy /\ p = row(p.ref) /\ p.id = ids[p.ref]
                      /\ p.hash = NoHash /\ p.backend = Local /\ ~ p.exposed
    OBVIOUS
  <2>1. PICK r \in Legacy : p = row(r)
    BY <1>1
  <2>2. r \in Ref /\ ids[r] \in 1..MaxPhotos
    BY PhotoAssumption
  <2>3. row(r) \in Photo
    BY <2>2, Strings DEF Photo
  <2> QED  BY <2>1, <2>3
<1>4. \A p, q \in photos : p.id = q.id => p = q
  <2> HIDE DEF row
  <2> QED  BY <1>1, <1>3
<1>5. objects \in [Backend -> [Ref -> Time \cup {Missing}]]
  BY PhotoAssumption DEF Init, Time
<1>6. TypeOK
  <2>1. photos \subseteq Photo
    BY <1>3
  <2>2. now \in Time /\ nextId \in 0..MaxPhotos
    BY <1>2, PhotoAssumption DEF Init, Time
  <2> QED  BY <1>4, <1>5, <2>1, <2>2, Constants DEF Init, TypeOK
<1>7. RowsAreGiven
  <2>1. Cardinality(Legacy) \in Nat
    BY <1>2
  <2> QED  BY <1>1, <1>3, <2>1, Constants DEF Init, RowsAreGiven
<1>8. OneRowPerContent
  BY <1>3 DEF OneRowPerContent
<1>9. ReferencesHaveBytes
  <2>1. \A p \in photos : Stored(p.backend, p.ref)
    <3>1. \A r \in Legacy : objects[Local][r] = 0
      BY Strings, PhotoAssumption DEF Init
    <3> QED  BY <1>3, <3>1, Constants DEF Stored, Missing
  <2> QED  BY <2>1, Constants DEF Init, ReferencesHaveBytes, At
<1>10. MarkedIsExposed
  <2>1. \A u \in Uploader : At(u, "idle")
    BY Constants DEF Init, At
  <2>2. migratable(migrator.id) = {}
    BY <1>6, RowFields, Constants DEF Init, migratable
  <2> QED  BY <2>1, <2>2, Constants DEF Init, MarkedIsExposed
<1>11. SweptSoFar
  BY Constants DEF Init, SweptSoFar
<1> QED  BY <1>6, <1>7, <1>8, <1>9, <1>10, <1>11 DEF IInv

-----------------------------------------------------------------------------
(***************************************************************************)
(* Upload and Delete.                                                      *)
(***************************************************************************)
\* What writing an object does to the stores.
LEMMA WrittenObjects ==
  ASSUME TypeOK, NEW b \in Backend, NEW ref \in Ref, objects' = written(b, ref)
  PROVE  /\ objects' \in [Backend -> [Ref -> Time \cup {Missing}]]
         /\ \A c \in Backend, r \in Ref :
              objects'[c][r] = IF c = b /\ r = ref THEN now ELSE objects[c][r]
         /\ \A c \in Backend, r \in Ref : Stored(c, r) => objects'[c][r] # Missing
         /\ objects'[b][ref] # Missing
<1>1. now \in Time /\ now # Missing
  BY Constants DEF TypeOK
<1>2. /\ objects' \in [Backend -> [Ref -> Time \cup {Missing}]]
      /\ \A c \in Backend, r \in Ref :
           objects'[c][r] = IF c = b /\ r = ref THEN now ELSE objects[c][r]
  BY <1>1 DEF TypeOK, written
<1> QED  BY <1>1, <1>2 DEF Stored

\* Nothing a run has to account for is written while it is under way.
LEMMA WritesAreYoung ==
  ASSUME IInv, NEW b \in Backend, NEW ref \in Ref, objects' = written(b, ref),
         UNCHANGED <<reaper, now>>
  PROVE  SweptSoFar'
<1> SUFFICES ASSUME reaper.pc # "idle"
             PROVE  /\ reaper.cutoff < now
                    /\ reaper.pc = "list" => reaper.candidates = {}
                    /\ \A r \in Ref :
                         objects'[S3][r] # Missing /\ objects'[S3][r] <= reaper.cutoff /\ Listed(r) =>
                           r \in reaper.referenced \cup reaper.spared \/ marked(r)
  BY DEF SweptSoFar, Stored, Listed, marked
<1>1. /\ reaper.cutoff < now
      /\ reaper.pc = "list" => reaper.candidates = {}
  BY DEF IInv, SweptSoFar
<1>2. now \in Int /\ reaper.cutoff \in Int
  <2>1. reaper \in Reaper /\ now \in Time
    BY DEF IInv, TypeOK
  <2>2. reaper.cutoff \in (0 - GraceWindow)..MaxTime
    BY <2>1 DEF Reaper
  <2> QED  BY <2>1, <2>2, Constants, PhotoAssumption
<1>3. ASSUME NEW r \in Ref, objects'[S3][r] <= reaper.cutoff
      PROVE  objects'[S3][r] = objects[S3][r]
  BY <1>1, <1>2, <1>3, WrittenObjects, Strings DEF IInv
<1> QED  BY <1>1, <1>3 DEF IInv, SweptSoFar, Stored

LEMMA PutStep ==
  ASSUME IInv, NEW u \in Uploader, NEW ref \in Ref, Put(u, ref)
  PROVE  IInv'
<1> USE DEF IInv
<1> DEFINE e == writeBackend = S3 /\ marked(ref)
           c == [pc |-> "find", ref |-> ref, exposed |-> e]
<1>1. /\ objects' = written(writeBackend, ref) /\ writeBackend \in Backend
      /\ call' = [call EXCEPT ![u] = c]
      /\ UNCHANGED <<photos, writeBackend, migrator, reaper, nextId, now>>
  BY DEF Put, TypeOK
<1>2. c \in Call /\ c.pc = "find" /\ c.ref = ref /\ (c.exposed <=> e)
  BY DEF Call
<1> HIDE DEF c, e
<1>3. call'[u] = c /\ \A v \in Uploader \ {u} : call'[v] = call[v]
  BY <1>1 DEF TypeOK
<1>4. /\ objects' \in [Backend -> [Ref -> Time \cup {Missing}]]
      /\ \A b \in Backend, r \in Ref : Stored(b, r) => objects'[b][r] # Missing
      /\ objects'[writeBackend][ref] # Missing
  BY <1>1, WrittenObjects
<1>5. TypeOK'
  BY <1>1, <1>2, <1>4 DEF TypeOK
<1>6. RowsAreGiven' /\ OneRowPerContent'
  BY <1>1 DEF RowsAreGiven, OneRowPerContent
<1>7. ReferencesHaveBytes'
  <2>1. \A p \in photos : ~ p.exposed => objects'[p.backend][p.ref] # Missing
    BY <1>4, RowFields DEF ReferencesHaveBytes
  <2>2. \A v \in Uploader : ~ (call'[v].pc = "idle") /\ ~ call'[v].exposed =>
          objects'[writeBackend][call'[v].ref] # Missing
    <3>1. \A v \in Uploader : call[v].ref \in Ref
      BY DEF TypeOK, Call
    <3> QED  BY <1>1, <1>2, <1>3, <1>4, <3>1 DEF ReferencesHaveBytes, At
  <2> QED  BY <1>1, <2>1, <2>2 DEF ReferencesHaveBytes, Stored, At
<1>8. MarkedIsExposed'
  <2>1. \A r : marked(r)' <=> marked(r)
    BY <1>1 DEF marked
  <2>2. migratable(migrator.id)' = migratable(migrator.id)
    BY <1>1 DEF migratable
  <2>3. \A v \in Uploader : writeBackend = S3 /\ ~ (call'[v].pc = "idle") /\ marked(call'[v].ref)
          => call'[v].exposed
    BY <1>2, <1>3 DEF MarkedIsExposed, At, e
  <2>4. ~ migrator.exposed =>
          \A p \in migratable(migrator.id) : objects'[S3][p.ref] # Missing /\ ~ marked(p.ref)
    BY <1>4, RowFields, Strings DEF MarkedIsExposed, migratable
  <2> QED  BY <1>1, <2>1, <2>2, <2>3, <2>4 DEF MarkedIsExposed, At, Stored
<1>9. SweptSoFar'
  BY <1>1, WritesAreYoung
<1> QED  BY <1>5, <1>6, <1>7, <1>8, <1>9

\* A call that changes nothing but itself: it ends, or goes on with the
\* reference it has.
LEMMA UploadMoves ==
  ASSUME IInv, NEW u \in Uploader, NEW c \in Call, call' = [call EXCEPT ![u] = c],
         \/ c.pc = "idle"
         \/ /\ call[u].pc # "idle"
            /\ c.ref = call[u].ref /\ c.exposed = call[u].exposed,
         UNCHANGED <<objects, photos, writeBackend, migrator, reaper, nextId, now>>
  PROVE  IInv'
<1> USE DEF IInv
<1>1. call'[u] = c /\ \A v \in Uploader \ {u} : call'[v] = call[v]
  BY DEF TypeOK
<1>2. TypeOK'
  BY DEF TypeOK
<1>3. RowsAreGiven' /\ OneRowPerContent' /\ SweptSoFar'
  BY DEF RowsAreGiven, OneRowPerContent, SweptSoFar, Stored, Listed, marked
<1>4. ReferencesHaveBytes'
  BY <1>1 DEF ReferencesHaveBytes, Stored, At
<1>5. MarkedIsExposed'
  BY <1>1 DEF MarkedIsExposed, marked, migratable, Stored, At
<1> QED  BY <1>2, <1>3, <1>4, <1>5

LEMMA ReturnStep ==
  ASSUME IInv, NEW u \in Uploader, Return(u),
         UNCHANGED <<objects, photos, writeBackend, migrator, reaper, nextId, now>>
  PROVE  IInv'
BY Constants, UploadMoves DEF Return

LEMMA GoStep ==
  ASSUME IInv, NEW u \in Uploader, NEW pc \in {"open", "create", "refind"}, Go(u, pc),
         ~ At(u, "idle"),
         UNCHANGED <<objects, photos, writeBackend, migrator, reaper, nextId, now>>
  PROVE  IInv'
<1> DEFINE c == [call[u] EXCEPT !.pc = pc]
<1>1. call[u] \in Call /\ call' = [call EXCEPT ![u] = c]
  BY DEF IInv, TypeOK, Go
<1>2. c \in Call /\ c.ref = call[u].ref /\ c.exposed = call[u].exposed
  BY <1>1 DEF Call
<1> HIDE DEF c
<1> QED  BY <1>1, <1>2, UploadMoves DEF At

LEMMA CreateStep ==
  ASSUME IInv, NEW u \in Uploader, Create(u)
  PROVE  IInv'
<1> USE DEF IInv
<1>1. /\ call[u].pc = "create" /\ call[u] \in Call
      /\ UNCHANGED <<objects, writeBackend, migrator, reaper, now>>
  BY DEF Create, At, TypeOK
<1>2. CASE duplicate(call[u].ref)
  <2>1. Go(u, "refind") /\ UNCHANGED <<photos, nextId>>
    BY <1>2 DEF Create
  <2> QED  BY <1>1, <2>1, GoStep DEF At
<1>3. CASE ~ duplicate(call[u].ref)
  <2> DEFINE ref == call[u].ref
             row == [id |-> nextId + 1, ref |-> ref, hash |-> ref.content,
                     backend |-> writeBackend, exposed |-> call[u].exposed]
  <2>1. /\ nextId < MaxPhotos /\ nextId' = nextId + 1 /\ photos' = photos \cup {row}
        /\ call' = [call EXCEPT ![u] = Idle]
    BY <1>3 DEF Create, Return
  <2>2. ref \in Ref /\ ref.content \in Content /\ nextId \in Nat /\ writeBackend \in Backend
        /\ call[u].exposed \in BOOLEAN /\ nextId + 1 \in 1..MaxPhotos
    BY <1>1, <2>1, PhotoAssumption DEF TypeOK, Call, Ref
  <2>3. /\ row \in Photo /\ row.id = nextId + 1 /\ row.ref = ref /\ row.hash = ref.content
        /\ row.backend = writeBackend /\ row.exposed = call[u].exposed
    BY <2>2 DEF Photo
  <2> HIDE DEF row
  <2>4. call'[u] = Idle /\ \A v \in Uploader \ {u} : call'[v] = call[v]
    BY <2>1 DEF TypeOK
  <2>5. \A p \in photos : p.id # row.id
    BY <2>2, <2>3, RowFields DEF RowsAreGiven
  <2>6. TypeOK'
    <3>1. call' \in [Uploader -> Call]
      BY <2>1, Constants DEF TypeOK
    <3>2. photos' \subseteq Photo /\ nextId' \in 0..MaxPhotos
      BY <2>1, <2>2, <2>3 DEF TypeOK
    <3>3. \A p, q \in photos' : p.id = q.id => p = q
      BY <2>1, <2>5 DEF TypeOK
    <3> QED  BY <1>1, <3>1, <3>2, <3>3 DEF TypeOK
  <2>7. RowsAreGiven'
    <3>1. \A p \in photos : p.id \in Nat
      BY RowFields
    <3>2. migrator.id \in Nat
      BY DEF TypeOK
    <3> QED  BY <1>1, <2>1, <2>2, <2>3, <3>1, <3>2 DEF RowsAreGiven
  <2>8. OneRowPerContent'
    <3>1. \A p \in photos : ~ (p.hash = row.hash /\ p.ref.household = row.ref.household)
      BY <1>3, <2>3 DEF duplicate, Find
    <3> QED  BY <2>1, <3>1 DEF OneRowPerContent
  <2>9. ReferencesHaveBytes'
    <3>1. ~ row.exposed => Stored(row.backend, row.ref)
      BY <1>1, <2>3 DEF ReferencesHaveBytes, At
    <3> QED  BY <1>1, <2>1, <2>4, <3>1, Constants DEF ReferencesHaveBytes, Stored, At
  <2>10. MarkedIsExposed'
    <3>1. migratable(migrator.id)' = migratable(migrator.id)
      <4>1. row.id # migrator.id
        BY <2>2, <2>3 DEF RowsAreGiven, TypeOK
      <4> QED  BY <1>1, <2>1, <4>1 DEF migratable
    <3>2. \A r : marked(r)' <=> marked(r)
      BY <1>1 DEF marked
    <3>3. reaper.pc = "delete" /\ row.backend = S3 /\ row.ref = reaper.target => row.exposed
      BY <1>1, <2>3 DEF MarkedIsExposed, marked, At
    <3>4. reaper'.pc = "delete" =>
            \A p \in photos' : p.backend = S3 /\ p.ref = reaper'.target => p.exposed
      BY <1>1, <2>1, <3>3 DEF MarkedIsExposed
    <3>5. \A v \in Uploader : writeBackend = S3 /\ ~ (call'[v].pc = "idle") /\ marked(call'[v].ref)
            => call'[v].exposed
      BY <2>4, Constants DEF MarkedIsExposed, At
    <3>6. ~ migrator.exposed =>
            \A p \in migratable(migrator.id) : Stored(S3, p.ref) /\ ~ marked(p.ref)
      BY DEF MarkedIsExposed
    <3> QED  BY <1>1, <3>1, <3>2, <3>4, <3>5, <3>6 DEF MarkedIsExposed, At, Stored
  <2>11. SweptSoFar'
    BY <1>1 DEF SweptSoFar, Stored, Listed, marked
  <2> QED  BY <2>6, <2>7, <2>8, <2>9, <2>10, <2>11
<1> QED  BY <1>2, <1>3

LEMMA UploadStep ==
  ASSUME IInv, NEW u \in Uploader, Upload(u)
  PROVE  IInv'
<1>1. CASE FindByContentHash(u)
  BY <1>1, ReturnStep, GoStep DEF FindByContentHash, At
<1>2. CASE takenAt(u)
  BY <1>2, ReturnStep, GoStep DEF takenAt, At
<1>3. CASE FindWinner(u) \/ UploadFails(u)
  BY <1>3, ReturnStep DEF FindWinner, UploadFails
<1> QED  BY <1>1, <1>2, <1>3, PutStep, CreateStep DEF Upload

LEMMA DeleteStep ==
  ASSUME IInv, NEW household, NEW p \in photos, Delete(household, p)
  PROVE  IInv'
<1> USE DEF IInv
<1>1. photos' \subseteq photos /\ UNCHANGED <<objects, writeBackend, call, migrator, reaper, nextId, now>>
  BY DEF Delete
<1>2. TypeOK' /\ RowsAreGiven' /\ OneRowPerContent'
  BY <1>1 DEF TypeOK, RowsAreGiven, OneRowPerContent
<1>3. ReferencesHaveBytes' /\ MarkedIsExposed'
  BY <1>1 DEF ReferencesHaveBytes, MarkedIsExposed, marked, migratable, Stored, At
<1>4. SweptSoFar'
  BY <1>1 DEF SweptSoFar, Stored, Listed, marked
<1> QED  BY <1>2, <1>3, <1>4

-----------------------------------------------------------------------------
(***************************************************************************)
(* The migrator and the configuration.                                     *)
(***************************************************************************)
LEMMA CopyObjectStep ==
  ASSUME IInv, NEW p \in photos, CopyObject(p)
  PROVE  IInv'
<1> USE DEF IInv
<1> DEFINE e == marked(p.ref)
<1>1. /\ objects' = IF Stored(S3, p.ref) THEN objects ELSE written(S3, p.ref)
      /\ migrator' = [id |-> p.id, exposed |-> e]
      /\ UNCHANGED <<photos, writeBackend, call, reaper, nextId, now>>
  BY DEF CopyObject
<1>2. p.ref \in Ref /\ p.id \in 0..MaxPhotos
  BY RowFields
<1>3. migrator' \in [id : 0..MaxPhotos, exposed : BOOLEAN] /\ migrator'.id = p.id /\ (migrator'.exposed <=> e)
  BY <1>1, <1>2 DEF marked
<1> HIDE DEF e
<1>4. /\ objects' \in [Backend -> [Ref -> Time \cup {Missing}]]
      /\ \A b \in Backend, r \in Ref : Stored(b, r) => objects'[b][r] # Missing
      /\ objects'[S3][p.ref] # Missing
  <2>1. CASE Stored(S3, p.ref)
    BY <1>1, <2>1 DEF TypeOK, Stored
  <2>2. CASE ~ Stored(S3, p.ref)
    BY <1>1, <1>2, <2>2, WrittenObjects, Strings
  <2> QED  BY <2>1, <2>2
<1>5. TypeOK'
  BY <1>1, <1>3, <1>4 DEF TypeOK
<1>6. RowsAreGiven' /\ OneRowPerContent'
  BY <1>1, <1>3 DEF RowsAreGiven, OneRowPerContent
<1>7. ReferencesHaveBytes'
  <2>1. \A q \in photos : ~ q.exposed => objects'[q.backend][q.ref] # Missing
    BY <1>4, RowFields DEF ReferencesHaveBytes
  <2>2. \A v \in Uploader : call[v].ref \in Ref /\ writeBackend \in Backend
    BY DEF TypeOK, Call
  <2> QED  BY <1>1, <1>4, <2>1, <2>2 DEF ReferencesHaveBytes, Stored, At
<1>8. MarkedIsExposed'
  <2>1. \A r : marked(r)' <=> marked(r)
    BY <1>1 DEF marked
  <2>2. \A q \in migratable(migrator.id)' : q = p
    BY <1>1, <1>3 DEF migratable, TypeOK
  <2>3. ~ migrator'.exposed => ~ marked(p.ref)
    BY <1>3 DEF e
  <2> QED  BY <1>1, <1>4, <2>1, <2>2, <2>3 DEF MarkedIsExposed, At, Stored
<1>9. SweptSoFar'
  <2>1. CASE Stored(S3, p.ref)
    BY <1>1, <2>1 DEF SweptSoFar, Stored, Listed, marked
  <2>2. CASE ~ Stored(S3, p.ref)
    BY <1>1, <1>2, <2>2, WritesAreYoung, Strings
  <2> QED  BY <2>1, <2>2
<1> QED  BY <1>5, <1>6, <1>7, <1>8, <1>9

LEMMA MigratorFailsStep ==
  ASSUME IInv, MigratorFails
  PROVE  IInv'
<1> USE DEF IInv
<1>1. migrator' = NotMigrating /\ UNCHANGED <<objects, photos, writeBackend, call, reaper, nextId, now>>
  BY DEF MigratorFails
<1>2. migratable(migrator.id)' = {}
  BY <1>1, RowFields, Constants DEF migratable
<1>3. TypeOK' /\ RowsAreGiven' /\ OneRowPerContent'
  BY <1>1, Constants DEF TypeOK, RowsAreGiven, OneRowPerContent
<1>4. ReferencesHaveBytes' /\ MarkedIsExposed' /\ SweptSoFar'
  BY <1>1, <1>2 DEF ReferencesHaveBytes, MarkedIsExposed, SweptSoFar, Stored, Listed, marked, At
<1> QED  BY <1>3, <1>4

LEMMA MigrateStorageBackendStep ==
  ASSUME IInv, MigrateStorageBackend
  PROVE  IInv'
<1> USE DEF IInv
<1> DEFINE id == migrator.id
           flip(p) == [p EXCEPT !.backend = S3, !.hash = p.ref.content, !.exposed = migrator.exposed]
           keeps(p) == p.hash = NoHash /\ duplicate(p.ref)
<1>1. /\ photos' = (photos \ migratable(id)) \cup {IF keeps(p) THEN p ELSE flip(p) : p \in migratable(id)}
      /\ migrator' = NotMigrating
      /\ UNCHANGED <<objects, writeBackend, call, reaper, nextId, now>>
  BY DEF MigrateStorageBackend
<1>2. CASE \A p \in migratable(id) : keeps(p)
  <2>1. photos' = photos
    BY <1>1, <1>2 DEF migratable
  <2>2. MigratorFails
    BY <1>1, <2>1 DEF MigrateStorageBackend, MigratorFails
  <2> QED  BY <2>2, MigratorFailsStep
<1>3. CASE \E p \in migratable(id) : ~ keeps(p)
  <2>1. PICK p \in migratable(id) : ~ keeps(p)
    BY <1>3
  <2>2. p \in photos /\ p.id = id /\ p.backend = Local /\ migratable(id) = {p}
    BY <2>1 DEF migratable, TypeOK
  <2> DEFINE row == flip(p)
  <2>3. photos' = (photos \ {p}) \cup {row}
    <3>1. photos' = (photos \ {p}) \cup {IF keeps(q) THEN q ELSE flip(q) : q \in {p}}
      BY <1>1, <2>2
    <3> HIDE DEF keeps, flip
    <3> QED  BY <2>1, <3>1
  <2>4. p \in Photo /\ p.ref \in Ref /\ p.ref.content \in Content /\ migrator.exposed \in BOOLEAN
    BY <2>2, RowFields DEF Ref, TypeOK
  <2>5. /\ row \in Photo /\ row.id = p.id /\ row.ref = p.ref /\ row.hash = p.ref.content
        /\ row.backend = S3 /\ row.exposed = migrator.exposed
    BY <2>4, Strings DEF Photo
  <2> HIDE DEF row, keeps
  <2>6. \A q \in photos \ {p} : q.id # row.id
    BY <2>2, <2>5 DEF TypeOK
  <2>7. TypeOK'
    <3>1. photos' \subseteq Photo /\ \A q, s \in photos' : q.id = s.id => q = s
      BY <2>3, <2>5, <2>6 DEF TypeOK
    <3> QED  BY <1>1, <3>1, Constants DEF TypeOK
  <2>8. RowsAreGiven'
    BY <1>1, <2>2, <2>3, <2>5, Constants DEF RowsAreGiven, TypeOK
  <2>9. OneRowPerContent'
    <3>1. ASSUME NEW q \in photos \ {p}, q.hash = row.hash, q.hash # NoHash,
                 q.ref.household = row.ref.household
          PROVE  FALSE
      <4>1. CASE p.hash = NoHash
        BY <2>1, <2>5, <3>1, <4>1 DEF keeps, duplicate, Find
      <4>2. CASE p.hash # NoHash
        BY <2>2, <2>5, <3>1, <4>2 DEF RowsAreGiven, OneRowPerContent
      <4> QED  BY <4>1, <4>2
    <3> QED  BY <2>3, <3>1 DEF OneRowPerContent
  <2>10. ReferencesHaveBytes'
    <3>1. ~ row.exposed => Stored(row.backend, row.ref)
      BY <2>1, <2>5 DEF MarkedIsExposed
    <3> QED  BY <1>1, <2>3, <3>1 DEF ReferencesHaveBytes, Stored, At
  <2>11. MarkedIsExposed'
    <3>1. migratable(migrator.id)' = {}
      <4>1. \A q \in photos' : q.id \in 1..MaxPhotos
        BY <2>7 DEF TypeOK, Photo
      <4>2. migrator'.id = 0
        BY <1>1, Constants
      <4> QED  BY <4>1, <4>2 DEF migratable
    <3>2. reaper.pc = "delete" /\ row.ref = reaper.target => row.exposed
      BY <2>1, <2>5 DEF MarkedIsExposed, marked
    <3>3. reaper.pc = "delete" =>
            \A q \in photos' : q.backend = S3 /\ q.ref = reaper.target => q.exposed
      BY <2>3, <3>2 DEF MarkedIsExposed
    <3> QED  BY <1>1, <3>1, <3>3 DEF MarkedIsExposed, marked, At
  <2>12. SweptSoFar'
    BY <1>1 DEF SweptSoFar, Stored, Listed, marked
  <2> QED  BY <2>7, <2>8, <2>9, <2>10, <2>11, <2>12
<1> QED  BY <1>2, <1>3

LEMMA SwitchBackendStep ==
  ASSUME IInv, SwitchBackend
  PROVE  IInv'
<1> USE DEF IInv
<1>1. /\ \A u \in Uploader : At(u, "idle")
      /\ writeBackend' \in Backend
      /\ UNCHANGED <<objects, photos, call, migrator, reaper, nextId, now>>
  BY DEF SwitchBackend
<1>2. TypeOK' /\ RowsAreGiven' /\ OneRowPerContent'
  BY <1>1 DEF TypeOK, RowsAreGiven, OneRowPerContent
<1>3. ReferencesHaveBytes' /\ MarkedIsExposed' /\ SweptSoFar'
  BY <1>1 DEF ReferencesHaveBytes, MarkedIsExposed, SweptSoFar, Stored, Listed, marked, migratable, At
<1> QED  BY <1>2, <1>3

LEMMA TickStep ==
  ASSUME IInv, Tick
  PROVE  IInv'
<1> USE DEF IInv
<1>1. /\ now \in Nat /\ now' = now + 1 /\ now' \in Time
      /\ UNCHANGED <<objects, photos, writeBackend, call, migrator, reaper, nextId>>
  BY PhotoAssumption DEF Tick, TypeOK, Time
<1>2. TypeOK' /\ RowsAreGiven' /\ OneRowPerContent'
  BY <1>1 DEF TypeOK, RowsAreGiven, OneRowPerContent
<1>3. ReferencesHaveBytes' /\ MarkedIsExposed'
  BY <1>1 DEF ReferencesHaveBytes, MarkedIsExposed, Stored, marked, migratable, At
<1>4. SweptSoFar'
  <2>1. reaper \in Reaper
    BY DEF TypeOK
  <2>2. reaper.cutoff \in Int
    BY <2>1, PhotoAssumption DEF Reaper
  <2> QED  BY <1>1, <2>2 DEF SweptSoFar, Stored, Listed, marked
<1> QED  BY <1>2, <1>3, <1>4

-----------------------------------------------------------------------------
(***************************************************************************)
(* ReaperService.Run.                                                      *)
(***************************************************************************)
\* A step of the run that marks nothing new and deletes nothing.
LEMMA Unmarking ==
  ASSUME IInv, UNCHANGED <<objects, photos, writeBackend, call, migrator, nextId, now>>,
         reaper' \in Reaper, \A r \in Ref : marked(r)' => marked(r),
         reaper'.pc = "delete" => reaper'.target \notin StorageRefs(S3),
         SweptSoFar'
  PROVE  IInv'
<1> USE DEF IInv
<1>1. TypeOK' /\ RowsAreGiven' /\ OneRowPerContent'
  BY DEF TypeOK, RowsAreGiven, OneRowPerContent
<1>2. ReferencesHaveBytes'
  BY DEF ReferencesHaveBytes, Stored, At
<1>3. MarkedIsExposed'
  <2>1. \A u \in Uploader : call[u].ref \in Ref
    BY DEF TypeOK, Call
  <2>2. \A u \in Uploader : writeBackend = S3 /\ ~ At(u, "idle") /\ marked(call[u].ref)'
          => call[u].exposed
    BY <2>1 DEF MarkedIsExposed
  <2>3. ~ migrator.exposed =>
          \A p \in migratable(migrator.id) : Stored(S3, p.ref) /\ ~ (marked(p.ref)')
    BY RowFields DEF MarkedIsExposed, migratable
  <2>4. reaper'.pc = "delete" =>
          \A p \in photos : p.backend = S3 /\ p.ref = reaper'.target => p.exposed
    BY DEF StorageRefs
  <2>5. migratable(migrator.id)' = migratable(migrator.id)
    BY DEF migratable
  <2> QED  BY <2>2, <2>3, <2>4, <2>5 DEF MarkedIsExposed, marked, At, Stored
<1> QED  BY <1>1, <1>2, <1>3

LEMMA RunEnds ==
  ASSUME IInv, reaper' = NotReaping,
         UNCHANGED <<objects, photos, writeBackend, call, migrator, nextId, now>>
  PROVE  IInv'
<1>1. SweptSoFar'
  BY Constants DEF SweptSoFar
<1>2. \A r \in Ref : marked(r)' => marked(r)
  BY Constants DEF marked
<1> QED  BY <1>1, <1>2, Constants, Unmarking

LEMMA ReferencedRefsStep ==
  ASSUME IInv, referencedRefs
  PROVE  IInv'
<1> DEFINE cut == now - GraceWindow
           refs == StorageRefs(S3)
<1>1. now \in Nat /\ now <= MaxTime /\ GraceWindow \in Nat \ {0}
  BY PhotoAssumption DEF IInv, TypeOK, Time
<1>2. cut \in (0 - GraceWindow)..MaxTime /\ cut < now
  BY <1>1, PhotoAssumption
<1>3. refs \subseteq Ref
  BY RowFields DEF StorageRefs, IInv
<1>4. /\ reaper' = [NotReaping EXCEPT !.pc = "list", !.cutoff = cut, !.referenced = refs]
      /\ UNCHANGED <<objects, photos, writeBackend, call, migrator, nextId, now>>
  BY DEF referencedRefs
<1> HIDE DEF cut, refs
<1>5. /\ reaper' \in Reaper /\ reaper'.pc = "list" /\ reaper'.cutoff = cut
      /\ reaper'.candidates = {} /\ reaper'.class = 1
  <2>1. NotReaping.class = 1
    BY DEF NotReaping
  <2> QED  BY <1>2, <1>3, <1>4, <2>1, Constants DEF Reaper
<1>6. \A r \in Ref : marked(r)' => marked(r)
  BY <1>5 DEF marked
<1>7. SweptSoFar'
  <2>1. \A r \in Ref : ~ (Listed(r)')
    <3>1. \A r \in Ref : r.class \in 1..NumClasses
      BY DEF Ref, Class
    <3> QED  BY <1>5, <3>1, PhotoAssumption DEF Listed
  <2> QED  BY <1>2, <1>4, <1>5, <2>1 DEF SweptSoFar
<1> QED  BY <1>4, <1>5, <1>6, <1>7, Unmarking

LEMMA OrphanCandidatesStep ==
  ASSUME IInv, orphanCandidates
  PROVE  IInv'
<1> USE DEF IInv
<1> DEFINE C == {ref \in Ref : /\ ref.class = reaper.class
                               /\ Stored(S3, ref)
                               /\ ref \notin reaper.referenced
                               /\ oldEnough(ref)}
           overdue(ref) == /\ ref.class = reaper.class
                           /\ Stored(S3, ref)
                           /\ objects[S3][ref] <= reaper.cutoff
           hit(u) == call[u] # Idle /\ writeBackend = S3 /\ overdue(call[u].ref)
           caught == \E p \in migratable(migrator.id) : overdue(p.ref)
<1>1. /\ reaper.pc = "list"
      /\ reaper' = [reaper EXCEPT !.pc = "check", !.candidates = C]
      /\ call' = [u \in Uploader |-> IF hit(u) THEN [call[u] EXCEPT !.exposed = TRUE] ELSE call[u]]
      /\ migrator' = IF caught THEN [migrator EXCEPT !.exposed = TRUE] ELSE migrator
      /\ UNCHANGED <<objects, photos, writeBackend, nextId, now>>
  BY DEF orphanCandidates
<1>2. \A ref \in C : ref \in Ref /\ overdue(ref)
  BY DEF oldEnough
<1>3. \A ref \in Ref : overdue(ref) => ref \in C \cup reaper.referenced
  BY DEF oldEnough
<1>4. C \subseteq Ref
  OBVIOUS
<1> HIDE DEF C, overdue
<1>5. reaper \in Reaper
  BY DEF TypeOK
<1>6. /\ reaper' \in Reaper /\ reaper'.pc = "check" /\ reaper'.candidates = C
      /\ reaper'.class = reaper.class /\ reaper'.cutoff = reaper.cutoff
      /\ reaper'.referenced = reaper.referenced /\ reaper'.spared = reaper.spared
  BY <1>1, <1>4, <1>5 DEF Reaper
<1>7. \A r : marked(r)' <=> r \in C
  BY <1>6 DEF marked
<1>8. \A u \in Uploader : /\ call'[u] \in Call /\ call'[u].pc = call[u].pc /\ call'[u].ref = call[u].ref
                          /\ hit(u) => call'[u].exposed
                          /\ call[u].exposed => call'[u].exposed
  <2> SUFFICES ASSUME NEW u \in Uploader
               PROVE  /\ call'[u] \in Call /\ call'[u].pc = call[u].pc /\ call'[u].ref = call[u].ref
                      /\ hit(u) => call'[u].exposed
                      /\ call[u].exposed => call'[u].exposed
    OBVIOUS
  <2>1. call[u] \in Call
    BY DEF TypeOK
  <2>2. call'[u] = IF hit(u) THEN [call[u] EXCEPT !.exposed = TRUE] ELSE call[u]
    BY <1>1
  <2> HIDE DEF hit
  <2> QED  BY <2>1, <2>2 DEF Call
<1>9. /\ migrator' \in [id : 0..MaxPhotos, exposed : BOOLEAN] /\ migrator'.id = migrator.id
      /\ caught => migrator'.exposed
      /\ migrator.exposed => migrator'.exposed
  <2>1. migrator \in [id : 0..MaxPhotos, exposed : BOOLEAN]
    BY DEF TypeOK
  <2> HIDE DEF caught
  <2> QED  BY <1>1, <2>1
<1>10. TypeOK'
  <2>1. call' \in [Uploader -> Call]
    <3> HIDE DEF hit
    <3> QED  BY <1>1, <1>8
  <2> QED  BY <1>1, <1>6, <1>9, <2>1 DEF TypeOK
<1>11. RowsAreGiven' /\ OneRowPerContent'
  BY <1>1, <1>9 DEF RowsAreGiven, OneRowPerContent
<1>12. ReferencesHaveBytes'
  <2>1. \A u \in Uploader : call'[u].pc # "idle" /\ ~ call'[u].exposed => Stored(writeBackend, call'[u].ref)
    <3> HIDE DEF hit
    <3> QED  BY <1>8 DEF ReferencesHaveBytes, At
  <2>2. \A p \in photos : ~ p.exposed => Stored(p.backend, p.ref)
    BY DEF ReferencesHaveBytes
  <2> QED  BY <1>1, <2>1, <2>2 DEF ReferencesHaveBytes, Stored, At
<1>13. MarkedIsExposed'
  <2>1. \A u \in Uploader : writeBackend = S3 /\ call'[u].pc # "idle" /\ call'[u].ref \in C
          => call'[u].exposed
    <3>1. \A u \in Uploader : call[u].pc # "idle" => call[u] # Idle
      BY Constants
    <3> QED  BY <1>2, <1>8, <3>1
  <2>2. ~ migrator'.exposed =>
          \A p \in migratable(migrator.id) : Stored(S3, p.ref) /\ p.ref \notin C
    BY <1>2, <1>9 DEF MarkedIsExposed
  <2>3. migratable(migrator.id)' = migratable(migrator.id)
    BY <1>1, <1>9 DEF migratable
  <2> QED  BY <1>1, <1>6, <1>7, <2>1, <2>2, <2>3 DEF MarkedIsExposed, At, Stored
<1>14. SweptSoFar'
  <2>1. reaper.cutoff < now /\ reaper.candidates = {}
    BY <1>1 DEF SweptSoFar
  <2>2. ASSUME NEW r \in Ref, Stored(S3, r), objects[S3][r] <= reaper.cutoff,
               r.class < reaper.class \/ r.class = reaper.class
        PROVE  r \in reaper.referenced \cup reaper.spared \/ r \in C
    <3>1. CASE r.class = reaper.class
      BY <1>3, <2>2, <3>1 DEF overdue
    <3>2. CASE r.class < reaper.class
      BY <1>1, <2>1, <2>2, <3>2 DEF SweptSoFar, Listed, marked
    <3> QED  BY <2>2, <3>1, <3>2
  <2> QED  BY <1>1, <1>6, <1>7, <2>1, <2>2 DEF SweptSoFar, Stored, Listed
<1> QED  BY <1>10, <1>11, <1>12, <1>13, <1>14

LEMMA RecheckStep ==
  ASSUME IInv, NEW ref \in Ref, recheck(ref)
  PROVE  IInv'
<1> USE DEF IInv
<1>1. /\ reaper.pc = "check" /\ ref \in reaper.candidates /\ reaper \in Reaper
      /\ UNCHANGED <<objects, photos, writeBackend, call, migrator, nextId, now>>
  BY DEF recheck, TypeOK
<1>2. CASE stillReferenced(ref)
  <2>1. reaper' = [reaper EXCEPT !.candidates = @ \ {ref}, !.spared = @ \cup {ref}]
    BY <1>2 DEF recheck
  <2>2. /\ reaper' \in Reaper /\ reaper'.pc = "check" /\ reaper'.class = reaper.class
        /\ reaper'.candidates = reaper.candidates \ {ref} /\ reaper'.spared = reaper.spared \cup {ref}
        /\ reaper'.cutoff = reaper.cutoff /\ reaper'.referenced = reaper.referenced
    BY <1>1, <2>1 DEF Reaper
  <2>3. \A r \in Ref : /\ marked(r)' => marked(r)
                       /\ marked(r) => marked(r)' \/ r \in reaper'.spared
    BY <1>1, <2>2 DEF marked
  <2>4. SweptSoFar'
    BY <1>1, <2>2, <2>3 DEF SweptSoFar, Stored, Listed
  <2> QED  BY <1>1, <2>2, <2>3, <2>4, Unmarking
<1>3. CASE ~ stillReferenced(ref)
  <2>1. reaper' = [reaper EXCEPT !.candidates = @ \ {ref}, !.pc = "delete", !.target = ref]
    BY <1>3 DEF recheck
  <2>2. /\ reaper' \in Reaper /\ reaper'.pc = "delete" /\ reaper'.class = reaper.class
        /\ reaper'.candidates = reaper.candidates \ {ref} /\ reaper'.target = ref
        /\ reaper'.spared = reaper.spared
        /\ reaper'.cutoff = reaper.cutoff /\ reaper'.referenced = reaper.referenced
    BY <1>1, <2>1 DEF Reaper
  <2>3. \A r \in Ref : marked(r)' <=> marked(r)
    BY <1>1, <2>2 DEF marked
  <2>4. SweptSoFar'
    BY <1>1, <2>2, <2>3 DEF SweptSoFar, Stored, Listed
  <2> QED  BY <1>1, <1>3, <2>2, <2>3, <2>4, Unmarking DEF stillReferenced
<1> QED  BY <1>2, <1>3

LEMMA DeleteObjectStep ==
  ASSUME IInv, deleteObject
  PROVE  IInv'
<1> USE DEF IInv
<1>1. /\ reaper.pc = "delete" /\ reaper \in Reaper /\ reaper.target \in Ref
      /\ objects' = [objects EXCEPT ![S3][reaper.target] = Missing]
      /\ reaper' = [reaper EXCEPT !.pc = "check", !.target = AnyRef]
      /\ UNCHANGED <<photos, writeBackend, call, migrator, nextId, now>>
  BY DEF deleteObject, TypeOK, Reaper
<1>2. /\ reaper' \in Reaper /\ reaper'.pc = "check" /\ reaper'.class = reaper.class
      /\ reaper'.candidates = reaper.candidates /\ reaper'.spared = reaper.spared
      /\ reaper'.cutoff = reaper.cutoff /\ reaper'.referenced = reaper.referenced
  BY <1>1, Constants DEF Reaper
<1>3. /\ objects' \in [Backend -> [Ref -> Time \cup {Missing}]]
      /\ \A b \in Backend, r \in Ref :
           objects'[b][r] = IF b = S3 /\ r = reaper.target THEN Missing ELSE objects[b][r]
  BY <1>1, Strings DEF TypeOK
<1>4. TypeOK' /\ RowsAreGiven' /\ OneRowPerContent'
  BY <1>1, <1>2, <1>3 DEF TypeOK, RowsAreGiven, OneRowPerContent
<1>5. ReferencesHaveBytes'
  <2>1. \A p \in photos : ~ p.exposed => objects'[p.backend][p.ref] # Missing
    BY <1>1, <1>3, RowFields DEF ReferencesHaveBytes, MarkedIsExposed, Stored
  <2>2. \A u \in Uploader : ~ At(u, "idle") /\ ~ call[u].exposed =>
          objects'[writeBackend][call[u].ref] # Missing
    <3>1. \A u \in Uploader : call[u].ref \in Ref /\ writeBackend \in Backend
      BY DEF TypeOK, Call
    <3> QED  BY <1>1, <1>3, <3>1 DEF ReferencesHaveBytes, MarkedIsExposed, marked, Stored
  <2> QED  BY <1>1, <2>1, <2>2 DEF ReferencesHaveBytes, Stored, At
<1>6. \A r : marked(r)' <=> r \in reaper.candidates
  BY <1>2 DEF marked
<1>7. MarkedIsExposed'
  <2>1. ~ migrator.exposed =>
          \A p \in migratable(migrator.id) : objects'[S3][p.ref] # Missing /\ p.ref \notin reaper.candidates
    BY <1>1, <1>3, RowFields, Strings DEF MarkedIsExposed, marked, migratable, Stored
  <2>2. \A u \in Uploader : writeBackend = S3 /\ ~ At(u, "idle") /\ call[u].ref \in reaper.candidates
          => call[u].exposed
    BY DEF MarkedIsExposed, marked
  <2>3. migratable(migrator.id)' = migratable(migrator.id)
    BY <1>1 DEF migratable
  <2> QED  BY <1>1, <1>2, <1>6, <2>1, <2>2, <2>3 DEF MarkedIsExposed, At, Stored
<1>8. SweptSoFar'
  <2>1. \A r \in Ref : objects'[S3][r] # Missing => r # reaper.target /\ objects'[S3][r] = objects[S3][r]
    BY <1>3, Strings
  <2>2. \A r \in Ref : r # reaper.target /\ marked(r) => r \in reaper.candidates
    BY DEF marked
  <2> QED  BY <1>1, <1>2, <1>6, <2>1, <2>2 DEF SweptSoFar, Stored, Listed
<1> QED  BY <1>4, <1>5, <1>7, <1>8

LEMMA NextClassStep ==
  ASSUME IInv, nextClass
  PROVE  IInv'
<1> USE DEF IInv
<1>1. /\ reaper.pc = "check" /\ reaper.candidates = {} /\ reaper \in Reaper
      /\ UNCHANGED <<objects, photos, writeBackend, call, migrator, nextId, now>>
  BY DEF nextClass, TypeOK
<1>2. CASE ~ moreClasses
  BY <1>1, <1>2, RunEnds DEF nextClass
<1>3. CASE moreClasses
  <2>1. reaper' = [reaper EXCEPT !.pc = "list", !.class = @ + 1]
    BY <1>3 DEF nextClass
  <2>2. reaper.class \in Nat /\ reaper.class + 1 \in Class
    BY <1>1, <1>3, PhotoAssumption DEF Reaper, Class, moreClasses
  <2>3. /\ reaper' \in Reaper /\ reaper'.pc = "list" /\ reaper'.class = reaper.class + 1
        /\ reaper'.candidates = {} /\ reaper'.spared = reaper.spared
        /\ reaper'.cutoff = reaper.cutoff /\ reaper'.referenced = reaper.referenced
    BY <1>1, <2>1, <2>2 DEF Reaper
  <2>4. \A r \in Ref : marked(r)' => marked(r)
    BY <2>3 DEF marked
  <2>5. SweptSoFar'
    <3>1. \A r \in Ref : ~ marked(r)
      BY <1>1 DEF marked
    <3>2. \A r \in Ref : Listed(r)' => Listed(r)
      <4>1. \A r \in Ref : r.class \in Nat
        BY DEF Ref, Class
      <4> QED  BY <1>1, <2>2, <2>3, <4>1 DEF Listed
    <3> QED  BY <1>1, <2>3, <3>1, <3>2 DEF SweptSoFar, Stored
  <2> QED  BY <1>1, <2>3, <2>4, <2>5, Unmarking
<1> QED  BY <1>2, <1>3

LEMMA RunStep ==
  ASSUME IInv, Run
  PROVE  IInv'
BY ReferencedRefsStep, OrphanCandidatesStep, RecheckStep, DeleteObjectStep, NextClassStep, RunEnds
   DEF Run, RunFails

-----------------------------------------------------------------------------
(***************************************************************************)
(* The theorems                                                            *)
(***************************************************************************)
\* Every reachable state satisfies the inductive invariant.
THEOREM Invariant == Spec => []IInv
<1>1. ASSUME IInv, [Next]_vars PROVE IInv'
  <2>1. CASE UNCHANGED vars
    BY <1>1, <2>1 DEF IInv, TypeOK, RowsAreGiven, OneRowPerContent, ReferencesHaveBytes,
                      MarkedIsExposed, SweptSoFar, Stored, At, marked, migratable, Listed, vars
  <2> QED  BY <1>1, <2>1, UploadStep, DeleteStep, CopyObjectStep, MigrateStorageBackendStep,
              MigratorFailsStep, SwitchBackendStep, RunStep, TickStep DEF Next
<1> QED  BY InitIInv, <1>1, PTL DEF Spec

\* Upload's dedup and the migrator's hash backfill never leave a household two
\* hashed rows of one content.
THEOREM OneRowPerContentHolds == Spec => []OneRowPerContent
<1>1. IInv => OneRowPerContent
  BY DEF IInv
<1> QED  BY <1>1, Invariant, PTL

\* A row's bytes are where its storage_backend says, unless the reference was
\* made while a reaper run could have had the object on its list.
THEOREM RowsHaveBytesHolds == Spec => []RowsHaveBytes
<1>1. IInv => RowsHaveBytes
  BY DEF IInv, ReferencesHaveBytes, RowsHaveBytes, OpenBytes
<1> QED  BY <1>1, Invariant, PTL

\* ReaperService.Run leaves no overdue object that was unreferenced throughout.
THEOREM SweepIsCompleteHolds == Spec => SweepIsComplete
<1>1. ASSUME IInv, nextClass, reaper'.pc = "idle", NEW ref \in Ref,
             Stored(S3, ref), objects[S3][ref] <= reaper.cutoff
      PROVE  ref \in reaper.referenced \cup reaper.spared
  <2>1. reaper.pc = "check" /\ reaper.candidates = {} /\ reaper \in Reaper
    BY <1>1 DEF nextClass, IInv, TypeOK
  <2>2. reaper.class = NumClasses
    <3>1. ~ moreClasses
      BY <1>1, <2>1 DEF nextClass, Reaper
    <3>2. reaper.class \in 1..NumClasses
      BY <2>1 DEF Reaper, Class
    <3> QED  BY <3>1, <3>2, PhotoAssumption DEF moreClasses
  <2>3. Listed(ref)
    <3>1. ref.class \in 1..NumClasses
      BY DEF Ref, Class
    <3> QED  BY <2>1, <2>2, <3>1, PhotoAssumption DEF Listed
  <2> QED  BY <1>1, <2>1, <2>3 DEF IInv, SweptSoFar, marked
<1>2. IInv /\ [Next]_vars =>
        [nextClass /\ reaper'.pc = "idle" =>
           \A ref \in Ref : Stored(S3, ref) /\ objects[S3][ref] <= reaper.cutoff =>
             ref \in reaper.referenced \cup reaper.spared]_vars
  BY <1>1
<1> QED  BY <1>2, Invariant, PTL DEF Spec, SweepIsComplete

=============================================================================
