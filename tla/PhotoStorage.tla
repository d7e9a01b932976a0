---------------------------- MODULE PhotoStorage ----------------------------
(***************************************************************************)
(* Photo rows and photo bytes: app.PhotoService, app.ReaperService, and    *)
(* the repository and stores under them (media/app, media/adapter).        *)
(*                                                                         *)
(* A row and the object it refers to live in two systems that share no     *)
(* transaction.  An upload writes the object first and the row last, a     *)
(* delete removes only the row, and the reaper later removes objects it    *)
(* believes nothing refers to.  Each call to the database or to a store is *)
(* one step (but for a read whose answer its own write makes again, in     *)
(* Delete and CopyObject), so uploads, deletes, a storage migrator and a   *)
(* reaper run can interleave at every one of them.                         *)
(***************************************************************************)
EXTENDS Integers, FiniteSets

CONSTANTS
  Uploader,     \* concurrent calls of PhotoService.Upload
  Household,
  Content,      \* distinct photo contents; a content stands for its sha256
  NumClasses,   \* the registered photo classes, in the order of their names
  Legacy,       \* refs of local rows older than content-hash dedup
  GraceWindow,  \* ReaperService.graceWindow
  MaxPhotos,    \* bound: how many rows are ever inserted
  MaxTime       \* bound: the last instant of the clock

Class == 1..NumClasses
Ref   == [household : Household, class : Class, content : Content]

ASSUME PhotoAssumption ==
  /\ Household # {} /\ Content # {}
  /\ NumClasses \in Nat \ {0}
  /\ Legacy \subseteq Ref
  /\ GraceWindow \in Nat \ {0}
  /\ MaxPhotos \in Nat
  /\ MaxTime \in Nat

VARIABLES
  objects,      \* per backend, the LastModified of the object at each ref
  photos,       \* the rows of the photo table
  writeBackend, \* the backend this deployment writes new photos to
  call,         \* the Upload each uploader is in
  migrator,     \* the row a storage migrator has copied and not yet flipped
  reaper,       \* the ReaperService.Run in progress
  nextId,       \* photo ids given to rows so far
  now

vars == <<objects, photos, writeBackend, call, migrator, reaper, nextId, now>>

-----------------------------------------------------------------------------
Local   == "local"
S3      == "s3"
Backend == {Local, S3}

Time    == 0..MaxTime
Missing == -1             \* no object at this ref
NoHash  == "no hash"      \* content_sha256 IS NULL

\* "exposed" is history, read by no action: the reference was being made while
\* a reaper run could already have had its object marked for deletion.
Photo == [id : 1..MaxPhotos, ref : Ref, hash : Content \cup {NoHash},
          backend : Backend, exposed : BOOLEAN]

AnyRef == CHOOSE r \in Ref : TRUE

Idle == [pc |-> "idle", ref |-> AnyRef, exposed |-> FALSE]
Call == [pc : {"idle", "find", "open", "create", "refind"}, ref : Ref,
         exposed : BOOLEAN]

NotMigrating == [id |-> 0, exposed |-> FALSE]

Reaper == [pc : {"idle", "list", "check", "delete"}, class : Class,
           cutoff : (0 - GraceWindow)..MaxTime, referenced : SUBSET Ref,
           candidates : SUBSET Ref, target : Ref, spared : SUBSET Ref]

\* "spared" is history too: the candidates the recheck found referenced.
NotReaping == [pc |-> "idle", class |-> 1, cutoff |-> 0, referenced |-> {},
               candidates |-> {}, target |-> AnyRef, spared |-> {}]

\* NewPhotoStoreResolver always builds the local store, and the S3 store only
\* when it is the one to write to; Resolve finds what was built.
Resolve(backend) == backend \in {Local, writeBackend}

Stored(backend, ref) == objects[backend][ref] # Missing

Find(household, hash) ==
  {p \in photos : p.ref.household = household /\ p.hash = hash}

\* OpenBytes and RawServe: what reading a row's photo comes to.
OpenBytes(p) ==
  IF ~ Resolve(p.backend) THEN "store not configured"
  ELSE IF ~ Stored(p.backend, p.ref) THEN "missing" ELSE "bytes"

\* ListAllStorageRefs, and ExistsByStorageRef for a member of it.
StorageRefs(backend) == {p.ref : p \in {q \in photos : q.backend = backend}}

Init ==
  /\ \E ids \in [Legacy -> 1..MaxPhotos] :
       /\ \A r, s \in Legacy : ids[r] = ids[s] => r = s
       /\ \A r \in Legacy : ids[r] <= Cardinality(Legacy)
       /\ photos = {[id |-> ids[r], ref |-> r, hash |-> NoHash,
                     backend |-> Local, exposed |-> FALSE] : r \in Legacy}
  /\ objects = [b \in Backend |->
                  [r \in Ref |-> IF b = Local /\ r \in Legacy THEN 0 ELSE Missing]]
  /\ writeBackend \in Backend
  /\ call = [u \in Uploader |-> Idle]
  /\ migrator = NotMigrating
  /\ reaper = NotReaping
  /\ nextId = Cardinality(Legacy)
  /\ now = 0

\* History: the run in progress has the object at ref on its list.
marked(ref) ==
  \/ ref \in reaper.candidates
  \/ reaper.pc = "delete" /\ reaper.target = ref

At(u, pc) == call[u].pc = pc

Go(u, pc) == call' = [call EXCEPT ![u].pc = pc]

Return(u) == call' = [call EXCEPT ![u] = Idle]

-----------------------------------------------------------------------------
(***************************************************************************)
(* Upload                                                                  *)
(***************************************************************************)
\* The object is at its final key, whole, or not there at all: the local store
\* renames a staged file into place, as S3's PutObject replaces an object.
\* Writing the same bytes again renews LastModified.
written(backend, ref) == [objects EXCEPT ![backend][ref] = now]

\* PhotoStore.Put on the write backend.
Put(u, ref) ==
  /\ At(u, "idle")
  /\ objects' = written(writeBackend, ref)
  /\ call' = [call EXCEPT ![u] = [pc |-> "find", ref |-> ref,
                                  exposed |-> writeBackend = S3 /\ marked(ref)]]
  /\ UNCHANGED <<photos, writeBackend, migrator, reaper, nextId, now>>

\* FindByContentHash: an earlier row of the same bytes is the answer.
FindByContentHash(u) ==
  /\ At(u, "find")
  /\ IF Find(call[u].ref.household, call[u].ref.content) # {}
     THEN Return(u)
     ELSE Go(u, "open")
  /\ UNCHANGED <<objects, photos, writeBackend, migrator, reaper, nextId, now>>

\* takenAt reopens the stored bytes; the upload fails if they are gone.
takenAt(u) ==
  /\ At(u, "open")
  /\ IF Stored(writeBackend, call[u].ref) THEN Go(u, "create") ELSE Return(u)
  /\ UNCHANGED <<objects, photos, writeBackend, migrator, reaper, nextId, now>>

\* Mutation: the unique index covers the storage ref, not the content hash.
duplicateByRef(ref) == \E p \in photos : p.ref = ref /\ p.hash = ref.content

\* photo_household_content_hash_uniq.
duplicate(ref) == Find(ref.household, ref.content) # {}

\* Create stamps the repository's backend, which is the write backend.
Create(u) ==
  /\ At(u, "create")
  /\ IF duplicate(call[u].ref)
     THEN Go(u, "refind") /\ UNCHANGED <<photos, nextId>>
     ELSE /\ nextId < MaxPhotos
          /\ nextId' = nextId + 1
          /\ photos' = photos \cup
                {[id |-> nextId + 1, ref |-> call[u].ref, hash |-> call[u].ref.content,
                  backend |-> writeBackend, exposed |-> call[u].exposed]}
          /\ Return(u)
  /\ UNCHANGED <<objects, writeBackend, migrator, reaper, now>>

\* The winner's row is the answer, or it is gone again and the upload fails.
FindWinner(u) ==
  /\ At(u, "refind")
  /\ Return(u)
  /\ UNCHANGED <<objects, photos, writeBackend, migrator, reaper, nextId, now>>

\* A database or store call fails, or the process stops: the call ends, and
\* nothing it wrote is taken back.
UploadFails(u) ==
  /\ ~ At(u, "idle")
  /\ Return(u)
  /\ UNCHANGED <<objects, photos, writeBackend, migrator, reaper, nextId, now>>

(***************************************************************************)
(* Delete: the row only, and only for the household that owns it.  The Get *)
(* before it decides nothing that the DELETE's WHERE clause does not.      *)
(***************************************************************************)
Delete(household, p) ==
  /\ p.ref.household = household
  /\ photos' = photos \ {p}
  /\ UNCHANGED <<objects, writeBackend, call, migrator, reaper, nextId, now>>

-----------------------------------------------------------------------------
(***************************************************************************)
(* Moving rows to the object store.  The migrator itself is a consumer of  *)
(* this library: it copies a local row's object unless ObjectExists finds  *)
(* one at the key, then asks the repository to flip the row.  The check    *)
(* and the copy are one step: whatever came between them could only have   *)
(* put the same bytes at the same key, or taken away what was to be        *)
(* overwritten.                                                            *)
(***************************************************************************)
CopyObject(p) ==
  /\ migrator = NotMigrating
  /\ Resolve(S3)
  /\ p.backend = Local
  /\ Stored(Local, p.ref)
  /\ objects' = IF Stored(S3, p.ref) THEN objects
                ELSE written(S3, p.ref)
  /\ migrator' = [id |-> p.id, exposed |-> marked(p.ref)]
  /\ UNCHANGED <<photos, writeBackend, call, reaper, nextId, now>>

\* The row is still there, and still local.
migratable(id) == {p \in photos : p.id = id /\ p.backend = Local}

\* Backfilling the hash of a legacy row runs into the unique index when the
\* same bytes have been uploaded since; the row then stays as it was.
MigrateStorageBackend ==
  /\ migrator # NotMigrating
  /\ photos' =
       (photos \ migratable(migrator.id)) \cup
         {IF p.hash = NoHash /\ duplicate(p.ref)
          THEN p
          ELSE [p EXCEPT !.backend = S3, !.hash = p.ref.content,
                         !.exposed = migrator.exposed]
            : p \in migratable(migrator.id)}
  /\ migrator' = NotMigrating
  /\ UNCHANGED <<objects, writeBackend, call, reaper, nextId, now>>

MigratorFails ==
  /\ migrator # NotMigrating
  /\ migrator' = NotMigrating
  /\ UNCHANGED <<objects, photos, writeBackend, call, reaper, nextId, now>>

\* A restart with another configuration; what was under way has failed.
SwitchBackend ==
  /\ \A u \in Uploader : At(u, "idle")
  /\ migrator = NotMigrating
  /\ reaper.pc = "idle"
  /\ \E b \in Backend \ {writeBackend} : writeBackend' = b
  /\ UNCHANGED <<objects, photos, call, migrator, reaper, nextId, now>>

-----------------------------------------------------------------------------
(***************************************************************************)
(* ReaperService.Run, over the object store (LocalPhotoStore cannot list)  *)
(***************************************************************************)
\* referencedRefs, and the cutoff the whole run uses.
referencedRefs ==
  /\ reaper.pc = "idle"
  /\ Resolve(S3)
  /\ reaper' = [NotReaping EXCEPT !.pc = "list", !.cutoff = now - GraceWindow,
                                  !.referenced = StorageRefs(S3)]
  /\ UNCHANGED <<objects, photos, writeBackend, call, migrator, nextId, now>>

\* Mutation: the grace window is left out, an object is listed however young.
oldEnoughAlways(ref) == TRUE

\* Mutation: an object exactly as old as the grace window is passed over.
oldEnoughStrict(ref) == objects[S3][ref] < reaper.cutoff

oldEnough(ref) == objects[S3][ref] <= reaper.cutoff

\* ListObjects of the class being swept, filtered; history: an upload that has
\* been under way for a grace window already may lose its object to this run.
orphanCandidates ==
  /\ reaper.pc = "list"
  /\ reaper' = [reaper EXCEPT !.pc = "check",
        !.candidates = {ref \in Ref : /\ ref.class = reaper.class
                                      /\ Stored(S3, ref)
                                      /\ ref \notin reaper.referenced
                                      /\ oldEnough(ref)}]
  /\ LET overdue(ref) == /\ ref.class = reaper.class
                         /\ Stored(S3, ref)
                         /\ objects[S3][ref] <= reaper.cutoff
     IN /\ call' = [u \in Uploader |->
                      IF call[u] # Idle /\ writeBackend = S3 /\ overdue(call[u].ref)
                      THEN [call[u] EXCEPT !.exposed = TRUE] ELSE call[u]]
        /\ migrator' = IF \E p \in migratable(migrator.id) : overdue(p.ref)
                       THEN [migrator EXCEPT !.exposed = TRUE] ELSE migrator
  /\ UNCHANGED <<objects, photos, writeBackend, nextId, now>>

\* Mutation: the snapshot taken at the start is trusted.
stillReferencedBySnapshot(ref) == ref \in reaper.referenced

\* existsByStorageRef.
stillReferenced(ref) == ref \in StorageRefs(S3)

\* The targeted recheck of the next candidate.
recheck(ref) ==
  /\ reaper.pc = "check"
  /\ ref \in reaper.candidates
  /\ reaper' =
       IF stillReferenced(ref)
       THEN [reaper EXCEPT !.candidates = @ \ {ref}, !.spared = @ \cup {ref}]
       ELSE [reaper EXCEPT !.candidates = @ \ {ref}, !.pc = "delete", !.target = ref]
  /\ UNCHANGED <<objects, photos, writeBackend, call, migrator, nextId, now>>

\* store.Delete; a missing object is not an error.
deleteObject ==
  /\ reaper.pc = "delete"
  /\ objects' = [objects EXCEPT ![S3][reaper.target] = Missing]
  /\ reaper' = [reaper EXCEPT !.pc = "check", !.target = AnyRef]
  /\ UNCHANGED <<photos, writeBackend, call, migrator, nextId, now>>

\* Run's loop over r.classes, which are sorted by name, has another round.
moreClasses == reaper.class < NumClasses

\* The candidates of one class are done with; the last class ends the run.
nextClass ==
  /\ reaper.pc = "check"
  /\ reaper.candidates = {}
  /\ reaper' = IF moreClasses
               THEN [reaper EXCEPT !.pc = "list", !.class = @ + 1]
               ELSE NotReaping
  /\ UNCHANGED <<objects, photos, writeBackend, call, migrator, nextId, now>>

\* Any query or store call of the run fails and Run returns at once.
RunFails ==
  /\ reaper.pc # "idle"
  /\ reaper' = NotReaping
  /\ UNCHANGED <<objects, photos, writeBackend, call, migrator, nextId, now>>

Tick ==
  /\ now < MaxTime
  /\ now' = now + 1
  /\ UNCHANGED <<objects, photos, writeBackend, call, migrator, reaper, nextId>>

-----------------------------------------------------------------------------
Upload(u) ==
  \/ \E ref \in Ref : Put(u, ref)
  \/ FindByContentHash(u)
  \/ takenAt(u)
  \/ Create(u)
  \/ FindWinner(u)
  \/ UploadFails(u)

Run ==
  \/ referencedRefs
  \/ orphanCandidates
  \/ \E ref \in Ref : recheck(ref)
  \/ deleteObject
  \/ nextClass
  \/ RunFails

Next ==
  \/ \E u \in Uploader : Upload(u)
  \/ \E household \in Household : \E p \in photos : Delete(household, p)
  \/ \E p \in photos : CopyObject(p)
  \/ MigrateStorageBackend
  \/ MigratorFails
  \/ SwitchBackend
  \/ Run
  \/ Tick

Spec == Init /\ [][Next]_vars

-----------------------------------------------------------------------------
(***************************************************************************)
(* Properties                                                              *)
(***************************************************************************)
\* Every variable has its type.
TypeOK ==
  /\ objects \in [Backend -> [Ref -> Time \cup {Missing}]]
  /\ photos \subseteq Photo
  /\ \A p, q \in photos : p.id = q.id => p = q
  /\ writeBackend \in Backend
  /\ call \in [Uploader -> Call]
  /\ migrator \in [id : 0..MaxPhotos, exposed : BOOLEAN]
  /\ reaper \in Reaper
  /\ nextId \in 0..MaxPhotos
  /\ now \in Time

\* A household never has two hashed rows for one content, whichever class,
\* backend or call they came from: the dedup of Upload and the hash backfill
\* of MigrateStorageBackend both go through the unique index.
OneRowPerContent ==
  \A p, q \in photos :
    /\ p.hash = q.hash
    /\ p.hash # NoHash
    /\ p.ref.household = q.ref.household
    => p = q

\* Reading a row's photo finds the bytes where its storage_backend says,
\* whatever the reaper has done, except for a reference made while a run had
\* the object on its list: the upload or the migration began with the object
\* listed, or was under way when the run listed an object a whole grace window
\* old.
RowsHaveBytes ==
  \A p \in photos : ~ p.exposed => OpenBytes(p) # "missing"

\* A run that ends normally leaves behind no object that was old enough, not
\* referenced when the run began, and not found referenced by the recheck.
SweepIsComplete ==
  [][nextClass /\ reaper'.pc = "idle" =>
       \A ref \in Ref :
         Stored(S3, ref) /\ objects[S3][ref] <= reaper.cutoff =>
           ref \in reaper.referenced \cup reaper.spared]_vars

\* What ReaperService's type comment promises of a run: an object younger than
\* the grace window is left alone, since it might be mid-upload.
YoungObjectsSurvive ==
  [][deleteObject /\ Stored(S3, reaper.target) =>
       objects[S3][reaper.target] <= reaper.cutoff]_vars

-----------------------------------------------------------------------------
(***************************************************************************)
(* The inductive invariant                                                 *)
(***************************************************************************)
\* No row, and no row being migrated, has an id yet to be given; a hash is of
\* the row's own content.
RowsAreGiven ==
  /\ \A p \in photos : p.id <= nextId /\ p.hash \in {NoHash, p.ref.content}
  /\ migrator.id <= nextId

\* The object is there for every reference that no run can have marked: a
\* row's, and that of an upload on its way to a row.
ReferencesHaveBytes ==
  /\ \A p \in photos : ~ p.exposed => Stored(p.backend, p.ref)
  /\ \A u \in Uploader :
       ~ At(u, "idle") /\ ~ call[u].exposed => Stored(writeBackend, call[u].ref)

\* What a run has marked is known to whoever would rely on it: the uploads to
\* that ref, the migrator, and, once the recheck has passed, the rows.
MarkedIsExposed ==
  /\ \A u \in Uploader :
       writeBackend = S3 /\ ~ At(u, "idle") /\ marked(call[u].ref) => call[u].exposed
  /\ ~ migrator.exposed =>
       \A p \in migratable(migrator.id) : Stored(S3, p.ref) /\ ~ marked(p.ref)
  /\ reaper.pc = "delete" =>
       \A p \in photos : p.backend = S3 /\ p.ref = reaper.target => p.exposed

\* The classes a run has listed, and what it has accounted for.
Listed(ref) ==
  \/ ref.class < reaper.class
  \/ ref.class = reaper.class /\ reaper.pc \in {"check", "delete"}

\* Every overdue object of a listed class was referenced, spared, or is still
\* marked; what is written during the run is not overdue.
SweptSoFar ==
  reaper.pc # "idle" =>
    /\ reaper.cutoff < now
    /\ reaper.pc = "list" => reaper.candidates = {}
    /\ \A ref \in Ref :
         Stored(S3, ref) /\ objects[S3][ref] <= reaper.cutoff /\ Listed(ref) =>
           ref \in reaper.referenced \cup reaper.spared \/ marked(ref)

IInv ==
  /\ TypeOK
  /\ RowsAreGiven
  /\ OneRowPerContent
  /\ ReferencesHaveBytes
  /\ MarkedIsExposed
  /\ SweptSoFar

=============================================================================
