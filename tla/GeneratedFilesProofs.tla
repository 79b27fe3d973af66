------------------------- MODULE GeneratedFilesProofs -------------------------
(***************************************************************************)
(* NoTempFileLeft and LinkServesItsFileAlone for any tasks, file names and *)
(* numbers of days.  The second is about one task that shares its name     *)
(* with no other: what is in the bucket under that name is what it         *)
(* uploaded, and the cleanup lists it only when its link has expired.      *)
(*                                                                         *)
(* Then the same with imports beside them (FileStorage), and that an       *)
(* import finds its file and accounts for its temporary files.             *)
(***************************************************************************)
EXTENDS FileStorage, TLAPS

ObjectType == [content : SUBSET Jobs, day : 0..MaxDay]

JobType == [pc : {"new", "writing", "built", "remove", "done", "failed", "crashed"},
            uploaded : BOOLEAN, day : 0..MaxDay]

\* A file holds output of tasks of its name only.
NamesMatch == \A f \in Files : \A j \in Jobs : j \in temp[f] => FileOf[j] = f

\* What j uploaded is in the bucket until it is too old for anybody to have a link.
Kept(j) ==
    \/ object[FileOf[j]] = [content |-> {j}, day |-> job[j].day]
    \/ job[j].day + KeepDays < today

AloneInBucket ==
    \A j \in Jobs : Alone(j) =>
        /\ job[j].pc \in {"new", "writing", "built"} => ~job[j].uploaded
        /\ job[j].pc = "done" => job[j].uploaded
        /\ job[j].uploaded => Kept(j)
        /\ ~job[j].uploaded => ~InBucket(FileOf[j])
        /\ FileOf[j] \in doomed => job[j].uploaded /\ job[j].day + KeepDays < today

IInv == TypeOK /\ NamesMatch /\ AloneInBucket /\ NoTempFileLeft

-----------------------------------------------------------------------------
LEMMA InitInv == Init => IInv
<1> SUFFICES ASSUME Init PROVE IInv
  OBVIOUS
<1>1. TypeOK
  BY BoundsAssumption DEF Init, TypeOK, NoObject
<1>2. NamesMatch /\ NoTempFileLeft
  BY DEF Init, NamesMatch, NoTempFileLeft, Exists
<1>3. AloneInBucket
  BY FileOfAssumption DEF Init, AloneInBucket, InBucket, NoObject
<1> QED
  BY <1>1, <1>2, <1>3 DEF IInv

-----------------------------------------------------------------------------
(* Type correctness *)

LEMMA NextType == TypeOK /\ [Next]_vars => TypeOK'
<1> SUFFICES ASSUME TypeOK, [Next]_vars PROVE TypeOK'
  OBVIOUS
<1>1. ASSUME NEW j \in Jobs, OpenFile(j) PROVE TypeOK'
  <2>1. PICK s \in SUBSET Jobs : temp' = [temp EXCEPT ![FileOf[j]] = s]
    BY <1>1 DEF OpenFile, TypeOK, Writing
  <2> QED
    BY <1>1, <2>1 DEF OpenFile, TypeOK, InBucket
<1>2. ASSUME NEW j \in Jobs, CloseFile(j) PROVE TypeOK'
  BY <1>2 DEF CloseFile, TypeOK, InBucket
<1>3. ASSUME NEW j \in Jobs, Upload(j) PROVE TypeOK'
  <2> DEFINE o == [content |-> temp[FileOf[j]], day |-> today]
             r == [pc |-> "remove", uploaded |-> TRUE, day |-> today]
  <2>1. FileOf[j] \in Files /\ o \in ObjectType /\ o.content # {} /\ r \in JobType
    BY <1>3, FileOfAssumption DEF Upload, TypeOK, Exists, ObjectType, JobType
  <2>2. /\ object' = [object EXCEPT ![FileOf[j]] = o] /\ job' = [job EXCEPT ![j] = r]
        /\ UNCHANGED <<today, temp, doomed, crashes>>
    BY <1>3 DEF Upload
  <2> HIDE DEF o, r
  <2> QED
    BY <2>1, <2>2 DEF TypeOK, InBucket, ObjectType, JobType
<1>4. ASSUME NEW j \in Jobs, UploadFails(j) PROVE TypeOK'
  BY <1>4 DEF UploadFails, TypeOK, InBucket
<1>5. ASSUME NEW j \in Jobs, RemoveFile(j) PROVE TypeOK'
  <2>1. PICK how \in {"done", "failed"} : job' = [job EXCEPT ![j].pc = how]
    BY <1>5 DEF RemoveFile
  <2>2. job \in [Jobs -> JobType] => job' \in [Jobs -> JobType]
    BY <2>1 DEF JobType
  <2>3. temp \in [Files -> SUBSET Jobs] => temp' \in [Files -> SUBSET Jobs]
    BY <1>5 DEF RemoveFile
  <2>4. UNCHANGED <<today, object, doomed, crashes>>
    BY <1>5 DEF RemoveFile
  <2> QED
    BY <2>2, <2>3, <2>4 DEF TypeOK, InBucket, JobType
<1>6. ASSUME NEW j \in Jobs, Crash(j) PROVE TypeOK'
  BY <1>6, BoundsAssumption DEF Crash, TypeOK, InBucket
<1>7. ASSUME ListOldFiles PROVE TypeOK'
  BY <1>7 DEF ListOldFiles, TypeOK, InBucket
<1>8. ASSUME NEW f \in Files, DeleteOldFile(f) PROVE TypeOK'
  BY <1>8, BoundsAssumption DEF DeleteOldFile, TypeOK, InBucket, NoObject
<1>9. ASSUME CleanupFails PROVE TypeOK'
  BY <1>9 DEF CleanupFails, TypeOK, InBucket
<1>10. ASSUME NextDay PROVE TypeOK'
  BY <1>10, BoundsAssumption DEF NextDay, TypeOK, InBucket
<1>11. CASE UNCHANGED vars
  BY <1>11 DEF vars, TypeOK, InBucket
<1> QED
  BY <1>1, <1>2, <1>3, <1>4, <1>5, <1>6, <1>7, <1>8, <1>9, <1>10, <1>11 DEF Next, JobStep

-----------------------------------------------------------------------------
(* Temporary files *)

LEMMA NextNames == IInv /\ [Next]_vars => NamesMatch'
<1> SUFFICES ASSUME IInv, [Next]_vars PROVE NamesMatch'
  OBVIOUS
<1>1. ASSUME NEW j \in Jobs, OpenFile(j) PROVE NamesMatch'
  BY <1>1 DEF OpenFile, IInv, TypeOK, NamesMatch
<1>2. ASSUME NEW j \in Jobs, RemoveFile(j) PROVE NamesMatch'
  BY <1>2 DEF RemoveFile, IInv, TypeOK, NamesMatch
<1>3. CASE UNCHANGED temp
  BY <1>3 DEF IInv, NamesMatch
<1> QED
  BY <1>1, <1>2, <1>3 DEF Next, JobStep, CloseFile, Upload, UploadFails, Crash, ListOldFiles,
     DeleteOldFile, CleanupFails, NextDay, vars

\* A step that takes j further, but not to its end, and leaves the files or j's own behind.
LEMMA NextTemp == IInv /\ [Next]_vars => NoTempFileLeft'
<1> SUFFICES ASSUME IInv, [Next]_vars PROVE NoTempFileLeft'
  OBVIOUS
<1>1. ASSUME NEW j \in Jobs, UNCHANGED temp,
             NEW p \in {"built", "remove", "crashed"}, job'[j].pc = p,
             \A k \in Jobs \ {j} : job'[k] = job[k]
      PROVE  NoTempFileLeft'
  BY <1>1 DEF IInv, NoTempFileLeft, Exists
<1>2. ASSUME NEW j \in Jobs, CloseFile(j) \/ Upload(j) \/ UploadFails(j) \/ Crash(j)
      PROVE  NoTempFileLeft'
  <2>1. PICK p \in {"built", "remove", "crashed"} : job'[j].pc = p
    BY <1>2 DEF CloseFile, Upload, UploadFails, Crash, IInv, TypeOK
  <2>2. UNCHANGED temp /\ \A k \in Jobs \ {j} : job'[k] = job[k]
    BY <1>2 DEF CloseFile, Upload, UploadFails, Crash, IInv, TypeOK
  <2> QED
    BY <2>1, <2>2, <1>1
<1>3. ASSUME NEW j \in Jobs, OpenFile(j) PROVE NoTempFileLeft'
  <2>1. job'[j].pc = "writing" /\ \A k \in Jobs \ {j} : job'[k] = job[k]
    BY <1>3 DEF OpenFile, IInv, TypeOK
  <2>2. \A f \in Files : FileOf[j] # f => temp'[f] = temp[f]
    BY <1>3 DEF OpenFile, IInv, TypeOK
  <2> QED
    BY <2>1, <2>2 DEF IInv, NoTempFileLeft, Exists
<1>4. ASSUME NEW j \in Jobs, RemoveFile(j) PROVE NoTempFileLeft'
  <2>1. \A k \in Jobs \ {j} : job'[k] = job[k]
    BY <1>4 DEF RemoveFile, IInv, TypeOK
  <2>2. \A f \in Files : temp'[f] = IF f = FileOf[j] THEN {} ELSE temp[f]
    BY <1>4 DEF RemoveFile, IInv, TypeOK
  <2> QED
    BY <2>1, <2>2 DEF IInv, NoTempFileLeft, Exists
<1>5. CASE UNCHANGED <<temp, job>>
  BY <1>5 DEF IInv, NoTempFileLeft, Exists
<1> QED
  BY <1>2, <1>3, <1>4, <1>5 DEF Next, JobStep, ListOldFiles, DeleteOldFile, CleanupFails,
     NextDay, vars

-----------------------------------------------------------------------------
(* Links *)

\* A step of j that neither uploads nor ends well without having uploaded.
LEMMA PlainStep ==
  ASSUME IInv, NEW j \in Jobs, UNCHANGED <<today, object, doomed>>,
         NEW p, job' = [job EXCEPT ![j].pc = p],
         \/ p \in {"remove", "failed", "crashed"}
         \/ p \in {"writing", "built"} /\ job[j].pc \in {"new", "writing"}
         \/ p = "done" /\ job[j].uploaded
  PROVE  AloneInBucket'
<1>1. \A k \in Jobs : job'[k].uploaded = job[k].uploaded /\ job'[k].day = job[k].day
  BY DEF IInv, TypeOK
<1>2. \A k \in Jobs : job'[k].pc = IF k = j THEN p ELSE job[k].pc
  BY DEF IInv, TypeOK
<1> QED
  BY <1>1, <1>2 DEF IInv, AloneInBucket, Alone, Kept, InBucket

LEMMA UploadStep == ASSUME IInv, NEW j \in Jobs, Upload(j) PROVE AloneInBucket'
<1> SUFFICES ASSUME NEW k \in Jobs, Alone(k)
             PROVE  /\ job'[k].pc \in {"new", "writing", "built"} => ~job'[k].uploaded
                    /\ job'[k].pc = "done" => job'[k].uploaded
                    /\ job'[k].uploaded => Kept(k)'
                    /\ ~job'[k].uploaded => ~InBucket(FileOf[k])'
                    /\ FileOf[k] \in doomed' =>
                         job'[k].uploaded /\ job'[k].day + KeepDays < today'
  BY DEF AloneInBucket, Alone
<1>1. FileOf[j] \in Files /\ FileOf[k] \in Files
  BY FileOfAssumption
<1>2. CASE k = j
  <2>1. temp[FileOf[j]] = {j}
    BY <1>1, <1>2 DEF Upload, Exists, IInv, TypeOK, NamesMatch, Alone
  <2>2. job'[j] = [pc |-> "remove", uploaded |-> TRUE, day |-> today]
    BY DEF Upload, IInv, TypeOK
  <2>3. object'[FileOf[j]] = [content |-> {j}, day |-> today]
    BY <1>1, <2>1 DEF Upload, IInv, TypeOK
  <2>4. FileOf[j] \notin doomed'
    BY <1>2 DEF Upload, IInv, AloneInBucket
  <2> QED
    BY <1>2, <2>2, <2>3, <2>4 DEF Kept
<1>3. CASE k # j
  <2>1. FileOf[j] # FileOf[k]
    BY <1>3 DEF Alone
  <2>2. job'[k] = job[k] /\ object'[FileOf[k]] = object[FileOf[k]]
        /\ UNCHANGED <<today, doomed>>
    BY <1>1, <1>3, <2>1 DEF Upload, IInv, TypeOK
  <2> QED
    BY <2>2 DEF IInv, AloneInBucket, Kept, InBucket
<1> QED
  BY <1>2, <1>3

LEMMA NextAlone == IInv /\ [Next]_vars => AloneInBucket'
<1> SUFFICES ASSUME IInv, [Next]_vars PROVE AloneInBucket'
  OBVIOUS
<1>1. ASSUME NEW j \in Jobs, OpenFile(j) \/ CloseFile(j) PROVE AloneInBucket'
  BY <1>1, PlainStep DEF OpenFile, CloseFile
<1>2. ASSUME NEW j \in Jobs, UploadFails(j) \/ Crash(j) PROVE AloneInBucket'
  BY <1>2, PlainStep DEF UploadFails, Crash
<1>3. ASSUME NEW j \in Jobs, RemoveFile(j) PROVE AloneInBucket'
  <2>1. PICK how : /\ job' = [job EXCEPT ![j].pc = how]
                   /\ how = "failed" \/ (how = "done" /\ job[j].uploaded)
    BY <1>3 DEF RemoveFile
  <2> QED
    BY <1>3, <2>1, PlainStep DEF RemoveFile
<1>4. ASSUME NEW j \in Jobs, Upload(j) PROVE AloneInBucket'
  BY <1>4, UploadStep
<1>5. ASSUME ListOldFiles PROVE AloneInBucket'
  <2>1. ASSUME NEW j \in Jobs, Alone(j), FileOf[j] \in doomed'
        PROVE  job[j].uploaded /\ job[j].day + KeepDays < today
    <3>1. InBucket(FileOf[j]) /\ today - object[FileOf[j]].day > KeepDays
      BY <1>5, <2>1 DEF ListOldFiles, IsOld
    <3>2. job[j].uploaded /\ Kept(j)
      BY <2>1, <3>1 DEF IInv, AloneInBucket
    <3>3. job[j].day \in Nat /\ today \in Nat
      BY BoundsAssumption DEF IInv, TypeOK
    <3> QED
      BY <3>1, <3>2, <3>3, BoundsAssumption DEF Kept
  <2>2. UNCHANGED <<today, temp, object, job, crashes>>
    BY <1>5 DEF ListOldFiles
  <2> QED
    BY <2>1, <2>2 DEF IInv, AloneInBucket, Alone, Kept, InBucket
<1>6. ASSUME NEW f \in Files, DeleteOldFile(f) PROVE AloneInBucket'
  <2>1. \A g \in Files : object'[g] = IF g = f THEN NoObject ELSE object[g]
    BY <1>6 DEF DeleteOldFile, IInv, TypeOK
  <2>2. f \in doomed /\ doomed' \subseteq doomed /\ UNCHANGED <<today, job>>
    BY <1>6 DEF DeleteOldFile
  <2> QED
    BY <2>1, <2>2, FileOfAssumption
       DEF IInv, AloneInBucket, Alone, Kept, InBucket, NoObject
<1>7. ASSUME CleanupFails PROVE AloneInBucket'
  BY <1>7 DEF CleanupFails, IInv, AloneInBucket, Alone, Kept, InBucket
<1>8. ASSUME NextDay PROVE AloneInBucket'
  <2>1. \A j \in Jobs : job[j].day \in Int
    BY DEF IInv, TypeOK
  <2>2. today' = today + 1 /\ today \in Int /\ UNCHANGED <<object, job, doomed>>
    BY <1>8 DEF NextDay, IInv, TypeOK
  <2>3. \A j \in Jobs : job[j].day + KeepDays < today => job'[j].day + KeepDays < today'
    BY <2>1, <2>2, BoundsAssumption
  <2> QED
    BY <2>2, <2>3 DEF IInv, AloneInBucket, Alone, Kept, InBucket
<1>9. CASE UNCHANGED vars
  BY <1>9 DEF vars, IInv, AloneInBucket, Alone, Kept, InBucket
<1> QED
  BY <1>1, <1>2, <1>3, <1>4, <1>5, <1>6, <1>7, <1>8, <1>9 DEF Next, JobStep

-----------------------------------------------------------------------------
LEMMA NextInv == IInv /\ [Next]_vars => IInv'
  BY NextType, NextNames, NextTemp, NextAlone DEF IInv

LEMMA AlwaysIInv == Spec => []IInv
  BY InitInv, NextInv, PTL DEF Spec

\* Files, objects and tasks keep their type, and the cleanup lists only names that are in
\* the bucket, whatever is uploaded while it deletes.
THEOREM TypeCorrect == Spec => []TypeOK
<1>1. IInv => TypeOK
  BY DEF IInv
<1> QED
  BY <1>1, AlwaysIInv, PTL

\* However the tasks of a name overlap and fail, its temporary file is gone when they have
\* all ended.
THEOREM TempFilesRemoved == Spec => []NoTempFileLeft
<1>1. IInv => NoTempFileLeft
  BY DEF IInv
<1> QED
  BY <1>1, AlwaysIInv, PTL

\* A link serves what its task generated for as long as it is valid, if no other task has
\* the same file name: the cleanup is never too early.
THEOREM LinkServes == Spec => []LinkServesItsFileAlone
<1>1. ASSUME IInv, NEW j \in Jobs, LinkIsValid(j), Alone(j) PROVE ServesItsFile(j)
  <2>1. Kept(j)
    BY <1>1 DEF LinkIsValid, IInv, AloneInBucket
  <2>2. job[j].day \in Int /\ today \in Int /\ today - job[j].day < LinkDays
    BY <1>1 DEF IInv, TypeOK, LinkIsValid
  <2>3. ~(job[j].day + KeepDays < today)
    BY <2>2, BoundsAssumption
  <2> QED
    BY <2>1, <2>3 DEF Kept, ServesItsFile
<1>2. IInv => LinkServesItsFileAlone
  BY <1>1 DEF LinkServesItsFileAlone
<1> QED
  BY <1>2, AlwaysIInv, PTL

-----------------------------------------------------------------------------
(* FileStorage *)

LEMMA StepIsPlain == [StorageNext]_storageVars => [Next]_vars
  BY DEF StorageNext, storageVars, vars

LEMMA StorageIsPlain == StorageSpec => Spec
<1>1. StorageInit => Init
  BY DEF StorageInit
<1> QED
  BY <1>1, StepIsPlain, PTL DEF StorageSpec, Spec

\* The tasks that generate files get what they get without imports: temporary files are
\* removed and the link of a task alone with its name serves its file.
THEOREM ImportsDoNotDisturb ==
    StorageSpec => [](NoTempFileLeft /\ LinkServesItsFileAlone)
  BY StorageIsPlain, TempFilesRemoved, LinkServes, PTL

ImportType == [pc : ImportPcs, day : 0..MaxDay, retries : 0..MaxRetries,
               temps : Nat, misses : Nat]

ImportTypeOK ==
    /\ import \in [Imports -> ImportType]
    /\ imported \in [Imports -> SUBSET (0..MaxDay)]
    /\ doomedImports \subseteq Imports

TooOld(i) == import[i].day + KeepDays < today

\* The object is in the bucket until it is too old for the link to be valid.
ImportKept ==
    \A i \in Imports :
        /\ imported[i] \subseteq {import[i].day}
        /\ import[i].pc \in {"stored", "sending", "queued", "downloading", "downloaded"} =>
              imported[i] = {import[i].day} \/ TooOld(i)
        /\ import[i].pc \in {"new", "written"} => imported[i] = {}
        /\ i \in doomedImports => TooOld(i) /\ import[i].pc \notin {"new", "written"}

\* The temporary files that belong to each stage.
TempsAccounted ==
    \A i \in Imports :
        /\ import[i].pc \in {"new", "sending", "refused"} =>
              import[i].temps = 0 /\ import[i].misses = 0
        /\ import[i].pc \in {"written", "stored", "unstored"} =>
              import[i].temps = 1 /\ import[i].misses = 0
        /\ import[i].pc \in {"queued", "done", "failed"} => import[i].temps = import[i].misses
        /\ import[i].pc \in {"downloading", "downloaded"} =>
              import[i].temps = import[i].misses + 1

StorageIInv == TypeOK /\ ImportTypeOK /\ ImportKept /\ TempsAccounted

LEMMA StorageInitInv == StorageInit => StorageIInv
<1> SUFFICES ASSUME StorageInit PROVE StorageIInv
  OBVIOUS
<1>1. TypeOK
  BY InitInv DEF StorageInit, IInv
<1>2. NewImport \in ImportType
  BY BoundsAssumption DEF NewImport, ImportType, ImportPcs, MaxRetries
<1>3. ImportTypeOK
  BY <1>2 DEF StorageInit, ImportTypeOK
<1>4. ImportKept /\ TempsAccounted
  BY DEF StorageInit, ImportKept, TempsAccounted, NewImport
<1> QED
  BY <1>1, <1>3, <1>4 DEF StorageIInv

\* The message is sent again or not: the temporary files are what they were.
LEMMA RetryKeeps ==
    ASSUME NEW record \in ImportType
    PROVE  /\ RetryOrFail(record) \in ImportType
           /\ RetryOrFail(record).pc \in {"queued", "failed"}
           /\ RetryOrFail(record).day = record.day
           /\ RetryOrFail(record).temps = record.temps
           /\ RetryOrFail(record).misses = record.misses
<1>1. CASE record.retries < MaxRetries
  <2> DEFINE again == [record EXCEPT !.pc = "queued", !.retries = record.retries + 1]
  <2>1. RetryOrFail(record) = again
    BY <1>1 DEF RetryOrFail
  <2>2. record.retries + 1 \in 0..MaxRetries /\ "queued" \in ImportPcs
    BY <1>1 DEF ImportType, MaxRetries, ImportPcs
  <2>3. again \in ImportType
    BY <2>2 DEF ImportType
  <2>4. /\ again.pc = "queued" /\ again.day = record.day
        /\ again.temps = record.temps /\ again.misses = record.misses
    BY DEF ImportType
  <2> QED
    BY <2>1, <2>3, <2>4
<1>2. CASE ~(record.retries < MaxRetries)
  <2> DEFINE over == [record EXCEPT !.pc = "failed"]
  <2>1. RetryOrFail(record) = over
    BY <1>2 DEF RetryOrFail
  <2>2. over \in ImportType
    BY DEF ImportType, ImportPcs
  <2>3. /\ over.pc = "failed" /\ over.day = record.day
        /\ over.temps = record.temps /\ over.misses = record.misses
    BY DEF ImportType
  <2> QED
    BY <2>1, <2>2, <2>3
<1> QED
  BY <1>1, <1>2

\* The import steps that change one import only, its record to r, and no object: with
\* the facts of its stage the invariant stays.
LEMMA RecordStep ==
    ASSUME StorageIInv, NEW i \in Imports, NEW r \in ImportType,
           import' = [import EXCEPT ![i] = r],
           UNCHANGED <<today, temp, object, job, doomed, crashes, imported, doomedImports>>,
           r.day = import[i].day,
           r.pc \notin {"new", "written"},
           r.pc \in {"stored", "sending", "queued", "downloading", "downloaded"} =>
              import[i].pc \in {"stored", "sending", "queued", "downloading", "downloaded"},
           r.pc \in {"sending", "refused"} => r.temps = 0 /\ r.misses = 0,
           r.pc \in {"stored", "unstored"} => r.temps = 1 /\ r.misses = 0,
           r.pc \in {"queued", "done", "failed"} => r.temps = r.misses,
           r.pc \in {"downloading", "downloaded"} => r.temps = r.misses + 1
    PROVE  StorageIInv'
<1>1. TypeOK'
  BY DEF StorageIInv, TypeOK, InBucket
<1>2. ImportTypeOK'
  BY DEF StorageIInv, ImportTypeOK
<1>3. import'[i] = r /\ \A k \in Imports : k # i => import'[k] = import[k]
  BY DEF StorageIInv, ImportTypeOK
<1>4. ImportKept'
  BY <1>3 DEF StorageIInv, ImportKept, TooOld
<1>5. TempsAccounted'
  BY <1>3 DEF StorageIInv, TempsAccounted
<1> QED
  BY <1>1, <1>2, <1>4, <1>5 DEF StorageIInv

LEMMA ImportRecord ==
    ASSUME StorageIInv, NEW i \in Imports
    PROVE  import[i] \in ImportType
  BY DEF StorageIInv, ImportTypeOK

\* Proceed as a record.
LEMMA ProceedRecord ==
    ASSUME StorageIInv, NEW i \in Imports, NEW pc \in ImportPcs, NEW temps \in Nat,
           Proceed(i, pc, temps)
    PROVE  \E r \in ImportType :
              /\ import' = [import EXCEPT ![i] = r]
              /\ r.pc = pc /\ r.temps = temps
              /\ r.day = import[i].day /\ r.misses = import[i].misses
<1> DEFINE r == [import[i] EXCEPT !.pc = pc, !.temps = temps]
<1>1. r \in ImportType
  BY ImportRecord DEF ImportType
<1>2. import' = [import EXCEPT ![i] = r]
  BY DEF Proceed
<1>3. /\ r.pc = pc /\ r.temps = temps
      /\ r.day = import[i].day /\ r.misses = import[i].misses
  BY ImportRecord DEF ImportType
<1> QED
  BY <1>1, <1>2, <1>3

\* What holds of an import in each stage, as the cases of the next lemma use it.
LEMMA ImportFacts ==
    ASSUME StorageIInv, NEW i \in Imports
    PROVE  /\ import[i].temps \in Nat /\ import[i].misses \in Nat
           /\ import[i].day \in 0..MaxDay /\ today \in 0..MaxDay
           /\ imported[i] \subseteq {import[i].day}
           /\ import[i].pc = "new" => import[i].temps = 0 /\ import[i].misses = 0
           /\ import[i].pc = "sending" => import[i].temps = 0 /\ import[i].misses = 0
           /\ import[i].pc \in {"written", "stored", "unstored"} =>
                 import[i].temps = 1 /\ import[i].misses = 0
           /\ import[i].pc = "queued" => import[i].temps = import[i].misses
           /\ import[i].pc \in {"downloading", "downloaded"} =>
                 import[i].temps = import[i].misses + 1
<1>1. import[i] \in ImportType
  BY ImportRecord
<1>2. today \in 0..MaxDay
  BY DEF StorageIInv, TypeOK
<1>3. imported[i] \subseteq {import[i].day}
  BY DEF StorageIInv, ImportKept
<1> QED
  BY <1>1, <1>2, <1>3 DEF ImportType, StorageIInv, TempsAccounted

LEMMA WriteUploadInv ==
    ASSUME StorageIInv, NEW i \in Imports, WriteUpload(i), UNCHANGED vars
    PROVE  StorageIInv'
<1>1. PICK r \in ImportType : /\ import' = [import EXCEPT ![i] = r]
                              /\ r.pc = "written" /\ r.temps = 1
                              /\ r.day = import[i].day /\ r.misses = import[i].misses
  BY ProceedRecord DEF WriteUpload, ImportPcs
<1>2. import'[i] = r /\ \A k \in Imports : k # i => import'[k] = import[k]
  BY <1>1 DEF StorageIInv, ImportTypeOK
<1>3. TypeOK' /\ ImportTypeOK'
  BY <1>1 DEF WriteUpload, vars, StorageIInv, TypeOK, InBucket, ImportTypeOK
<1>4. ImportKept'
  BY <1>1, <1>2 DEF WriteUpload, vars, StorageIInv, ImportKept, TooOld
<1>5. TempsAccounted'
  BY <1>1, <1>2, ImportFacts DEF WriteUpload, StorageIInv, TempsAccounted
<1> QED
  BY <1>3, <1>4, <1>5 DEF StorageIInv

LEMMA StoreUploadInv ==
    ASSUME StorageIInv, NEW i \in Imports, StoreUpload(i), UNCHANGED vars
    PROVE  StorageIInv'
<1> DEFINE r == [import[i] EXCEPT !.pc = "stored", !.day = today]
<1>1. /\ import' = [import EXCEPT ![i] = r]
      /\ imported' = [imported EXCEPT ![i] = {today}]
  BY DEF StoreUpload
<1>2. r \in ImportType
  BY ImportRecord, ImportFacts DEF ImportType, ImportPcs
<1>3. /\ r.pc = "stored" /\ r.day = today
      /\ r.temps = import[i].temps /\ r.misses = import[i].misses
  BY ImportRecord DEF ImportType
<1> HIDE DEF r
<1>4. import'[i] = r /\ \A k \in Imports : k # i => import'[k] = import[k]
  BY <1>1 DEF StorageIInv, ImportTypeOK
<1>5. imported'[i] = {today} /\ \A k \in Imports : k # i => imported'[k] = imported[k]
  BY <1>1 DEF StorageIInv, ImportTypeOK
<1>6. TypeOK'
  BY DEF vars, StorageIInv, TypeOK, InBucket
<1>7. ImportTypeOK'
  <2>1. {today} \subseteq 0..MaxDay
    BY ImportFacts
  <2>2. import' \in [Imports -> ImportType]
    BY <1>1, <1>2 DEF StorageIInv, ImportTypeOK
  <2>3. imported' \in [Imports -> SUBSET (0..MaxDay)]
    BY <1>1, <2>1 DEF StorageIInv, ImportTypeOK
  <2> QED
    BY <2>2, <2>3 DEF StoreUpload, StorageIInv, ImportTypeOK
<1>8. ImportKept'
  BY <1>3, <1>4, <1>5 DEF StoreUpload, vars, StorageIInv, ImportKept, TooOld
<1>9. TempsAccounted'
  BY <1>3, <1>4, ImportFacts DEF StoreUpload, StorageIInv, TempsAccounted
<1> QED
  BY <1>6, <1>7, <1>8, <1>9 DEF StorageIInv

\* Steps that only go on to another stage.
LEMMA PassOn ==
    ASSUME StorageIInv, NEW i \in Imports, UNCHANGED vars,
           \/ StoreUploadFails(i) \/ SendTask(i) \/ SendTaskFails(i)
           \/ Download(i) \/ Die(i)
    PROVE  StorageIInv'
<1>0. UNCHANGED <<today, temp, object, job, doomed, crashes>>
  BY DEF vars
<1>1. CASE StoreUploadFails(i)
  <2>1. PICK r \in ImportType : /\ import' = [import EXCEPT ![i] = r]
                                /\ r.pc = "unstored" /\ r.temps = import[i].temps
                                /\ r.day = import[i].day /\ r.misses = import[i].misses
    BY <1>1, ProceedRecord, ImportFacts DEF StoreUploadFails, ImportPcs
  <2> QED
    BY <1>0, <1>1, <2>1, RecordStep, ImportFacts DEF StoreUploadFails
<1>2. CASE SendTask(i)
  <2>1. PICK r \in ImportType : /\ import' = [import EXCEPT ![i] = r]
                                /\ r.pc = "queued" /\ r.temps = import[i].temps
                                /\ r.day = import[i].day /\ r.misses = import[i].misses
    BY <1>2, ProceedRecord, ImportFacts DEF SendTask, ImportPcs
  <2> QED
    BY <1>0, <1>2, <2>1, RecordStep, ImportFacts DEF SendTask
<1>3. CASE SendTaskFails(i)
  <2>1. PICK r \in ImportType : /\ import' = [import EXCEPT ![i] = r]
                                /\ r.pc = "refused" /\ r.temps = import[i].temps
                                /\ r.day = import[i].day /\ r.misses = import[i].misses
    BY <1>3, ProceedRecord, ImportFacts DEF SendTaskFails, ImportPcs
  <2> QED
    BY <1>0, <1>3, <2>1, RecordStep, ImportFacts DEF SendTaskFails
<1>4. CASE Download(i)
  <2>1. PICK r \in ImportType : /\ import' = [import EXCEPT ![i] = r]
                                /\ r.pc = "downloaded" /\ r.temps = import[i].temps
                                /\ r.day = import[i].day /\ r.misses = import[i].misses
    BY <1>4, ProceedRecord, ImportFacts DEF Download, ImportPcs
  <2> QED
    BY <1>0, <1>4, <2>1, RecordStep, ImportFacts DEF Download
<1>5. CASE Die(i)
  <2>1. PICK r \in ImportType : /\ import' = [import EXCEPT ![i] = r]
                                /\ r.pc = "dead" /\ r.temps = import[i].temps
                                /\ r.day = import[i].day /\ r.misses = import[i].misses
    BY <1>5, ProceedRecord, ImportFacts DEF Die, ImportPcs
  <2> QED
    BY <1>0, <1>5, <2>1, RecordStep, ImportFacts DEF Die
<1> QED
  BY <1>1, <1>2, <1>3, <1>4, <1>5

LEMMA RemoveUploadInv ==
    ASSUME StorageIInv, NEW i \in Imports, RemoveUpload(i), UNCHANGED vars
    PROVE  StorageIInv'
<1>1. CASE import[i].pc = "stored"
  <2>1. Proceed(i, "sending", 0)
    BY <1>1 DEF RemoveUpload, RemovesUpload
  <2>2. PICK r \in ImportType : /\ import' = [import EXCEPT ![i] = r]
                                /\ r.pc = "sending" /\ r.temps = 0
                                /\ r.day = import[i].day /\ r.misses = import[i].misses
    BY <2>1, ProceedRecord DEF ImportPcs
  <2> QED
    BY <1>1, <2>2, RecordStep, ImportFacts DEF RemoveUpload, vars
<1>2. CASE import[i].pc = "unstored"
  <2>1. Proceed(i, "refused", 0)
    BY <1>2 DEF RemoveUpload, RemovesUpload
  <2>2. PICK r \in ImportType : /\ import' = [import EXCEPT ![i] = r]
                                /\ r.pc = "refused" /\ r.temps = 0
                                /\ r.day = import[i].day /\ r.misses = import[i].misses
    BY <2>1, ProceedRecord DEF ImportPcs
  <2> QED
    BY <1>2, <2>2, RecordStep, ImportFacts DEF RemoveUpload, vars
<1> QED
  BY <1>1, <1>2 DEF RemoveUpload

LEMMA StartDownloadInv ==
    ASSUME StorageIInv, NEW i \in Imports, StartDownload(i), UNCHANGED vars
    PROVE  StorageIInv'
<1>1. import[i].temps + 1 \in Nat /\ Proceed(i, "downloading", import[i].temps + 1)
  BY ImportFacts DEF StartDownload
<1>2. PICK r \in ImportType : /\ import' = [import EXCEPT ![i] = r]
                              /\ r.pc = "downloading" /\ r.temps = import[i].temps + 1
                              /\ r.day = import[i].day /\ r.misses = import[i].misses
  BY <1>1, ProceedRecord DEF ImportPcs
<1> QED
  BY <1>2, RecordStep, ImportFacts DEF StartDownload, vars

LEMMA DownloadFailsInv ==
    ASSUME StorageIInv, NEW i \in Imports, DownloadFails(i), UNCHANGED vars
    PROVE  StorageIInv'
<1> DEFINE missed == [import[i] EXCEPT !.misses = import[i].misses + 1]
           r == RetryOrFail(missed)
<1>1. missed \in ImportType
  BY ImportRecord DEF ImportType
<1>2. /\ missed.day = import[i].day /\ missed.temps = import[i].temps
      /\ missed.misses = import[i].misses + 1
  BY ImportRecord DEF ImportType
<1>3. import' = [import EXCEPT ![i] = r]
  BY DEF DownloadFails
<1> HIDE DEF missed
<1>4. /\ r \in ImportType /\ r.pc \in {"queued", "failed"}
      /\ r.day = import[i].day /\ r.temps = import[i].temps
      /\ r.misses = import[i].misses + 1
  BY <1>1, <1>2, RetryKeeps
<1> HIDE DEF r
<1>5. import[i].pc = "downloading" /\ UNCHANGED <<imported, doomedImports>>
  BY DEF DownloadFails
<1>6. r.temps = r.misses
  BY <1>4, <1>5, ImportFacts
<1> QED
  BY <1>3, <1>4, <1>5, <1>6, RecordStep DEF vars

LEMMA EndImportInv ==
    ASSUME StorageIInv, NEW i \in Imports, NEW done \in BOOLEAN, EndImport(i, done),
           UNCHANGED vars
    PROVE  StorageIInv'
<1> DEFINE left == [import[i] EXCEPT !.temps = import[i].temps - 1]
           ended == [left EXCEPT !.pc = "done"]
           r == IF done THEN ended ELSE RetryOrFail(left)
<1>1. import[i].temps - 1 \in Nat /\ import[i].temps - 1 = import[i].misses
  BY ImportFacts DEF EndImport
<1>2. /\ left \in ImportType
      /\ left.day = import[i].day /\ left.temps = import[i].misses
      /\ left.misses = import[i].misses
  BY <1>1, ImportRecord DEF ImportType
<1>3. import' = [import EXCEPT ![i] = r]
  BY DEF EndImport, RemovesDownload
<1> HIDE DEF left
<1>4. /\ ended \in ImportType /\ ended.pc = "done"
      /\ ended.day = left.day /\ ended.temps = left.temps /\ ended.misses = left.misses
  BY <1>2 DEF ImportType, ImportPcs
<1> HIDE DEF ended
<1>5. /\ r \in ImportType /\ r.pc \in {"done", "queued", "failed"}
      /\ done => r.pc = "done"
      /\ r.day = import[i].day /\ r.temps = import[i].misses /\ r.misses = import[i].misses
  <2>1. CASE done
    BY <1>2, <1>4, <2>1
  <2>2. CASE ~done
    BY <1>2, <2>2, RetryKeeps
  <2> QED
    BY <2>1, <2>2
<1> HIDE DEF r
<1>6. import[i].pc = "downloaded" /\ UNCHANGED <<imported, doomedImports>>
  BY DEF EndImport
<1> QED
  BY <1>3, <1>5, <1>6, RecordStep DEF vars

-----------------------------------------------------------------------------
LEMMA CleanupInv ==
    ASSUME StorageIInv, UNCHANGED vars,
           \/ ListOldImports \/ ImportCleanupFails
           \/ \E i \in Imports : DeleteOldImport(i)
    PROVE  StorageIInv'
<1>0. TypeOK' /\ UNCHANGED today
  BY DEF vars, StorageIInv, TypeOK, InBucket
<1>1. CASE ListOldImports
  <2>1. ASSUME NEW i \in Imports, NEW day \in imported[i], ImportIsOld(day)
        PROVE  TooOld(i) /\ import[i].pc \notin {"new", "written"}
    <3>1. day = import[i].day /\ import[i].pc \notin {"new", "written"}
      BY <2>1 DEF StorageIInv, ImportKept
    <3>2. import[i].day \in Int /\ today \in Int /\ KeepDays \in Int
      BY ImportFacts, BoundsAssumption
    <3> QED
      BY <2>1, <3>1, <3>2 DEF ImportIsOld, TooOld
  <2>2. ImportTypeOK' /\ TempsAccounted'
    BY <1>1 DEF ListOldImports, StorageIInv, ImportTypeOK, TempsAccounted
  <2>3. ImportKept'
    BY <1>0, <1>1, <2>1 DEF ListOldImports, StorageIInv, ImportKept, TooOld
  <2> QED
    BY <1>0, <2>2, <2>3 DEF StorageIInv
<1>2. CASE ImportCleanupFails
  BY <1>0, <1>2 DEF ImportCleanupFails, StorageIInv, ImportTypeOK, TempsAccounted, ImportKept,
     TooOld
<1>3. ASSUME NEW i \in Imports, DeleteOldImport(i) PROVE StorageIInv'
  <2>1. imported'[i] = {} /\ \A k \in Imports : k # i => imported'[k] = imported[k]
    BY <1>3 DEF DeleteOldImport, StorageIInv, ImportTypeOK
  <2>2. ImportTypeOK' /\ TempsAccounted'
    BY <1>3 DEF DeleteOldImport, StorageIInv, ImportTypeOK, TempsAccounted
  <2>3. ImportKept'
    BY <1>0, <1>3, <2>1 DEF DeleteOldImport, StorageIInv, ImportKept, TooOld
  <2> QED
    BY <1>0, <2>2, <2>3 DEF StorageIInv
<1> QED
  BY <1>1, <1>2, <1>3

\* Time passes, or the other tasks go on.
LEMMA OthersInv ==
    ASSUME StorageIInv, [Next]_vars, UNCHANGED importVars
    PROVE  StorageIInv'
<1>1. TypeOK'
  BY NextType DEF StorageIInv
<1>2. today \in Int /\ today' \in Int /\ (today' = today \/ today' = today + 1)
  <2>1. ASSUME NEW j \in Jobs, JobStep(j) \/ Crash(j) PROVE UNCHANGED today
    BY <2>1 DEF JobStep, OpenFile, CloseFile, Upload, UploadFails, RemoveFile, Crash
  <2>2. ASSUME ListOldFiles \/ CleanupFails \/ (\E f \in Files : DeleteOldFile(f))
        PROVE  UNCHANGED today
    BY <2>2 DEF ListOldFiles, DeleteOldFile, CleanupFails
  <2>3. UNCHANGED today \/ today' = today + 1
    BY <2>1, <2>2 DEF Next, NextDay, vars
  <2> QED
    BY <1>1, <2>3 DEF StorageIInv, TypeOK
<1>3. ASSUME NEW i \in Imports, TooOld(i) PROVE TooOld(i)'
  <2>1. import[i].day \in Int /\ import'[i].day = import[i].day
    BY ImportFacts DEF importVars
  <2> QED
    BY <1>2, <1>3, <2>1, BoundsAssumption DEF TooOld
<1>4. ImportTypeOK' /\ TempsAccounted'
  BY DEF importVars, StorageIInv, ImportTypeOK, TempsAccounted
<1>5. ImportKept'
  BY <1>3 DEF importVars, StorageIInv, ImportKept
<1> QED
  BY <1>1, <1>4, <1>5 DEF StorageIInv

LEMMA StorageNextInv == StorageIInv /\ [StorageNext]_storageVars => StorageIInv'
<1> SUFFICES ASSUME StorageIInv, [StorageNext]_storageVars PROVE StorageIInv'
  OBVIOUS
<1>1. CASE Next /\ UNCHANGED importVars
  BY <1>1, OthersInv
<1>2. CASE UNCHANGED storageVars
  BY <1>2, OthersInv DEF storageVars, importVars, vars
<1>3. ASSUME NEW i \in Imports, ImportStep(i), UNCHANGED vars PROVE StorageIInv'
  BY <1>3, WriteUploadInv, StoreUploadInv, PassOn, RemoveUploadInv, StartDownloadInv,
     DownloadFailsInv, EndImportInv DEF ImportStep
<1>4. ASSUME UNCHANGED vars,
             \/ ListOldImports \/ ImportCleanupFails
             \/ \E i \in Imports : DeleteOldImport(i)
      PROVE  StorageIInv'
  BY <1>4, CleanupInv
<1> QED
  BY <1>1, <1>2, <1>3, <1>4 DEF StorageNext

LEMMA AlwaysStorageIInv == StorageSpec => []StorageIInv
  BY StorageInitInv, StorageNextInv, PTL DEF StorageSpec

\* Files, objects, tasks and imports keep their type.
THEOREM StorageTypeCorrect == StorageSpec => []StorageTypeOK
<1>1. StorageIInv => StorageTypeOK
  BY DEF StorageIInv, StorageTypeOK, ImportTypeOK, ImportType
<1> QED
  BY <1>1, AlwaysStorageIInv, PTL

\* A waiting or starting import task finds its file while its link is valid, whatever the
\* cleanup lists and deletes meanwhile.
THEOREM ImportsFindTheirFiles == StorageSpec => []ImportFindsItsFile
<1>1. ASSUME StorageIInv, NEW i \in Imports,
             import[i].pc \in {"sending", "queued", "downloading"}, ImportLinkIsValid(i)
      PROVE  imported[i] # {}
  <2>1. imported[i] = {import[i].day} \/ TooOld(i)
    BY <1>1 DEF StorageIInv, ImportKept
  <2>2. import[i].day \in Int /\ today \in Int
    BY <1>1, ImportFacts
  <2>3. ~TooOld(i)
    BY <1>1, <2>2, BoundsAssumption, ImportLinkAssumption DEF TooOld, ImportLinkIsValid
  <2> QED
    BY <2>1, <2>3
<1>2. StorageIInv => ImportFindsItsFile
  BY <1>1 DEF ImportFindsItsFile
<1> QED
  BY <1>2, AlwaysStorageIInv, PTL

\* An import that ended in good order leaves as many temporary files as downloads failed.
THEOREM LeftoversAccounted == StorageSpec => []LeftoversAreFailedDownloads
<1>1. StorageIInv => LeftoversAreFailedDownloads
  BY DEF StorageIInv, TempsAccounted, LeftoversAreFailedDownloads
<1> QED
  BY <1>1, AlwaysStorageIInv, PTL

=============================================================================
