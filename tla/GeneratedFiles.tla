--------------------------- MODULE GeneratedFiles ---------------------------
(***************************************************************************)
(* Files made by the tasks export_batches_to_file and                      *)
(* generate_batch_report: a temporary file in the worker's file system, an *)
(* object in MinIO, a pre-signed link that is valid for some days; and the *)
(* beat task cleanup_old_files, which removes old objects.                 *)
(*                                                                         *)
(* The name of both files is fixed by the format (exports) or by batch and *)
(* format (reports), and the worker runs several tasks at once.  A file is *)
(* the set of jobs whose output is in it: a file that two jobs have open   *)
(* holds a mixture.                                                        *)
(***************************************************************************)
EXTENDS Integers

CONSTANTS Exports,      \* export tasks
          Reports,      \* report tasks
          Files,        \* file names
          FileOf,       \* the name each task uses
          LinkDays,     \* validity of a link (7 in the code)
          KeepDays,     \* age at which an object is removed (30 in the code)
          MaxDay,       \* bound: the clock stops here
          MaxCrashes    \* bound: tasks that end before they clean up

Jobs == Exports \cup Reports

ASSUME FileOfAssumption == FileOf \in [Jobs -> Files]
ASSUME BoundsAssumption ==
    /\ LinkDays \in Nat /\ KeepDays \in Nat /\ LinkDays < KeepDays
    /\ MaxDay \in Nat /\ MaxCrashes \in Nat

VARIABLES
    today,
    temp,        \* per name, the temporary file: the jobs whose output it holds
    object,      \* per name, the object in the bucket
    job,         \* what each task is doing, and when it uploaded
    doomed,      \* objects the running cleanup has listed as old
    crashes

vars == <<today, temp, object, job, doomed, crashes>>

-----------------------------------------------------------------------------
NoObject == [content |-> {}, day |-> 0]

Init ==
    /\ today = 0
    /\ temp = [f \in Files |-> {}]
    /\ object = [f \in Files |-> NoObject]
    /\ job = [j \in Jobs |-> [pc |-> "new", uploaded |-> FALSE, day |-> 0]]
    /\ doomed = {}
    /\ crashes = 0

Exists(f) == temp[f] # {}

Writing(f) == {j \in Jobs : FileOf[j] = f /\ job[j].pc = "writing"}

-----------------------------------------------------------------------------
\* The file is opened for writing: created, or truncated under those that have it open.
OpenFile(j) ==
    /\ job[j].pc = "new"
    /\ LET f == FileOf[j] IN
         temp' = [temp EXCEPT ![f] = (@ \cap Writing(f)) \cup {j}]
    /\ job' = [job EXCEPT ![j].pc = "writing"]
    /\ UNCHANGED <<today, object, doomed, crashes>>

\* If another task has removed the name meanwhile, the output is lost.
CloseFile(j) ==
    /\ job[j].pc = "writing"
    /\ job' = [job EXCEPT ![j].pc = "built"]
    /\ UNCHANGED <<today, temp, object, doomed, crashes>>

Upload(j) ==
    /\ job[j].pc = "built"
    /\ Exists(FileOf[j])
    /\ object' = [object EXCEPT ![FileOf[j]] = [content |-> temp[FileOf[j]], day |-> today]]
    /\ job' = [job EXCEPT ![j] = [pc |-> "remove", uploaded |-> TRUE, day |-> today]]
    /\ UNCHANGED <<today, temp, doomed, crashes>>

\* MUTANT: the temporary file is removed after a successful upload only.
UploadFailsEarly(j) ==
    /\ job[j].pc = "built"
    /\ job' = [job EXCEPT ![j].pc = "failed"]
    /\ UNCHANGED <<today, temp, object, doomed, crashes>>

\* MinIO does not answer, or the file is gone.
UploadFails(j) ==
    /\ job[j].pc = "built"
    /\ job' = [job EXCEPT ![j].pc = "remove"]
    /\ UNCHANGED <<today, temp, object, doomed, crashes>>

\* os.remove raises in a report task if another one has removed the file.
RemoveFails(j) == j \in Reports /\ ~Exists(FileOf[j])

\* The finally block.  The link is returned if nothing was raised.
RemoveFile(j) ==
    /\ job[j].pc = "remove"
    /\ temp' = [temp EXCEPT ![FileOf[j]] = {}]
    /\ job' = [job EXCEPT ![j].pc =
          IF job[j].uploaded /\ ~RemoveFails(j) THEN "done" ELSE "failed"]
    /\ UNCHANGED <<today, object, doomed, crashes>>

\* Killed, or failed before the try block: the temporary file stays.
Crash(j) ==
    /\ job[j].pc \in {"writing", "built", "remove"}
    /\ crashes < MaxCrashes
    /\ crashes' = crashes + 1
    /\ job' = [job EXCEPT ![j].pc = "crashed"]
    /\ UNCHANGED <<today, temp, object, doomed>>

-----------------------------------------------------------------------------
(* cleanup_old_files *)

InBucket(f) == object[f].content # {}

\* MUTANT: compared the wrong way round.
IsYoung(f) == today - object[f].day < KeepDays

IsOld(f) == today - object[f].day > KeepDays

\* A page of the listing; several pages are several runs.
ListOldFiles ==
    /\ doomed = {}
    /\ doomed' = {f \in Files : InBucket(f) /\ IsOld(f)}
    /\ UNCHANGED <<today, temp, object, job, crashes>>

\* By name: the object is not looked at again.
DeleteOldFile(f) ==
    /\ f \in doomed
    /\ object' = [object EXCEPT ![f] = NoObject]
    /\ doomed' = doomed \ {f}
    /\ UNCHANGED <<today, temp, job, crashes>>

CleanupFails ==
    /\ doomed # {}
    /\ doomed' = {}
    /\ UNCHANGED <<today, temp, object, job, crashes>>

NextDay ==
    /\ today < MaxDay
    /\ today' = today + 1
    /\ UNCHANGED <<temp, object, job, doomed, crashes>>

-----------------------------------------------------------------------------
JobStep(j) ==
    \/ OpenFile(j)
    \/ CloseFile(j)
    \/ Upload(j)
    \/ UploadFails(j)
    \/ RemoveFile(j)

Next ==
    \/ \E j \in Jobs : JobStep(j) \/ Crash(j)
    \/ ListOldFiles
    \/ \E f \in Files : DeleteOldFile(f)
    \/ CleanupFails
    \/ NextDay

Spec == Init /\ [][Next]_vars

-----------------------------------------------------------------------------
(* Properties *)

\* Files, objects and tasks keep their type; only names in the bucket are ever listed
\* for removal.
TypeOK ==
    /\ today \in 0..MaxDay
    /\ temp \in [Files -> SUBSET Jobs]
    /\ object \in [Files -> [content : SUBSET Jobs, day : 0..MaxDay]]
    /\ job \in [Jobs -> [pc : {"new", "writing", "built", "remove", "done", "failed",
                               "crashed"},
                         uploaded : BOOLEAN, day : 0..MaxDay]]
    /\ doomed \subseteq {f \in Files : InBucket(f)}
    /\ crashes \in 0..MaxCrashes

\* The link j returned has not expired.
LinkIsValid(j) == job[j].pc = "done" /\ today - job[j].day < LinkDays

ServesItsFile(j) == object[FileOf[j]].content = {j}

Alone(j) == \A k \in Jobs \ {j} : FileOf[k] # FileOf[j]

\* A task that is the only one with its file name returns a link that serves what it
\* generated, for as long as the link is valid: neither the other tasks nor the cleanup
\* get in its way.
LinkServesItsFileAlone == \A j \in Jobs : LinkIsValid(j) /\ Alone(j) => ServesItsFile(j)

\* However the tasks of a name overlap and fail, its temporary file is gone when they
\* have all ended (a task that crashed may leave it).
NoTempFileLeft ==
    \A f \in Files :
        (\A j \in Jobs : FileOf[j] = f => job[j].pc \in {"new", "done", "failed"}) =>
            ~Exists(f)

\* "Files are uploaded with a pre-signed URL (valid for 7 days)".
LinkServesItsFile == \A j \in Jobs : LinkIsValid(j) => ServesItsFile(j)

=============================================================================
