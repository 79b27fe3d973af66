----------------------------- MODULE FileStorage -----------------------------
(***************************************************************************)
(* GeneratedFiles together with the files of imports.  start_import writes *)
(* the uploaded file to a temporary file, puts it into the bucket imports  *)
(* and sends a link, valid for a day, to the task                          *)
(* import_batches_from_file, which downloads it to a temporary file of its *)
(* own and is retried once.  The same cleanup removes old objects.         *)
(*                                                                         *)
(* All these names are unique, so every file belongs to one import.  What  *)
(* the rows of the file do is the subject of BatchCreation.                *)
(***************************************************************************)
EXTENDS GeneratedFiles

CONSTANTS Imports,           \* import requests
          ImportLinkDays     \* validity of the link to an import file (1 in the code)

ASSUME ImportLinkAssumption == ImportLinkDays \in Nat /\ ImportLinkDays < KeepDays

VARIABLES
    import,            \* how far each import is, when its link was made, its retries, its
                       \* temporary files and, as history, its failed downloads
    imported,          \* per import, the object: {} or {the day it was stored}
    doomedImports      \* objects the running cleanup has listed as old

importVars == <<import, imported, doomedImports>>

storageVars == <<today, temp, object, job, doomed, crashes,
                 import, imported, doomedImports>>

-----------------------------------------------------------------------------
MaxRetries == 1

NewImport == [pc |-> "new", day |-> 0, retries |-> 0, temps |-> 0, misses |-> 0]

StorageInit ==
    /\ Init
    /\ import = [i \in Imports |-> NewImport]
    /\ imported = [i \in Imports |-> {}]
    /\ doomedImports = {}

\* Import i goes on to pc with so many temporary files.
Proceed(i, pc, temps) ==
    import' = [import EXCEPT ![i].pc = pc, ![i].temps = temps]

-----------------------------------------------------------------------------
(* start_import *)

WriteUpload(i) ==
    /\ import[i].pc = "new"
    /\ Proceed(i, "written", 1)
    /\ UNCHANGED <<imported, doomedImports>>

StoreUpload(i) ==
    /\ import[i].pc = "written"
    /\ imported' = [imported EXCEPT ![i] = {today}]
    /\ import' = [import EXCEPT ![i].pc = "stored", ![i].day = today]
    /\ UNCHANGED doomedImports

StoreUploadFails(i) ==
    /\ import[i].pc = "written"
    /\ Proceed(i, "unstored", import[i].temps)
    /\ UNCHANGED <<imported, doomedImports>>

\* MUTANT: not in a finally block.
RemovesUploadIfStored(pc) == pc = "stored"

RemovesUpload(pc) == pc \in {"stored", "unstored"}

\* The finally block.
RemoveUpload(i) ==
    /\ import[i].pc \in {"stored", "unstored"}
    /\ Proceed(i, IF import[i].pc = "stored" THEN "sending" ELSE "refused",
               IF RemovesUpload(import[i].pc) THEN 0 ELSE import[i].temps)
    /\ UNCHANGED <<imported, doomedImports>>

SendTask(i) ==
    /\ import[i].pc = "sending"
    /\ Proceed(i, "queued", import[i].temps)
    /\ UNCHANGED <<imported, doomedImports>>

\* The broker does not answer: the object stays until the cleanup.
SendTaskFails(i) ==
    /\ import[i].pc = "sending"
    /\ Proceed(i, "refused", import[i].temps)
    /\ UNCHANGED <<imported, doomedImports>>

-----------------------------------------------------------------------------
(* import_batches_from_file *)

\* The temporary file is created before the request is sent.
StartDownload(i) ==
    /\ import[i].pc = "queued"
    /\ Proceed(i, "downloading", import[i].temps + 1)
    /\ UNCHANGED <<imported, doomedImports>>

ImportLinkIsValid(i) == today - import[i].day < ImportLinkDays

Download(i) ==
    /\ import[i].pc = "downloading"
    /\ ImportLinkIsValid(i) /\ imported[i] # {}
    /\ Proceed(i, "downloaded", import[i].temps)
    /\ UNCHANGED <<imported, doomedImports>>

\* MUTANT: one retry too many.
RetryOrFailOffByOne(record) ==
    IF record.retries <= MaxRetries
    THEN [record EXCEPT !.pc = "queued", !.retries = record.retries + 1]
    ELSE [record EXCEPT !.pc = "failed"]

\* The message is sent again, or the retries are used up.
RetryOrFail(record) ==
    IF record.retries < MaxRetries
    THEN [record EXCEPT !.pc = "queued", !.retries = record.retries + 1]
    ELSE [record EXCEPT !.pc = "failed"]

\* No answer, or an answer that is not a success.  file_path is still None, so the
\* finally block does not find the temporary file.
DownloadFails(i) ==
    /\ import[i].pc = "downloading"
    /\ import' = [import EXCEPT ![i] =
          RetryOrFail([import[i] EXCEPT !.misses = import[i].misses + 1])]
    /\ UNCHANGED <<imported, doomedImports>>

\* MUTANT: the task removes its file only when it ends well.
RemovesDownloadIfDone(done) == done

RemovesDownload(done) == TRUE

\* All rows are read, or something outside a row raises; then the finally block.
EndImport(i, done) ==
    /\ import[i].pc = "downloaded"
    /\ LET left == [import[i] EXCEPT !.temps =
                       IF RemovesDownload(done) THEN import[i].temps - 1 ELSE import[i].temps]
       IN  import' = [import EXCEPT ![i] =
               IF done THEN [left EXCEPT !.pc = "done"] ELSE RetryOrFail(left)]
    /\ UNCHANGED <<imported, doomedImports>>

\* The API or the worker process ends: nobody cleans up or goes on.
Die(i) ==
    /\ import[i].pc \in {"written", "stored", "unstored", "sending",
                         "downloading", "downloaded"}
    /\ Proceed(i, "dead", import[i].temps)
    /\ UNCHANGED <<imported, doomedImports>>

-----------------------------------------------------------------------------
(* cleanup_old_files *)

\* MUTANT: a new file is taken for an old one.
ImportIsYoung(day) == today - day < KeepDays

ImportIsOld(day) == today - day > KeepDays

\* The buckets are cleaned one after the other.
ListOldImports ==
    /\ doomed = {} /\ doomedImports = {}
    /\ doomedImports' = {i \in Imports : \E day \in imported[i] : ImportIsOld(day)}
    /\ UNCHANGED <<import, imported>>

DeleteOldImport(i) ==
    /\ i \in doomedImports
    /\ imported' = [imported EXCEPT ![i] = {}]
    /\ doomedImports' = doomedImports \ {i}
    /\ UNCHANGED import

ImportCleanupFails ==
    /\ doomedImports # {}
    /\ doomedImports' = {}
    /\ UNCHANGED <<import, imported>>

-----------------------------------------------------------------------------
ImportStep(i) ==
    \/ WriteUpload(i)
    \/ StoreUpload(i) \/ StoreUploadFails(i)
    \/ RemoveUpload(i)
    \/ SendTask(i) \/ SendTaskFails(i)
    \/ StartDownload(i)
    \/ Download(i) \/ DownloadFails(i)
    \/ EndImport(i, TRUE) \/ EndImport(i, FALSE)
    \/ Die(i)

StorageNext ==
    \/ Next /\ UNCHANGED importVars
    \/ \E i \in Imports : (ImportStep(i) \/ DeleteOldImport(i)) /\ UNCHANGED vars
    \/ (ListOldImports \/ ImportCleanupFails) /\ UNCHANGED vars

StorageSpec == StorageInit /\ [][StorageNext]_storageVars

-----------------------------------------------------------------------------
(* Properties *)

ImportPcs == {"new", "written", "stored", "unstored", "sending", "refused", "queued",
              "downloading", "downloaded", "done", "failed", "dead"}

\* Files, objects, tasks and imports keep their type.
StorageTypeOK ==
    /\ TypeOK
    /\ import \in [Imports -> [pc : ImportPcs, day : 0..MaxDay, retries : 0..MaxRetries,
                               temps : Nat, misses : Nat]]
    /\ imported \in [Imports -> SUBSET (0..MaxDay)]
    /\ doomedImports \subseteq Imports

\* Whatever the cleanup does between its listing and its deletions, a task that is
\* waiting or starting finds its file for as long as the link it was sent is valid.
ImportFindsItsFile ==
    \A i \in Imports :
        import[i].pc \in {"sending", "queued", "downloading"} /\ ImportLinkIsValid(i) =>
            imported[i] # {}

\* An import that ended in good order, however often it failed and was retried, leaves
\* no temporary file in either container, except one for every download that failed.
LeftoversAreFailedDownloads ==
    \A i \in Imports :
        import[i].pc \in {"refused", "done", "failed"} => import[i].temps = import[i].misses

=============================================================================
