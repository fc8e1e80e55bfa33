------------------------------ MODULE Recordings ------------------------------
(***************************************************************************)
(* What FreeSWITCH records and what administrators upload for it to play:   *)
(* files in a directory that the backend shares with FreeSWITCH, and, when  *)
(* the storage is set to "cdn", objects in a bucket.                        *)
(*                                                                         *)
(* The record of a leg names the recording of the call; both legs name the  *)
(* same file.  The backend answers when the record is saved and then copies *)
(* the file to the bucket and deletes it, on its own and only once, while   *)
(* FreeSWITCH may still write to it, the other leg's record may do the same *)
(* and the storage may be set differently (recordings.service.ts).  A       *)
(* prompt is media and a row, written one after the other and deleted one   *)
(* after the other (system-recordings.service.ts).                          *)
(***************************************************************************)
EXTENDS Integers, Sequences, SequencesExt

CONSTANTS
  RecordedCalls,  \* calls that the dialplan has recorded
  Prompts,        \* what administrators upload
  Waves,          \* those of them whose names end in .wav, as those of recordings do
  Storages,       \* what the storage may be set to: mode, bucket, prefix
  MaxAttempts,    \* how often a file that is not there is looked for
  MaxPosts,       \* bound: records that FreeSWITCH posts of a call
  MaxChanges      \* bound: changes of the storage

ASSUME RecordingsAssumption ==
  /\ RecordedCalls \cap Prompts = {} /\ (RecordedCalls \X {"A", "B"}) \cap Prompts = {}
  /\ Waves \subseteq Prompts
  /\ MaxAttempts \in Nat
  /\ \A s \in Storages : s.prefix \in Seq(STRING)

VARIABLES
  storage,   \* the setting: a mode, a bucket ("" if it names none) and a prefix of its keys
  session,   \* of each call: none, recording, finished or never
  disk,      \* the files of the directory
  objects,   \* of all buckets, each with what it holds and whether that is whole
  rows,      \* of the prompts
  work,      \* what the backend does for a record or a prompt
  posts,     \* records posted of each call
  changes,   \* how often the storage was changed
  early,     \* history: recordings that were copied while they were written
  lost,      \* history: recordings whose copy failed or was cut off
  moved      \* history: recordings and prompts older than the last change of the storage

recVars == <<storage, session, disk, objects, rows, work, posts, changes, early, lost, moved>>

Jobs  == (RecordedCalls \X {"A", "B"}) \cup Prompts
Idle  == [st |-> "idle"]

(* Paths in the directory, and the keys of a bucket.                        *)
FileOf(c)     == <<c>>
PromptFile(p) == <<"system", p>>

shouldUseS3(s) == s.mode = "cdn" /\ s.bucket # ""

buildObjectKey(s, path) == s.prefix \o path

stripPrefix(s, key) == IF IsPrefix(s.prefix, key) THEN SubSeq(key, Len(s.prefix) + 1, Len(key)) ELSE key

In(bucket, key) == \E o \in objects : o.bucket = bucket /\ o.key = key

Without(bucket, key) == { o \in objects : o.bucket # bucket \/ o.key # key }

StoreObject(s, path, whole) ==
  objects' = Without(s.bucket, buildObjectKey(s, path))
               \cup {[bucket |-> s.bucket, key |-> buildObjectKey(s, path), holds |-> path, whole |-> whole]}

Starts(j, job) == work' = [work EXCEPT ![j] = job]
Ends(j)        == Starts(j, Idle)

-----------------------------------------------------------------------------
(* What the API lists, and what it opens.                                   *)
IsWave(path) == \A p \in Prompts \ Waves : path # PromptFile(p)

listFromS3(s) ==
  { stripPrefix(s, o.key) : o \in { x \in objects :
      x.bucket = s.bucket /\ IsPrefix(s.prefix, x.key) /\ IsWave(stripPrefix(s, x.key)) } }

listFromLocal == { path \in disk : IsWave(path) }

(* When the bucket does not answer the directory is listed instead.         *)
listRecordings(answers) ==
  IF shouldUseS3(storage) /\ answers THEN listFromS3(storage) ELSE listFromLocal

(* Variant: a recording is opened under the key it has without a prefix.    *)
StreamWithoutPrefix(path) ==
  IF shouldUseS3(storage) THEN In(storage.bucket, path) ELSE path \in disk

getRecordingStream(path) ==
  IF shouldUseS3(storage) THEN In(storage.bucket, buildObjectKey(storage, path)) ELSE path \in disk

getStream(row) ==
  IF row.mode = "cdn" THEN shouldUseS3(storage) /\ In(storage.bucket, row.key) ELSE PromptFile(row.id) \in disk

-----------------------------------------------------------------------------
RecordingsInit ==
  /\ storage \in Storages
  /\ session = [c \in RecordedCalls |-> "none"]
  /\ disk = {} /\ objects = {} /\ rows = {}
  /\ work = [j \in Jobs |-> Idle]
  /\ posts = [c \in RecordedCalls |-> 0] /\ changes = 0
  /\ early = {} /\ lost = {} /\ moved = {}

(* FreeSWITCH: record_session, at once or when the call is answered.        *)
Record(c) ==
  /\ session[c] = "none"
  /\ \/ session' = [session EXCEPT ![c] = "recording"] /\ disk' = disk \cup {FileOf(c)}
     \/ session' = [session EXCEPT ![c] = "never"] /\ UNCHANGED disk
  /\ UNCHANGED <<storage, objects, rows, work, posts, changes, early, lost, moved>>

StopRecording(c) ==
  /\ session[c] = "recording"
  /\ session' = [session EXCEPT ![c] = "finished"]
  /\ UNCHANGED <<storage, disk, objects, rows, work, posts, changes, early, lost, moved>>

(* A record is posted when its leg is over; that of the caller, whose leg   *)
(* is recorded, after the recording.  FreeSWITCH posts it again when it got *)
(* no answer.                                                               *)
PostRecord(c, leg) ==
  /\ session[c] # "none" /\ (leg = "A" => session[c] # "recording")
  /\ work[<<c, leg>>] = Idle /\ posts[c] < MaxPosts
  /\ posts' = [posts EXCEPT ![c] = @ + 1]
  /\ Starts(<<c, leg>>, [st |-> "begun"])
  /\ UNCHANGED <<storage, session, disk, objects, rows, changes, early, lost, moved>>

(* syncRecording.                                                           *)
ReadSetting(j) ==
  /\ work[j].st = "begun"
  /\ Starts(j, IF shouldUseS3(storage) THEN [st |-> "looking", to |-> storage, attempt |-> 1] ELSE Idle)
  /\ UNCHANGED <<storage, session, disk, objects, rows, posts, changes, early, lost, moved>>

NotThere(j) ==
  Starts(j, IF work[j].attempt < MaxAttempts
            THEN [st |-> "looking", to |-> work[j].to, attempt |-> work[j].attempt + 1] ELSE Idle)

Look(c, j) ==
  /\ work[j].st = "looking"
  /\ IF FileOf(c) \in disk THEN Starts(j, [work[j] EXCEPT !.st = "found"]) ELSE NotThere(j)
  /\ UNCHANGED <<storage, session, disk, objects, rows, posts, changes, early, lost, moved>>

(* Variant: the copy is not awaited; the file is deleted before it is known *)
(* whether the bucket took it.                                              *)
CopyNotAwaited(c, j) ==
  /\ work[j].st = "found" /\ FileOf(c) \in disk
  /\ Starts(j, [work[j] EXCEPT !.st = "copied"])
  /\ UNCHANGED objects \/ StoreObject(work[j].to, FileOf(c), session[c] = "finished")
  /\ early' = IF session[c] = "recording" THEN early \cup {c} ELSE early
  /\ UNCHANGED <<storage, session, disk, rows, posts, changes, lost, moved>>

(* The file is copied as it is when it is opened.                           *)
Copy(c, j) ==
  LET to == work[j].to
  IN  /\ work[j].st = "found"
      /\ \/ /\ FileOf(c) \in disk
            /\ StoreObject(to, FileOf(c), session[c] = "finished")
            /\ early' = IF session[c] = "recording" THEN early \cup {c} ELSE early
            /\ Starts(j, [work[j] EXCEPT !.st = "copied"])
            /\ UNCHANGED lost
         \/ /\ FileOf(c) \in disk      \* the bucket does not take it
            /\ lost' = lost \cup {c} /\ Ends(j)
            /\ UNCHANGED <<objects, early>>
         \/ /\ FileOf(c) \notin disk
            /\ NotThere(j)
            /\ UNCHANGED <<objects, early, lost>>
  /\ UNCHANGED <<storage, session, disk, rows, posts, changes, moved>>

(* The directory may refuse; then FreeSWITCH is asked to delete the file.   *)
removeUploadedRecording(c, j) ==
  /\ work[j].st = "copied"
  /\ \/ disk' = disk \ {FileOf(c)} /\ Ends(j)
     \/ FileOf(c) \in disk /\ UNCHANGED disk /\ Ends(j)
     \/ FileOf(c) \in disk /\ UNCHANGED disk /\ Starts(j, [work[j] EXCEPT !.st = "refused"])
  /\ UNCHANGED <<storage, session, objects, rows, posts, changes, early, lost, moved>>

(* It may have done so when its answer does not come in time.               *)
deleteRecordingFile(c, j) ==
  /\ work[j].st = "refused"
  /\ disk' \in {disk, disk \ {FileOf(c)}} /\ Ends(j)
  /\ UNCHANGED <<storage, session, objects, rows, posts, changes, early, lost, moved>>

syncRecording(c, j) ==
  ReadSetting(j) \/ Look(c, j) \/ Copy(c, j) \/ removeUploadedRecording(c, j) \/ deleteRecordingFile(c, j)

-----------------------------------------------------------------------------
(* An upload of a prompt; every one has a name of its own.                  *)
Row(p, s) ==
  [id |-> p, mode |-> IF shouldUseS3(s) THEN "cdn" ELSE "local",
   bucket |-> s.bucket, key |-> buildObjectKey(s, PromptFile(p))]

upload(p) ==
  /\ work[p] = Idle /\ PromptFile(p) \notin disk
  /\ \A o \in objects : o.holds # PromptFile(p)
  /\ Starts(p, [st |-> "writing", row |-> Row(p, storage), to |-> storage])
  /\ UNCHANGED <<storage, session, disk, objects, rows, posts, changes, early, lost, moved>>

WriteMedia(p) ==
  LET row == work[p].row
  IN  /\ work[p].st = "writing"
      /\ \/ /\ Starts(p, [work[p] EXCEPT !.st = "saving"])
            /\ IF row.mode = "cdn" THEN StoreObject(work[p].to, PromptFile(p), TRUE) /\ UNCHANGED disk
               ELSE disk' = disk \cup {PromptFile(p)} /\ UNCHANGED objects
         \/ Ends(p) /\ UNCHANGED <<disk, objects>>
  /\ UNCHANGED <<storage, session, rows, posts, changes, early, lost, moved>>

SaveRow(p) ==
  /\ work[p].st = "saving"
  /\ rows' \in {rows, rows \cup {work[p].row}} /\ Ends(p)
  /\ UNCHANGED <<storage, session, disk, objects, posts, changes, early, lost, moved>>

(* Deleted are the row and then the media, if the bucket can still be used. *)
remove(p) ==
  \E row \in rows :
    /\ row.id = p /\ work[p] = Idle
    /\ rows' = rows \ {row}
    /\ Starts(p, [st |-> "dropped", row |-> row])
    /\ UNCHANGED <<storage, session, disk, objects, posts, changes, early, lost, moved>>

ReadSettingAgain(p) ==
  /\ work[p].st = "dropped" /\ work[p].row.mode = "cdn"
  /\ Starts(p, IF shouldUseS3(storage)
               THEN [st |-> "deleting", row |-> [work[p].row EXCEPT !.bucket = storage.bucket]] ELSE Idle)
  /\ UNCHANGED <<storage, session, disk, objects, rows, posts, changes, early, lost, moved>>

DeleteMedia(p) ==
  LET row == work[p].row
  IN  /\ \/ /\ work[p].st = "deleting"
            /\ objects' \in {objects, Without(row.bucket, row.key)}
            /\ UNCHANGED disk
         \/ /\ work[p].st = "dropped" /\ row.mode = "local"
            /\ disk' \in {disk, disk \ {PromptFile(p)}}
            /\ UNCHANGED objects
      /\ Ends(p)
      /\ UNCHANGED <<storage, session, rows, posts, changes, early, lost, moved>>

-----------------------------------------------------------------------------
(* The row of the setting is written over; nothing is moved.                *)
updateRecordingStorageConfig ==
  /\ changes < MaxChanges /\ changes' = changes + 1
  /\ storage' \in Storages \ {storage}
  /\ moved' = moved \cup { c \in RecordedCalls : posts[c] > 0 } \cup { r.id : r \in rows }
                    \cup { p \in Prompts : work[p] # Idle }
  /\ UNCHANGED <<session, disk, objects, rows, work, posts, early, lost>>

(* The backend is stopped and started.                                      *)
RestartBackend ==
  /\ \E j \in Jobs : work[j] # Idle
  /\ work' = [j \in Jobs |-> Idle]
  /\ lost' = lost \cup { c \in RecordedCalls : \E leg \in {"A", "B"} : work[<<c, leg>>] # Idle }
  /\ UNCHANGED <<storage, session, disk, objects, rows, posts, changes, early, moved>>

RecordingsNext ==
  \/ \E c \in RecordedCalls : Record(c) \/ StopRecording(c)
  \/ \E c \in RecordedCalls, leg \in {"A", "B"} : PostRecord(c, leg) \/ syncRecording(c, <<c, leg>>)
  \/ \E p \in Prompts :
       upload(p) \/ WriteMedia(p) \/ SaveRow(p) \/ remove(p) \/ ReadSettingAgain(p) \/ DeleteMedia(p)
  \/ updateRecordingStorageConfig
  \/ RestartBackend

RecordingsSpec == RecordingsInit /\ [][RecordingsNext]_recVars

-----------------------------------------------------------------------------
Kept(c) == FileOf(c) \in disk \/ \E o \in objects : o.holds = FileOf(c) /\ o.whole

HasMedia(row) == IF row.mode = "cdn" THEN In(row.bucket, row.key) ELSE PromptFile(row.id) \in disk

(* A recording that is finished is on the disk or in a bucket, whole,       *)
(* unless it was copied before it was finished; and a prompt that is listed *)
(* has its media.  Whatever fails or is cut off between two steps           *)
(* (syncRecording, upload, remove).                                         *)
MediaKept ==
  /\ \A c \in RecordedCalls \ early : session[c] = "finished" => Kept(c)
  /\ \A row \in rows : HasMedia(row)

AtRest(c) == \A leg \in {"A", "B"} : work[<<c, leg>>] = Idle

(* A recording that a list of the storage shows can be opened, and what it  *)
(* does not show can not, files of other types than .wav excepted.  A       *)
(* recording whose record was posted is listed when nothing more is done    *)
(* for it, unless its copy failed or the storage was changed since; and a   *)
(* prompt that is listed can be opened unless the storage was changed.      *)
(* A list of the directory made because the bucket could not be listed      *)
(* promises less: it leaves out what was copied and shows what cannot be    *)
(* opened, since getRecordingStream asks the bucket whatever was listed;    *)
(* but that is never a recording nothing more is done for, with the same    *)
(* exceptions (listRecordings, getRecordingStream, getStream).              *)
Settled(c) ==
  c \notin lost \cup moved /\ session[c] = "finished" /\ posts[c] > 0 /\ AtRest(c)

MediaReached ==
  /\ \A n \in { FileOf(c) : c \in RecordedCalls } \cup { PromptFile(p) : p \in Prompts } :
       n \in listRecordings(TRUE) <=> IsWave(n) /\ getRecordingStream(n)
  /\ \A c \in RecordedCalls : Settled(c) => FileOf(c) \in listRecordings(TRUE)
  /\ \A c \in RecordedCalls :
       FileOf(c) \in listRecordings(FALSE) /\ ~getRecordingStream(FileOf(c)) =>
         shouldUseS3(storage) /\ ~Settled(c)
  /\ \A row \in rows : row.id \notin moved => getStream(row)

=============================================================================
