--------------------------- MODULE RecordingsProofs ---------------------------
(***************************************************************************)
(* Whatever fails or is cut off, what was recorded is kept and a prompt has *)
(* its media, and the API lists what it opens: for any number of calls and  *)
(* prompts, any settings and any number of attempts, posts and changes.     *)
(***************************************************************************)
EXTENDS Recordings, SequenceTheorems, TLAPS

Legs    == {"A", "B"}
Keys    == { buildObjectKey(s, PromptFile(p)) : s \in Storages, p \in Prompts }
RowType == [id : Prompts, mode : {"local", "cdn"}, bucket : { s.bucket : s \in Storages }, key : Keys]

SyncJob ==
  {Idle} \cup [st : {"begun"}]
    \cup [st : {"looking", "found", "copied", "refused"}, to : Storages, attempt : Nat]

PromptJob ==
  {Idle} \cup [st : {"writing", "saving"}, row : RowType, to : Storages]
    \cup [st : {"dropped", "deleting"}, row : RowType]

(* The last part of a key is the call, or the prompt, whose media it names. *)
KeyNames(key, n) == key[Len(key)] = n

ObjectOK(o) ==
  \/ \E c \in RecordedCalls : o.holds = FileOf(c) /\ KeyNames(o.key, c)
  \/ \E p \in Prompts : o.holds = PromptFile(p) /\ KeyNames(o.key, p)

TypeInv ==
  /\ storage \in Storages
  /\ session \in [RecordedCalls -> {"none", "recording", "finished", "never"}]
  /\ work = [j \in Jobs |-> work[j]]
  /\ \A c \in RecordedCalls, leg \in Legs : work[<<c, leg>>] \in SyncJob
  /\ \A p \in Prompts : work[p] \in PromptJob
  /\ rows \subseteq RowType
  /\ \A o \in objects : ObjectOK(o)

Stored(c) == \E o \in objects : o.holds = FileOf(c) /\ o.whole

(* A file that is being deleted has been copied whole, unless it was copied *)
(* early.                                                                   *)
FilesInv ==
  \A c \in RecordedCalls :
    /\ session[c] \in {"none", "never"} => FileOf(c) \notin disk
    /\ c \notin early =>
         /\ session[c] = "recording" => FileOf(c) \in disk
         /\ session[c] = "finished" => FileOf(c) \in disk \/ Stored(c)
         /\ \A leg \in Legs : work[<<c, leg>>].st \in {"copied", "refused"} => session[c] = "finished" /\ Stored(c)

(* A prompt has one row, or a request that makes or removes it.             *)
PromptsInv ==
  /\ \A row, other \in rows : row.id = other.id => row = other
  /\ \A row \in rows : work[row.id] = Idle /\ KeyNames(row.key, row.id) /\ HasMedia(row)
  /\ \A p \in Prompts : work[p] # Idle =>
       /\ work[p].row.id = p /\ KeyNames(work[p].row.key, p)
       /\ work[p].st = "writing" => work[p].row = Row(p, work[p].to)
       /\ work[p].st = "saving" => HasMedia(work[p].row)

RInv == TypeInv /\ FilesInv /\ PromptsInv

-----------------------------------------------------------------------------
LEMMA KeyOfFile ==
  ASSUME NEW s \in Storages, NEW c \in RecordedCalls
  PROVE  KeyNames(buildObjectKey(s, FileOf(c)), c)
<1>1. s.prefix \in Seq(STRING \cup {c}) /\ <<c>> \in Seq(STRING \cup {c})
  BY RecordingsAssumption
<1>2. Len(s.prefix \o <<c>>) = Len(s.prefix) + 1 /\ (s.prefix \o <<c>>)[Len(s.prefix) + 1] = c
  BY <1>1
<1> QED BY <1>2 DEF KeyNames, buildObjectKey, FileOf

LEMMA KeyOfPrompt ==
  ASSUME NEW s \in Storages, NEW p \in Prompts
  PROVE  KeyNames(buildObjectKey(s, PromptFile(p)), p)
<1>1. s.prefix \in Seq(STRING \cup {"system", p}) /\ <<"system", p>> \in Seq(STRING \cup {"system", p})
  BY RecordingsAssumption
<1>2. Len(s.prefix \o <<"system", p>>) = Len(s.prefix) + 2 /\ (s.prefix \o <<"system", p>>)[Len(s.prefix) + 2] = p
  BY <1>1
<1> QED BY <1>2 DEF KeyNames, buildObjectKey, PromptFile

LEMMA PathsDiffer ==
  /\ \A c, d \in RecordedCalls : FileOf(c) = FileOf(d) => c = d
  /\ \A p, q \in Prompts : PromptFile(p) = PromptFile(q) => p = q
  /\ \A c \in RecordedCalls, p \in Prompts : FileOf(c) # PromptFile(p) /\ c # p
  BY RecordingsAssumption DEF FileOf, PromptFile

LEMMA JobsDiffer ==
  /\ \A c \in RecordedCalls, leg \in Legs : <<c, leg>> \in Jobs
  /\ Prompts \subseteq Jobs
  /\ \A c \in RecordedCalls, leg \in Legs, p \in Prompts : <<c, leg>> # p
  BY RecordingsAssumption DEF Jobs, Legs

-----------------------------------------------------------------------------
(* What a request does next, and that the others do not notice.             *)
LEMMA SyncStarts ==
  ASSUME TypeInv, NEW c \in RecordedCalls, NEW leg \in Legs, NEW job, Starts(<<c, leg>>, job)
  PROVE  /\ work' = [j \in Jobs |-> work'[j]]
         /\ work'[<<c, leg>>] = job
         /\ \A d \in RecordedCalls, other \in Legs : d # c \/ other # leg => work'[<<d, other>>] = work[<<d, other>>]
         /\ \A p \in Prompts : work'[p] = work[p]
<1>1. work = [j \in Jobs |-> work[j]]
  BY DEF TypeInv
<1>2. work' = [j \in Jobs |-> IF j = <<c, leg>> THEN job ELSE work[j]]
  BY <1>1 DEF Starts
<1>3. work' = [j \in Jobs |-> work'[j]]
  BY <1>2
<1>4. \A j \in Jobs : work'[j] = IF j = <<c, leg>> THEN job ELSE work[j]
  BY <1>2
<1> QED BY <1>3, <1>4, JobsDiffer

LEMMA PromptStarts ==
  ASSUME TypeInv, NEW p \in Prompts, NEW job, Starts(p, job)
  PROVE  /\ work' = [j \in Jobs |-> work'[j]]
         /\ work'[p] = job
         /\ \A q \in Prompts : q # p => work'[q] = work[q]
         /\ \A c \in RecordedCalls, leg \in Legs : work'[<<c, leg>>] = work[<<c, leg>>]
<1>1. work = [j \in Jobs |-> work[j]]
  BY DEF TypeInv
<1>2. work' = [j \in Jobs |-> IF j = p THEN job ELSE work[j]]
  BY <1>1 DEF Starts
<1>3. work' = [j \in Jobs |-> work'[j]]
  BY <1>2
<1>4. \A j \in Jobs : work'[j] = IF j = p THEN job ELSE work[j]
  BY <1>2
<1> QED BY <1>3, <1>4, JobsDiffer

(* A step of a copy that neither stores nor deletes anything.               *)
LEMMA SyncQuiet ==
  ASSUME RInv, NEW c \in RecordedCalls, NEW leg \in Legs, NEW job \in SyncJob, Starts(<<c, leg>>, job),
         job.st \notin {"copied", "refused"},
         UNCHANGED <<storage, session, disk, objects, rows, early>>
  PROVE  RInv'
<1> USE DEF RInv
<1>1. /\ work' = [j \in Jobs |-> work'[j]]
      /\ work'[<<c, leg>>] = job
      /\ \A d \in RecordedCalls, other \in Legs : d # c \/ other # leg => work'[<<d, other>>] = work[<<d, other>>]
      /\ \A p \in Prompts : work'[p] = work[p]
  BY SyncStarts
<1>2. TypeInv'
  BY <1>1 DEF TypeInv, ObjectOK
<1>3. FilesInv'
  BY <1>1 DEF FilesInv, Stored
<1>4. PromptsInv'
  <2>1. \A row \in rows : row.id \in Prompts
    BY DEF TypeInv, RowType
  <2> QED BY <1>1, <2>1 DEF PromptsInv, HasMedia, In
<1> QED BY <1>2, <1>3, <1>4

(* A file that was copied is deleted, or not.                               *)
LEMMA FileDeleted ==
  ASSUME RInv, NEW c \in RecordedCalls, NEW leg \in Legs, NEW job \in SyncJob, Starts(<<c, leg>>, job),
         work[<<c, leg>>].st \in {"copied", "refused"},
         disk' \in {disk, disk \ {FileOf(c)}},
         UNCHANGED <<storage, session, objects, rows, early>>
  PROVE  RInv'
<1> USE DEF RInv
<1>1. /\ work' = [j \in Jobs |-> work'[j]]
      /\ work'[<<c, leg>>] = job
      /\ \A d \in RecordedCalls, other \in Legs : d # c \/ other # leg => work'[<<d, other>>] = work[<<d, other>>]
      /\ \A p \in Prompts : work'[p] = work[p]
  BY SyncStarts
<1>2. TypeInv'
  BY <1>1 DEF TypeInv, ObjectOK
<1>3. FilesInv'
  <2>1. c \notin early => session[c] = "finished" /\ Stored(c)
    BY DEF FilesInv
  <2>2. \A d \in RecordedCalls : d # c => (FileOf(d) \in disk' <=> FileOf(d) \in disk)
    BY PathsDiffer
  <2> QED BY <1>1, <2>1, <2>2 DEF FilesInv, Stored
<1>4. PromptsInv'
  <2>1. \A row \in rows : row.id \in Prompts
    BY DEF TypeInv, RowType
  <2>2. \A p \in Prompts : PromptFile(p) \in disk' <=> PromptFile(p) \in disk
    BY PathsDiffer
  <2>3. \A p \in Prompts : work[p] # Idle /\ work[p].st = "saving" => work[p].row.id \in Prompts
    BY DEF PromptsInv
  <2> QED BY <1>1, <2>1, <2>2, <2>3 DEF PromptsInv, HasMedia, In
<1> QED BY <1>2, <1>3, <1>4

-----------------------------------------------------------------------------
(* What a bucket holds when an object is stored, or deleted.                *)
LEMMA HoldsIts ==
  ASSUME NEW o, ObjectOK(o)
  PROVE  /\ \A c \in RecordedCalls : o.holds = FileOf(c) => KeyNames(o.key, c)
         /\ \A p \in Prompts : o.holds # PromptFile(p) => ~KeyNames(o.key, p)
<1>1. CASE \E c \in RecordedCalls : o.holds = FileOf(c) /\ KeyNames(o.key, c)
  <2>1. PICK c \in RecordedCalls : o.holds = FileOf(c) /\ KeyNames(o.key, c)
    BY <1>1
  <2> QED BY <2>1, PathsDiffer DEF KeyNames
<1>2. CASE \E p \in Prompts : o.holds = PromptFile(p) /\ KeyNames(o.key, p)
  <2>1. PICK p \in Prompts : o.holds = PromptFile(p) /\ KeyNames(o.key, p)
    BY <1>2
  <2> QED BY <2>1, PathsDiffer DEF KeyNames
<1> QED BY <1>1, <1>2 DEF ObjectOK

LEMMA StoreKeeps ==
  ASSUME NEW s, NEW path, NEW whole, StoreObject(s, path, whole)
  PROVE  /\ \A bucket, key : In(bucket, key) => In(bucket, key)'
         /\ In(s.bucket, buildObjectKey(s, path))'
<1> DEFINE new == [bucket |-> s.bucket, key |-> buildObjectKey(s, path), holds |-> path, whole |-> whole]
<1>1. new \in objects' /\ \A o \in objects : o \in objects' \/ (o.bucket = new.bucket /\ o.key = new.key)
  BY DEF StoreObject, Without
<1>2. new.bucket = s.bucket /\ new.key = buildObjectKey(s, path)
  OBVIOUS
<1> HIDE DEF new
<1> QED BY <1>1, <1>2 DEF In

LEMMA CopyStores ==
  ASSUME TypeInv, NEW s \in Storages, NEW c \in RecordedCalls, NEW whole, StoreObject(s, FileOf(c), whole)
  PROVE  /\ \A o \in objects' : ObjectOK(o)
         /\ \A d \in RecordedCalls : d # c /\ Stored(d) => Stored(d)'
         /\ whole => Stored(c)'
<1> DEFINE new == [bucket |-> s.bucket, key |-> buildObjectKey(s, FileOf(c)), holds |-> FileOf(c), whole |-> whole]
<1>1. /\ new \in objects'
      /\ \A o \in objects' : o \in objects \/ o = new
      /\ \A o \in objects : o \in objects' \/ o.key = new.key
  BY DEF StoreObject, Without
<1>2. new.holds = FileOf(c) /\ KeyNames(new.key, c) /\ new.whole = whole
  BY KeyOfFile
<1> HIDE DEF new
<1>3. \A o \in objects : ObjectOK(o)
  BY DEF TypeInv
<1>4. \A o \in objects' : ObjectOK(o)
  BY <1>1, <1>2, <1>3 DEF ObjectOK
<1>5. ASSUME NEW d \in RecordedCalls, d # c, Stored(d) PROVE Stored(d)'
  <2>1. PICK o \in objects : o.holds = FileOf(d) /\ o.whole
    BY <1>5 DEF Stored
  <2>2. KeyNames(o.key, d)
    BY <2>1, <1>3, HoldsIts
  <2>3. o \in objects'
    BY <2>2, <1>1, <1>2, <1>5 DEF KeyNames
  <2> QED BY <2>1, <2>3 DEF Stored
<1>6. whole => Stored(c)'
  BY <1>1, <1>2 DEF Stored
<1> QED BY <1>4, <1>5, <1>6

LEMMA PromptStores ==
  ASSUME TypeInv, NEW s \in Storages, NEW p \in Prompts, StoreObject(s, PromptFile(p), TRUE)
  PROVE  /\ \A o \in objects' : ObjectOK(o)
         /\ \A d \in RecordedCalls : Stored(d) => Stored(d)'
<1> DEFINE new == [bucket |-> s.bucket, key |-> buildObjectKey(s, PromptFile(p)), holds |-> PromptFile(p), whole |-> TRUE]
<1>1. /\ \A o \in objects' : o \in objects \/ o = new
      /\ \A o \in objects : o \in objects' \/ o.key = new.key
  BY DEF StoreObject, Without
<1>2. new.holds = PromptFile(p) /\ KeyNames(new.key, p)
  BY KeyOfPrompt
<1> HIDE DEF new
<1>3. \A o \in objects : ObjectOK(o)
  BY DEF TypeInv
<1>4. \A o \in objects' : ObjectOK(o)
  BY <1>1, <1>2, <1>3 DEF ObjectOK
<1>5. ASSUME NEW d \in RecordedCalls, Stored(d) PROVE Stored(d)'
  <2>1. PICK o \in objects : o.holds = FileOf(d) /\ o.whole
    BY <1>5 DEF Stored
  <2>2. KeyNames(o.key, d) /\ d # p
    BY <2>1, <1>3, HoldsIts, PathsDiffer
  <2>3. o \in objects'
    BY <2>2, <1>1, <1>2 DEF KeyNames
  <2> QED BY <2>1, <2>3 DEF Stored
<1> QED BY <1>4, <1>5

LEMMA DeleteKeeps ==
  ASSUME TypeInv, NEW p \in Prompts, NEW bucket, NEW key, KeyNames(key, p),
         objects' \in {objects, Without(bucket, key)}
  PROVE  /\ \A o \in objects' : ObjectOK(o)
         /\ \A d \in RecordedCalls : Stored(d) => Stored(d)'
         /\ \A b, k : ~KeyNames(k, p) /\ In(b, k) => In(b, k)'
<1>1. objects' \subseteq objects /\ \A o \in objects : o \in objects' \/ o.key = key
  BY DEF Without
<1>2. \A o \in objects : ObjectOK(o)
  BY DEF TypeInv
<1>3. ASSUME NEW d \in RecordedCalls, Stored(d) PROVE Stored(d)'
  <2>1. PICK o \in objects : o.holds = FileOf(d) /\ o.whole
    BY <1>3 DEF Stored
  <2>2. KeyNames(o.key, d) /\ d # p
    BY <2>1, <1>2, HoldsIts, PathsDiffer
  <2>3. o \in objects'
    BY <2>2, <1>1 DEF KeyNames
  <2> QED BY <2>1, <2>3 DEF Stored
<1>4. \A b, k : ~KeyNames(k, p) /\ In(b, k) => In(b, k)'
  BY <1>1 DEF In
<1> QED BY <1>1, <1>2, <1>3, <1>4

-----------------------------------------------------------------------------
(* A step of one prompt that leaves the other prompts their media.          *)
LEMMA PromptStep ==
  ASSUME RInv, NEW p \in Prompts, NEW job \in PromptJob, Starts(p, job),
         UNCHANGED <<storage, session, early>>,
         job # Idle =>
           /\ job.row.id = p /\ KeyNames(job.row.key, p)
           /\ job.st = "writing" => job.row = Row(p, job.to)
           /\ job.st = "saving" => HasMedia(job.row)',
         rows' \subseteq RowType,
         \A row \in rows' : row.id = p => KeyNames(row.key, p) /\ job = Idle /\ HasMedia(row)',
         \A row \in rows' : row.id # p => row \in rows,
         \A row, other \in rows' : row.id = p /\ other.id = p => row = other,
         \A row \in RowType : row.id # p /\ KeyNames(row.key, row.id) /\ HasMedia(row) => HasMedia(row)',
         \A c \in RecordedCalls : FileOf(c) \in disk' <=> FileOf(c) \in disk,
         \A o \in objects' : ObjectOK(o),
         \A c \in RecordedCalls : Stored(c) => Stored(c)'
  PROVE  RInv'
<1> USE DEF RInv
<1>1. /\ work' = [j \in Jobs |-> work'[j]]
      /\ work'[p] = job
      /\ \A q \in Prompts : q # p => work'[q] = work[q]
      /\ \A c \in RecordedCalls, leg \in Legs : work'[<<c, leg>>] = work[<<c, leg>>]
  BY PromptStarts
<1>2. TypeInv'
  BY <1>1 DEF TypeInv, ObjectOK
<1>3. FilesInv'
  BY <1>1 DEF FilesInv
<1>4. PromptsInv'
  <2>1. \A row \in rows' : row.id \in Prompts
    BY DEF RowType
  <2>2. \A row, other \in rows' : row.id = other.id => row = other
    BY DEF PromptsInv
  <2>3. \A row \in rows' : work'[row.id] = Idle /\ KeyNames(row.key, row.id) /\ HasMedia(row)'
    BY <1>1, <2>1 DEF PromptsInv
  <2>4. ASSUME NEW q \in Prompts, work'[q] # Idle
        PROVE  /\ work'[q].row.id = q /\ KeyNames(work'[q].row.key, q)
               /\ work'[q].st = "writing" => work'[q].row = Row(q, work'[q].to)
               /\ work'[q].st = "saving" => HasMedia(work[q].row)'
    <3>1. CASE q = p
      BY <1>1, <2>4, <3>1
    <3>2. CASE q # p
      <4>1. work'[q] = work[q] /\ work[q] # Idle
        BY <1>1, <2>4, <3>2
      <4>2. work[q].st = "saving" => work[q].row \in RowType
        BY DEF TypeInv, PromptJob, Idle
      <4> QED BY <3>2, <4>1, <4>2 DEF PromptsInv
    <3> QED BY <3>1, <3>2
  <2> QED BY <2>2, <2>3, <2>4 DEF PromptsInv
<1> QED BY <1>2, <1>3, <1>4

LEMMA PromptOfAction ==
  ASSUME RInv, NEW p \in Prompts, work[p] # Idle
  PROVE  /\ work[p].row \in RowType /\ work[p].row.id = p /\ KeyNames(work[p].row.key, p)
         /\ \A row \in rows : row.id # p
  BY DEF RInv, TypeInv, PromptsInv, PromptJob

(* Nothing in the bucket or on the disk changes.                            *)
LEMMA MediaStays ==
  ASSUME UNCHANGED <<disk, objects>>
  PROVE  /\ \A row : HasMedia(row) => HasMedia(row)'
         /\ \A c \in RecordedCalls : FileOf(c) \in disk' <=> FileOf(c) \in disk
         /\ \A c \in RecordedCalls : Stored(c) => Stored(c)'
  BY DEF HasMedia, In, Stored

-----------------------------------------------------------------------------
LEMMA InitRInv == RecordingsInit => RInv
<1> SUFFICES ASSUME RecordingsInit PROVE RInv
  OBVIOUS
<1>1. \A j \in Jobs : work[j] = Idle
  BY DEF RecordingsInit
<1>2. work = [j \in Jobs |-> work[j]]
  BY DEF RecordingsInit
<1>3. \A c \in RecordedCalls, leg \in Legs : work[<<c, leg>>] = Idle
  BY <1>1, JobsDiffer
<1>4. \A p \in Prompts : work[p] = Idle
  BY <1>1, JobsDiffer
<1>5. TypeInv
  BY <1>2, <1>3, <1>4 DEF RecordingsInit, TypeInv, SyncJob, PromptJob
<1>6. FilesInv
  BY <1>3 DEF RecordingsInit, FilesInv, Idle
<1>7. PromptsInv
  BY <1>4 DEF RecordingsInit, PromptsInv
<1> QED BY <1>5, <1>6, <1>7 DEF RInv

(* The steps of a call and of FreeSWITCH.                                   *)
LEMMA SessionStep ==
  ASSUME RInv, NEW c \in RecordedCalls, Record(c) \/ StopRecording(c)
  PROVE  RInv'
<1> USE DEF RInv
<1>1. /\ UNCHANGED <<storage, objects, rows, work, early>>
      /\ \A d \in RecordedCalls : d # c => session'[d] = session[d] /\ (FileOf(d) \in disk' <=> FileOf(d) \in disk)
      /\ \A p \in Prompts : PromptFile(p) \in disk' <=> PromptFile(p) \in disk
  BY PathsDiffer DEF Record, StopRecording, TypeInv
<1>2. \/ session[c] = "none" /\ session'[c] = "recording" /\ FileOf(c) \in disk'
      \/ session[c] = "none" /\ session'[c] = "never" /\ disk' = disk
      \/ session[c] = "recording" /\ session'[c] = "finished" /\ disk' = disk
  BY DEF Record, StopRecording, TypeInv
<1>3. session' \in [RecordedCalls -> {"none", "recording", "finished", "never"}]
  BY DEF Record, StopRecording, TypeInv
<1>4. TypeInv'
  BY <1>1, <1>3 DEF TypeInv, ObjectOK
<1>5. FilesInv'
  <2>1. \A d \in RecordedCalls : Stored(d)' <=> Stored(d)
    BY <1>1 DEF Stored
  <2>2. ASSUME NEW d \in RecordedCalls
        PROVE  /\ session'[d] \in {"none", "never"} => FileOf(d) \notin disk'
               /\ d \notin early =>
                    /\ session'[d] = "recording" => FileOf(d) \in disk'
                    /\ session'[d] = "finished" => FileOf(d) \in disk' \/ Stored(d)'
                    /\ \A leg \in Legs : work[<<d, leg>>].st \in {"copied", "refused"} => session'[d] = "finished" /\ Stored(d)'
    <3>1. CASE d = c
      BY <1>2, <2>1, <3>1 DEF FilesInv
    <3>2. CASE d # c
      BY <1>1, <2>1, <3>2 DEF FilesInv
    <3> QED BY <3>1, <3>2
  <2> QED BY <1>1, <2>2 DEF FilesInv
<1>6. PromptsInv'
  <2>1. \A row \in RowType : HasMedia(row) => HasMedia(row)'
    BY <1>1 DEF HasMedia, In, RowType
  <2>2. rows \subseteq RowType /\ \A p \in Prompts : work[p].st = "saving" => work[p].row \in RowType
    BY DEF TypeInv, PromptJob, Idle
  <2> QED BY <1>1, <2>1, <2>2 DEF PromptsInv
<1> QED BY <1>4, <1>5, <1>6

LEMMA SyncTypes ==
  ASSUME TypeInv, NEW c \in RecordedCalls, NEW leg \in Legs
  PROVE  LET job == work[<<c, leg>>]
         IN  job.st \in {"looking", "found", "copied", "refused"} =>
               /\ job.to \in Storages /\ job.attempt \in Nat
               /\ \A st \in {"looking", "found", "copied", "refused"} :
                    /\ [job EXCEPT !.st = st] \in SyncJob /\ [job EXCEPT !.st = st].st = st
                    /\ [job EXCEPT !.st = st].to = job.to
<1> DEFINE job == work[<<c, leg>>]
<1>1. job \in SyncJob
  BY DEF TypeInv
<1> HIDE DEF job
<1>2. job.st \in {"looking", "found", "copied", "refused"} =>
        job \in [st : {"looking", "found", "copied", "refused"}, to : Storages, attempt : Nat]
  BY <1>1 DEF SyncJob, Idle
<1>3. ASSUME job.st \in {"looking", "found", "copied", "refused"}, NEW st \in {"looking", "found", "copied", "refused"}
      PROVE  /\ [job EXCEPT !.st = st] \in SyncJob /\ [job EXCEPT !.st = st].st = st
             /\ [job EXCEPT !.st = st].to = job.to
  <2> DEFINE Begun == [st : {"looking", "found", "copied", "refused"}, to : Storages, attempt : Nat]
  <2>1. job = [st |-> job.st, to |-> job.to, attempt |-> job.attempt] /\ job.to \in Storages /\ job.attempt \in Nat
    BY <1>2, <1>3
  <2>2. [job EXCEPT !.st = st] = [st |-> st, to |-> job.to, attempt |-> job.attempt]
    BY <2>1
  <2>3. /\ [job EXCEPT !.st = st] \in Begun /\ [job EXCEPT !.st = st].st = st
        /\ [job EXCEPT !.st = st].to = job.to
    BY <2>1, <2>2
  <2> QED BY <2>3 DEF SyncJob
<1> QED BY <1>2, <1>3 DEF job

LEMMA NotThereStep ==
  ASSUME RInv, NEW c \in RecordedCalls, NEW leg \in Legs,
         work[<<c, leg>>].st \in {"looking", "found"}, NotThere(<<c, leg>>),
         UNCHANGED <<storage, session, disk, objects, rows, early>>
  PROVE  RInv'
<1> DEFINE j    == <<c, leg>>
           next == [st |-> "looking", to |-> work[j].to, attempt |-> work[j].attempt + 1]
           job  == IF work[j].attempt < MaxAttempts THEN next ELSE Idle
<1>1. job \in SyncJob /\ job.st \notin {"copied", "refused"}
  <2>1. Idle \in SyncJob /\ Idle.st \notin {"copied", "refused"}
    BY DEF SyncJob, Idle
  <2>2. work[j].to \in Storages /\ work[j].attempt + 1 \in Nat
    <3>1. work[j].to \in Storages /\ work[j].attempt \in Nat
      BY SyncTypes DEF RInv
    <3> QED BY <3>1
  <2>3. \A to \in Storages, attempt \in Nat : [st |-> "looking", to |-> to, attempt |-> attempt] \in SyncJob
    BY DEF SyncJob
  <2>4. next \in SyncJob
    BY <2>2, <2>3
  <2>5. next.st = "looking"
    OBVIOUS
  <2> QED BY <2>1, <2>4, <2>5
<1>2. Starts(j, job)
  BY DEF NotThere
<1> HIDE DEF job
<1> QED BY <1>1, <1>2, SyncQuiet

(* The steps that neither store nor delete: the record is posted, the       *)
(* setting is read and the file is looked for.                              *)
LEMMA QuietStep ==
  ASSUME RInv, NEW c \in RecordedCalls, NEW leg \in Legs,
         PostRecord(c, leg) \/ ReadSetting(<<c, leg>>) \/ Look(c, <<c, leg>>)
  PROVE  RInv'
<1>1. CASE PostRecord(c, leg)
  <2>1. [st |-> "begun"] \in SyncJob /\ [st |-> "begun"].st \notin {"copied", "refused"}
    BY DEF SyncJob
  <2> QED BY <1>1, <2>1, SyncQuiet DEF PostRecord
<1>2. CASE ReadSetting(<<c, leg>>)
  <2> DEFINE job == IF shouldUseS3(storage) THEN [st |-> "looking", to |-> storage, attempt |-> 1] ELSE Idle
  <2>1. job \in SyncJob /\ job.st \notin {"copied", "refused"}
    BY DEF RInv, TypeInv, SyncJob, Idle
  <2>2. Starts(<<c, leg>>, job) /\ UNCHANGED <<storage, session, disk, objects, rows, early>>
    BY <1>2 DEF ReadSetting
  <2> HIDE DEF job
  <2> QED BY <2>1, <2>2, SyncQuiet
<1>3. CASE Look(c, <<c, leg>>)
  <2>1. work[<<c, leg>>].st = "looking" /\ UNCHANGED <<storage, session, disk, objects, rows, early>>
    BY <1>3 DEF Look
  <2>2. CASE Starts(<<c, leg>>, [work[<<c, leg>>] EXCEPT !.st = "found"])
    BY <2>1, <2>2, SyncTypes, SyncQuiet DEF RInv
  <2>3. CASE NotThere(<<c, leg>>)
    BY <2>1, <2>3, NotThereStep
  <2> QED BY <1>3, <2>2, <2>3 DEF Look
<1> QED BY <1>1, <1>2, <1>3

(* A file is copied while it may still be written: then nothing more is     *)
(* promised of it.                                                          *)
LEMMA CopyStep ==
  ASSUME RInv, NEW c \in RecordedCalls, NEW leg \in Legs, Copy(c, <<c, leg>>)
  PROVE  RInv'
<1> DEFINE j   == <<c, leg>>
           to  == work[j].to
           job == [work[j] EXCEPT !.st = "copied"]
<1>1. work[j].st = "found" /\ to \in Storages /\ job \in SyncJob /\ job.st = "copied"
  BY SyncTypes DEF Copy, RInv
<1>2. CASE /\ FileOf(c) \in disk
           /\ StoreObject(to, FileOf(c), session[c] = "finished")
           /\ early' = IF session[c] = "recording" THEN early \cup {c} ELSE early
           /\ Starts(j, job)
           /\ UNCHANGED <<storage, session, disk, rows>>
  <2> HIDE DEF to, job
  <2> USE DEF RInv
  <2>1. /\ work' = [i \in Jobs |-> work'[i]]
        /\ work'[j] = job
        /\ \A d \in RecordedCalls, other \in Legs : d # c \/ other # leg => work'[<<d, other>>] = work[<<d, other>>]
        /\ \A p \in Prompts : work'[p] = work[p]
    BY <1>2, SyncStarts
  <2>2. /\ \A o \in objects' : ObjectOK(o)
        /\ \A d \in RecordedCalls : d # c /\ Stored(d) => Stored(d)'
        /\ session[c] = "finished" => Stored(c)'
    BY <1>1, <1>2, CopyStores
  <2>3. \A bucket, key : In(bucket, key) => In(bucket, key)'
    BY <1>2, StoreKeeps
  <2>4. TypeInv'
    BY <1>1, <1>2, <2>1, <2>2 DEF TypeInv, ObjectOK
  <2>5. FilesInv'
    <3>1. session[c] \in {"recording", "finished"} /\ (c \notin early' => session[c] = "finished" /\ c \notin early)
      BY <1>2 DEF FilesInv, TypeInv
    <3>2. \A d \in RecordedCalls : d # c /\ d \notin early' => d \notin early
      BY <1>2
    <3>3. ASSUME NEW d \in RecordedCalls
          PROVE  /\ session'[d] \in {"none", "never"} => FileOf(d) \notin disk'
                 /\ d \notin early' =>
                      /\ session'[d] = "recording" => FileOf(d) \in disk'
                      /\ session'[d] = "finished" => FileOf(d) \in disk' \/ Stored(d)'
                      /\ \A lg \in Legs : work'[<<d, lg>>].st \in {"copied", "refused"} => session'[d] = "finished" /\ Stored(d)'
      <4>1. CASE d = c
        BY <1>2, <2>2, <3>1, <4>1
      <4>2. CASE d # c
        BY <1>2, <2>1, <2>2, <3>2, <4>2 DEF FilesInv
      <4> QED BY <4>1, <4>2
    <3> QED BY <3>3 DEF FilesInv
  <2>6. PromptsInv'
    <3>1. \A row : HasMedia(row) => HasMedia(row)'
      BY <1>2, <2>3 DEF HasMedia
    <3>2. \A row \in rows : row.id \in Prompts
      BY DEF TypeInv, RowType
    <3> QED BY <1>2, <2>1, <3>1, <3>2 DEF PromptsInv
  <2> QED BY <2>4, <2>5, <2>6
<1>3. CASE Ends(j) /\ UNCHANGED <<storage, session, disk, objects, rows, early>>
  <2>1. Idle \in SyncJob /\ Idle.st \notin {"copied", "refused"}
    BY DEF SyncJob, Idle
  <2> QED BY <1>3, <2>1, SyncQuiet DEF Ends
<1>4. CASE NotThere(j) /\ UNCHANGED <<storage, session, disk, objects, rows, early>>
  BY <1>1, <1>4, NotThereStep
<1> QED BY <1>2, <1>3, <1>4 DEF Copy

(* A copy of the file is deleted.                                           *)
LEMMA DeleteStep ==
  ASSUME RInv, NEW c \in RecordedCalls, NEW leg \in Legs,
         removeUploadedRecording(c, <<c, leg>>) \/ deleteRecordingFile(c, <<c, leg>>)
  PROVE  RInv'
<1>1. /\ work[<<c, leg>>].st \in {"copied", "refused"}
      /\ disk' \in {disk, disk \ {FileOf(c)}}
      /\ UNCHANGED <<storage, session, objects, rows, early>>
  BY DEF removeUploadedRecording, deleteRecordingFile
<1>2. CASE Starts(<<c, leg>>, Idle)
  <2>1. Idle \in SyncJob
    BY DEF SyncJob
  <2> QED BY <1>1, <1>2, <2>1, FileDeleted
<1>3. CASE Starts(<<c, leg>>, [work[<<c, leg>>] EXCEPT !.st = "refused"])
  BY <1>1, <1>3, SyncTypes, FileDeleted DEF RInv
<1> QED BY <1>2, <1>3 DEF removeUploadedRecording, deleteRecordingFile, Ends

-----------------------------------------------------------------------------
LEMMA RowTypes ==
  ASSUME NEW s \in Storages, NEW p \in Prompts
  PROVE  Row(p, s) \in RowType /\ Row(p, s).id = p /\ KeyNames(Row(p, s).key, p)
<1>1. buildObjectKey(s, PromptFile(p)) \in Keys
  BY DEF Keys
<1>2. KeyNames(buildObjectKey(s, PromptFile(p)), p)
  BY KeyOfPrompt
<1> QED BY <1>1, <1>2 DEF Row, RowType

(* Only a prompt without media is uploaded, so it has no row.               *)
LEMMA UploadStep ==
  ASSUME RInv, NEW p \in Prompts, upload(p)
  PROVE  RInv'
<1> DEFINE job == [st |-> "writing", row |-> Row(p, storage), to |-> storage]
<1>1. \A row \in rows : row.id # p
  <2> SUFFICES ASSUME NEW row \in rows, row.id = p PROVE FALSE
    OBVIOUS
  <2>1. KeyNames(row.key, p) /\ HasMedia(row)
    BY DEF RInv, PromptsInv
  <2>2. PromptFile(p) \notin disk /\ \A o \in objects : o.holds # PromptFile(p)
    BY DEF upload
  <2>3. PICK o \in objects : o.key = row.key
    BY <2>1, <2>2 DEF HasMedia, In
  <2>4. ObjectOK(o)
    BY DEF RInv, TypeInv
  <2> QED BY <2>1, <2>2, <2>3, <2>4, HoldsIts
<1>2. storage \in Storages
  BY DEF RInv, TypeInv
<1>3. Row(p, storage) \in RowType /\ Row(p, storage).id = p /\ KeyNames(Row(p, storage).key, p)
  BY <1>2, RowTypes
<1>4. job \in PromptJob
  <2>1. \A row \in RowType, to \in Storages : [st |-> "writing", row |-> row, to |-> to] \in PromptJob
    BY DEF PromptJob
  <2> QED BY <1>2, <1>3, <2>1
<1>5. job.st = "writing" /\ job.row = Row(p, storage) /\ job.to = storage
  OBVIOUS
<1>6. Starts(p, job) /\ UNCHANGED <<storage, session, disk, objects, rows, early>>
  BY DEF upload
<1>7. \A o \in objects' : ObjectOK(o)
  BY <1>6 DEF RInv, TypeInv
<1>8. rows' \subseteq RowType
  BY <1>6 DEF RInv, TypeInv
<1> HIDE DEF job
<1> QED BY <1>1, <1>3, <1>4, <1>5, <1>6, <1>7, <1>8, MediaStays, PromptStep

(* Removed is the one row of a prompt.                                      *)
LEMMA RemoveStep ==
  ASSUME RInv, NEW p \in Prompts, remove(p)
  PROVE  RInv'
<1>1. PICK row \in rows :
        /\ row.id = p /\ work[p] = Idle
        /\ rows' = rows \ {row}
        /\ Starts(p, [st |-> "dropped", row |-> row])
        /\ UNCHANGED <<storage, session, disk, objects, early>>
  BY DEF remove
<1> DEFINE job == [st |-> "dropped", row |-> row]
<1>2. \A other \in rows' : other.id # p
  BY <1>1 DEF RInv, PromptsInv
<1>3. job \in PromptJob
  <2>1. \A r \in RowType : [st |-> "dropped", row |-> r] \in PromptJob
    BY DEF PromptJob
  <2> QED BY <2>1 DEF RInv, TypeInv
<1>4. KeyNames(row.key, p)
  BY <1>1 DEF RInv, PromptsInv
<1>5. job.st = "dropped" /\ job.row = row
  OBVIOUS
<1>6. \A o \in objects' : ObjectOK(o)
  BY <1>1 DEF RInv, TypeInv
<1>7. rows' \subseteq RowType /\ rows' \subseteq rows
  BY <1>1 DEF RInv, TypeInv
<1> HIDE DEF job
<1>8. Starts(p, job)
  BY <1>1 DEF job
<1> QED BY <1>1, <1>2, <1>3, <1>4, <1>5, <1>6, <1>7, <1>8, MediaStays, PromptStep

(* A row is saved when its media is written.                                *)
LEMMA SaveStep ==
  ASSUME RInv, NEW p \in Prompts, SaveRow(p)
  PROVE  RInv'
<1> DEFINE row == work[p].row
<1>1. /\ work[p].st = "saving"
      /\ rows' \in {rows, rows \cup {row}} /\ Starts(p, Idle)
      /\ UNCHANGED <<storage, session, disk, objects, early>>
  BY DEF SaveRow, Ends
<1>2. work[p] # Idle
  BY <1>1 DEF Idle
<1>3. row \in RowType /\ row.id = p /\ KeyNames(row.key, p) /\ \A other \in rows : other.id # p
  BY <1>2, PromptOfAction
<1>4. HasMedia(row)
  BY <1>1, <1>2 DEF RInv, PromptsInv
<1>5. \A o \in objects' : ObjectOK(o)
  BY <1>1 DEF RInv, TypeInv
<1>6. rows' \subseteq RowType
  BY <1>1, <1>3 DEF RInv, TypeInv
<1>7. Idle \in PromptJob
  BY DEF PromptJob
<1>8. \A r : HasMedia(r) => HasMedia(r)'
  BY <1>1, MediaStays
<1>9. \A r \in rows' : r.id = p => r = row
  BY <1>1, <1>3
<1>10. \A r \in rows' : r.id = p => KeyNames(r.key, p) /\ HasMedia(r)'
  BY <1>3, <1>4, <1>8, <1>9
<1>11. \A r \in rows' : r.id # p => r \in rows
  BY <1>1, <1>3
<1> HIDE DEF row
<1> QED BY <1>1, <1>5, <1>6, <1>7, <1>8, <1>9, <1>10, <1>11, MediaStays, PromptStep

-----------------------------------------------------------------------------
(* What is written for one prompt takes nothing from another.               *)
LEMMA WriteStep ==
  ASSUME RInv, NEW p \in Prompts, WriteMedia(p)
  PROVE  RInv'
<1>0. PICK row, to : row = work[p].row /\ to = work[p].to
  OBVIOUS
<1> DEFINE job == [work[p] EXCEPT !.st = "saving"]
<1>1. /\ work[p].st = "writing"
      /\ UNCHANGED <<storage, session, rows, early>>
  BY DEF WriteMedia
<1>2. work[p] # Idle
  BY <1>1 DEF Idle
<1>3. row \in RowType /\ row.id = p /\ KeyNames(row.key, p) /\ \A other \in rows : other.id # p
  BY <1>0, <1>2, PromptOfAction
<1>4. to \in Storages /\ row = Row(p, to) /\ job \in PromptJob /\ job.st = "saving" /\ job.row = row
  <2>1. work[p] \in [st : {"writing", "saving"}, row : RowType, to : Storages]
    BY <1>1 DEF RInv, TypeInv, PromptJob, Idle
  <2>2. row = Row(p, to)
    BY <1>0, <1>1, <1>2 DEF RInv, PromptsInv
  <2>3. job \in [st : {"writing", "saving"}, row : RowType, to : Storages] /\ job.st = "saving" /\ job.row = row
    BY <1>0, <2>1
  <2>4. to \in Storages
    BY <1>0, <2>1
  <2> QED BY <2>2, <2>3, <2>4 DEF PromptJob
<1>5. rows' \subseteq RowType /\ \A other \in rows' : other.id # p /\ other \in rows
  BY <1>1, <1>3 DEF RInv, TypeInv
<1>6. CASE /\ row.mode = "cdn" /\ Starts(p, job)
           /\ StoreObject(to, PromptFile(p), TRUE) /\ UNCHANGED disk
  <2> HIDE DEF job
  <2>1. /\ \A o \in objects' : ObjectOK(o)
        /\ \A d \in RecordedCalls : Stored(d) => Stored(d)'
    BY <1>4, <1>6, PromptStores DEF RInv
  <2>2. /\ \A bucket, key : In(bucket, key) => In(bucket, key)'
        /\ In(to.bucket, buildObjectKey(to, PromptFile(p)))'
    BY <1>6, StoreKeeps
  <2>3. row.bucket = to.bucket /\ row.key = buildObjectKey(to, PromptFile(p))
    BY <1>4 DEF Row
  <2>4. HasMedia(row)' /\ \A r : HasMedia(r) => HasMedia(r)'
    BY <1>6, <2>2, <2>3 DEF HasMedia
  <2> QED BY <1>1, <1>3, <1>4, <1>5, <1>6, <2>1, <2>4, PromptStep
<1>7. CASE row.mode # "cdn" /\ Starts(p, job) /\ disk' = disk \cup {PromptFile(p)} /\ UNCHANGED objects
  <2> HIDE DEF job
  <2>1. /\ \A o \in objects' : ObjectOK(o)
        /\ \A d \in RecordedCalls : Stored(d) => Stored(d)'
    BY <1>7 DEF RInv, TypeInv, Stored
  <2>2. HasMedia(row)' /\ \A r : HasMedia(r) => HasMedia(r)'
    BY <1>3, <1>7 DEF HasMedia, In
  <2>3. \A c \in RecordedCalls : FileOf(c) \in disk' <=> FileOf(c) \in disk
    BY <1>7, PathsDiffer
  <2> QED BY <1>1, <1>3, <1>4, <1>5, <1>7, <2>1, <2>2, <2>3, PromptStep
<1>8. CASE Starts(p, Idle) /\ UNCHANGED <<disk, objects>>
  <2> HIDE DEF job
  <2>1. Idle \in PromptJob
    BY DEF PromptJob
  <2>2. \A o \in objects' : ObjectOK(o)
    BY <1>8 DEF RInv, TypeInv
  <2> QED BY <1>1, <1>5, <1>8, <2>1, <2>2, MediaStays, PromptStep
<1> QED BY <1>0, <1>6, <1>7, <1>8 DEF WriteMedia, Ends

(* The bucket may by now be another one than that of the media.             *)
LEMMA ReadAgainStep ==
  ASSUME RInv, NEW p \in Prompts, ReadSettingAgain(p)
  PROVE  RInv'
<1> DEFINE row  == work[p].row
           next == [st |-> "deleting", row |-> [row EXCEPT !.bucket = storage.bucket]]
           job  == IF shouldUseS3(storage) THEN next ELSE Idle
<1>1. /\ work[p].st = "dropped" /\ Starts(p, job)
      /\ UNCHANGED <<storage, session, disk, objects, rows, early>>
  BY DEF ReadSettingAgain
<1>2. work[p] # Idle
  BY <1>1 DEF Idle
<1>3. row \in RowType /\ row.id = p /\ KeyNames(row.key, p) /\ \A other \in rows : other.id # p
  BY <1>2, PromptOfAction
<1>4. storage.bucket \in { s.bucket : s \in Storages }
  BY DEF RInv, TypeInv
<1> HIDE DEF row
<1>5. next.st = "deleting" /\ next.row \in RowType /\ next.row.id = p /\ next.row.key = row.key
  BY <1>3, <1>4 DEF RowType
<1>6. next \in PromptJob /\ Idle \in PromptJob
  <2>1. \A r \in RowType : [st |-> "deleting", row |-> r] \in PromptJob
    BY DEF PromptJob
  <2>2. next = [st |-> "deleting", row |-> next.row]
    OBVIOUS
  <2> QED BY <1>5, <2>1, <2>2 DEF PromptJob
<1> HIDE DEF next
<1>7. job \in PromptJob /\ (job # Idle => job.st = "deleting" /\ job.row.id = p /\ KeyNames(job.row.key, p))
  BY <1>3, <1>5, <1>6
<1>8. \A o \in objects' : ObjectOK(o)
  BY <1>1 DEF RInv, TypeInv
<1>9. rows' \subseteq RowType /\ \A other \in rows' : other.id # p /\ other \in rows
  BY <1>1, <1>3 DEF RInv, TypeInv
<1> HIDE DEF job
<1> QED BY <1>1, <1>7, <1>8, <1>9, MediaStays, PromptStep

LEMMA DropMediaStep ==
  ASSUME RInv, NEW p \in Prompts, DeleteMedia(p)
  PROVE  RInv'
<1> DEFINE row == work[p].row
<1>1. /\ work[p].st \in {"dropped", "deleting"} /\ Starts(p, Idle)
      /\ UNCHANGED <<storage, session, rows, early>>
  BY DEF DeleteMedia, Ends
<1>2. work[p] # Idle
  BY <1>1 DEF Idle
<1>3. row \in RowType /\ row.id = p /\ KeyNames(row.key, p) /\ \A other \in rows : other.id # p
  BY <1>2, PromptOfAction
<1>4. rows' \subseteq RowType /\ \A other \in rows' : other.id # p /\ other \in rows
  BY <1>1, <1>3 DEF RInv, TypeInv
<1>5. Idle \in PromptJob
  BY DEF PromptJob
<1>6. objects' \in {objects, Without(row.bucket, row.key)} /\ disk' \in {disk, disk \ {PromptFile(p)}}
  BY DEF DeleteMedia
<1> HIDE DEF row
<1>7. /\ \A o \in objects' : ObjectOK(o)
      /\ \A d \in RecordedCalls : Stored(d) => Stored(d)'
      /\ \A b, k : ~KeyNames(k, p) /\ In(b, k) => In(b, k)'
  BY <1>3, <1>6, DeleteKeeps DEF RInv
<1>8. \A c \in RecordedCalls : FileOf(c) \in disk' <=> FileOf(c) \in disk
  BY <1>6, PathsDiffer
<1>9. ASSUME NEW r \in RowType, r.id # p, KeyNames(r.key, r.id), HasMedia(r)
      PROVE  HasMedia(r)'
  <2>1. r.id \in Prompts
    BY DEF RowType
  <2>2. PromptFile(r.id) # PromptFile(p) /\ ~KeyNames(r.key, p)
    BY <1>9, <2>1, PathsDiffer DEF KeyNames
  <2> QED BY <1>6, <1>7, <1>9, <2>2 DEF HasMedia
<1> QED BY <1>1, <1>4, <1>5, <1>7, <1>8, <1>9, PromptStep

-----------------------------------------------------------------------------
LEMMA SettingStep ==
  ASSUME RInv, updateRecordingStorageConfig
  PROVE  RInv'
<1>1. storage' \in Storages /\ UNCHANGED <<session, disk, objects, rows, work, early>>
  BY DEF updateRecordingStorageConfig
<1>2. TypeInv'
  BY <1>1 DEF RInv, TypeInv, ObjectOK
<1>3. FilesInv'
  BY <1>1 DEF RInv, FilesInv, Stored
<1>4. PromptsInv'
  BY <1>1 DEF RInv, PromptsInv, HasMedia, In
<1> QED BY <1>2, <1>3, <1>4 DEF RInv

(* Everything the backend was doing is forgotten.                           *)
LEMMA RestartStep ==
  ASSUME RInv, RestartBackend
  PROVE  RInv'
<1>1. work' = [j \in Jobs |-> Idle] /\ UNCHANGED <<storage, session, disk, objects, rows, early>>
  BY DEF RestartBackend
<1>2. work' = [j \in Jobs |-> work'[j]] /\ \A j \in Jobs : work'[j] = Idle
  BY <1>1
<1>3. \A c \in RecordedCalls, leg \in Legs : work'[<<c, leg>>] = Idle
  BY <1>2, JobsDiffer
<1>4. \A p \in Prompts : work'[p] = Idle
  BY <1>2, JobsDiffer
<1>5. TypeInv'
  BY <1>1, <1>2, <1>3, <1>4 DEF RInv, TypeInv, ObjectOK, SyncJob, PromptJob
<1>6. FilesInv'
  BY <1>1, <1>3 DEF RInv, FilesInv, Idle, Stored
<1>7. PromptsInv'
  <2>1. \A row \in rows : row.id \in Prompts
    BY DEF RInv, TypeInv, RowType
  <2> QED BY <1>1, <1>4, <2>1 DEF RInv, PromptsInv, HasMedia, In
<1> QED BY <1>5, <1>6, <1>7 DEF RInv

LEMMA NextRInv == RInv /\ [RecordingsNext]_recVars => RInv'
<1> SUFFICES ASSUME RInv, [RecordingsNext]_recVars PROVE RInv'
  OBVIOUS
<1>1. ASSUME NEW c \in RecordedCalls, Record(c) \/ StopRecording(c) PROVE RInv'
  BY <1>1, SessionStep
<1>2. ASSUME NEW c \in RecordedCalls, NEW leg \in Legs, PostRecord(c, leg) PROVE RInv'
  BY <1>2, QuietStep
<1>3. ASSUME NEW c \in RecordedCalls, NEW leg \in Legs, syncRecording(c, <<c, leg>>) PROVE RInv'
  <2>1. CASE ReadSetting(<<c, leg>>) \/ Look(c, <<c, leg>>)
    BY <2>1, QuietStep
  <2>2. CASE Copy(c, <<c, leg>>)
    BY <2>2, CopyStep
  <2>3. CASE removeUploadedRecording(c, <<c, leg>>) \/ deleteRecordingFile(c, <<c, leg>>)
    BY <2>3, DeleteStep
  <2> QED BY <1>3, <2>1, <2>2, <2>3 DEF syncRecording
<1>4. ASSUME NEW p \in Prompts,
             upload(p) \/ WriteMedia(p) \/ SaveRow(p) \/ remove(p) \/ ReadSettingAgain(p) \/ DeleteMedia(p)
      PROVE  RInv'
  BY <1>4, UploadStep, WriteStep, SaveStep, RemoveStep, ReadAgainStep, DropMediaStep
<1>5. CASE updateRecordingStorageConfig
  BY <1>5, SettingStep
<1>6. CASE RestartBackend
  BY <1>6, RestartStep
<1>7. CASE UNCHANGED recVars
  <2>1. UNCHANGED <<storage, session, disk, objects, rows, work, early>>
    BY <1>7 DEF recVars
  <2> QED BY SMTT(30), <2>1 DEF RInv, TypeInv, FilesInv, PromptsInv, ObjectOK, Stored, HasMedia, In
<1> QED BY <1>1, <1>2, <1>3, <1>4, <1>5, <1>6, <1>7 DEF RecordingsNext, Legs

LEMMA RInvKeeps == RInv => MediaKept
  BY DEF RInv, FilesInv, PromptsInv, MediaKept, Kept, Stored

(* A finished recording is on the disk or whole in a bucket, unless it was  *)
(* copied before it was finished, and a prompt that is listed has its       *)
(* media, whatever fails between the copy and the deletion, the upload and  *)
(* the row, or the row and the media (syncRecording, upload, remove).       *)
THEOREM MediaIsKept == RecordingsSpec => []MediaKept
  BY InitRInv, NextRInv, RInvKeeps, PTL DEF RecordingsSpec

-----------------------------------------------------------------------------
(* What the API lists and opens.  A name is listed under a prefix just when *)
(* its key is in the bucket: the prefix that is put before a path is the    *)
(* one that is taken off a key.                                             *)
LEMMA PrefixRest ==
  ASSUME NEW S, NEW p \in Seq(S), NEW k \in Seq(S), IsPrefix(p, k)
  PROVE  /\ SubSeq(k, Len(p) + 1, Len(k)) \in Seq(S)
         /\ p \o SubSeq(k, Len(p) + 1, Len(k)) = k
<1> DEFINE rest == SubSeq(k, Len(p) + 1, Len(k))
<1>1. Len(p) \in Nat /\ Len(k) \in Nat /\ Len(p) <= Len(k) /\ SubSeq(p, 1, Len(p)) = SubSeq(k, 1, Len(p))
  BY LenProperties DEF IsPrefix
<1>2. \A i \in 1 .. Len(k) : k[i] \in S
  BY ElementOfSeq
<1>3. /\ rest \in Seq(S)
      /\ Len(rest) = Len(k) - Len(p)
      /\ \A i \in 1 .. Len(k) - Len(p) : rest[i] = k[Len(p) + i]
  <2>1. \A i \in Len(p) + 1 .. Len(k) : k[i] \in S
    BY <1>1, <1>2
  <2>2. /\ rest \in Seq(S)
        /\ Len(rest) = IF Len(p) + 1 <= Len(k) THEN Len(k) - (Len(p) + 1) + 1 ELSE 0
        /\ \A i \in 1 .. Len(k) - (Len(p) + 1) + 1 : rest[i] = k[Len(p) + 1 + i - 1]
    BY <1>1, <2>1, SubSeqProperties
  <2> HIDE DEF rest
  <2> QED BY <1>1, <2>2
<1>4. \A i \in 1 .. Len(p) : p[i] = k[i]
  <2>1. p = SubSeq(k, 1, Len(p))
    BY <1>1, SubSeqFull
  <2>2. \A i \in 1 .. Len(p) : SubSeq(k, 1, Len(p))[i] = k[1 + i - 1]
    <3>1. \A i \in 1 .. Len(p) : k[i] \in S
      BY <1>1, <1>2
    <3>2. \A i \in 1 .. Len(p) - 1 + 1 : SubSeq(k, 1, Len(p))[i] = k[1 + i - 1]
      BY <1>1, <3>1, SubSeqProperties
    <3> QED BY <1>1, <3>2
  <2> QED BY <1>1, <2>1, <2>2
<1> HIDE DEF rest
<1>5. /\ p \o rest \in Seq(S)
      /\ Len(p \o rest) = Len(k)
      /\ \A i \in 1 .. Len(k) : (p \o rest)[i] = IF i <= Len(p) THEN p[i] ELSE rest[i - Len(p)]
  BY <1>1, <1>3, ConcatProperties
<1>6. \A i \in 1 .. Len(k) : (p \o rest)[i] = k[i]
  BY <1>1, <1>3, <1>4, <1>5
<1>7. p \o rest = k
  BY <1>5, <1>6, SeqEqual
<1> QED BY <1>3, <1>7 DEF rest

LEMMA RestOfPrefix ==
  ASSUME NEW S, NEW p \in Seq(S), NEW n \in Seq(S)
  PROVE  IsPrefix(p, p \o n) /\ SubSeq(p \o n, Len(p) + 1, Len(p \o n)) = n
<1> DEFINE k    == p \o n
           head == SubSeq(k, 1, Len(p))
<1>1. /\ k \in Seq(S) /\ Len(k) = Len(p) + Len(n) /\ Len(p) \in Nat /\ Len(n) \in Nat
      /\ \A i \in 1 .. Len(p) : k[i] = p[i]
  BY ConcatProperties, LenProperties
<1> HIDE DEF k
<1>2. /\ head \in Seq(S) /\ Len(head) = Len(p)
      /\ \A i \in 1 .. Len(p) : head[i] = p[i]
  <2>1. \A i \in 1 .. Len(p) : k[i] \in S
    BY <1>1, ElementOfSeq
  <2>2. /\ head \in Seq(S)
        /\ Len(head) = IF 1 <= Len(p) THEN Len(p) - 1 + 1 ELSE 0
        /\ \A i \in 1 .. Len(p) - 1 + 1 : head[i] = k[1 + i - 1]
    BY <1>1, <2>1, SubSeqProperties
  <2> HIDE DEF head
  <2> QED BY <1>1, <2>2
<1> HIDE DEF head
<1>3. head = p
  BY <1>2, SeqEqual
<1>4. IsPrefix(p, k)
  <2>1. SubSeq(p, 1, Len(p)) = p
    BY SubSeqFull
  <2> QED BY <1>1, <1>3, <2>1 DEF IsPrefix, head
<1>5. SubSeq(k, Len(p) + 1, Len(k)) \in Seq(S) /\ p \o SubSeq(k, Len(p) + 1, Len(k)) = p \o n
  BY <1>1, <1>4, PrefixRest DEF k
<1>6. SubSeq(k, Len(p) + 1, Len(k)) = n
  BY <1>5, ConcatSimplifications
<1> QED BY <1>4, <1>6 DEF k

(* A name is listed under a prefix just when its key is in the bucket and  *)
(* it ends in .wav.                                                         *)
LEMMA ListedUnderPrefix ==
  ASSUME NEW S, NEW s, s.prefix \in Seq(S), NEW n \in Seq(S), \A o \in objects : o.key \in Seq(S)
  PROVE  n \in listFromS3(s) <=> IsWave(n) /\ In(s.bucket, buildObjectKey(s, n))
<1>1. ASSUME n \in listFromS3(s) PROVE IsWave(n) /\ In(s.bucket, buildObjectKey(s, n))
  <2>1. PICK o \in objects :
          /\ o.bucket = s.bucket /\ IsPrefix(s.prefix, o.key) /\ IsWave(stripPrefix(s, o.key))
          /\ n = stripPrefix(s, o.key)
    BY <1>1 DEF listFromS3
  <2>2. n = SubSeq(o.key, Len(s.prefix) + 1, Len(o.key))
    BY <2>1 DEF stripPrefix
  <2>3. s.prefix \in Seq(S) /\ o.key \in Seq(S) /\ IsPrefix(s.prefix, o.key)
    BY <2>1
  <2>4. s.prefix \o SubSeq(o.key, Len(s.prefix) + 1, Len(o.key)) = o.key
    BY <2>3, PrefixRest
  <2>5. s.prefix \o n = o.key
    BY <2>2, <2>4
  <2> QED BY <2>1, <2>5 DEF In, buildObjectKey
<1>2. ASSUME IsWave(n), In(s.bucket, buildObjectKey(s, n)) PROVE n \in listFromS3(s)
  <2>1. PICK o \in objects : o.bucket = s.bucket /\ o.key = s.prefix \o n
    BY <1>2 DEF In, buildObjectKey
  <2>2. IsPrefix(s.prefix, o.key) /\ SubSeq(o.key, Len(s.prefix) + 1, Len(o.key)) = n
    BY ZenonT(30), <2>1, RestOfPrefix
  <2>3. stripPrefix(s, o.key) = n
    BY <2>2 DEF stripPrefix
  <2> QED BY <1>2, <2>1, <2>2, <2>3 DEF listFromS3
<1> QED BY <1>1, <1>2 DEF In

(* Until its record is posted nothing is done for a call.  Afterwards its   *)
(* recording is on the disk or can be listed, and if the setting names a    *)
(* bucket it is listed, or a copy is under way; unless a copy failed or the *)
(* setting was changed.                                                     *)
Parts     == STRING \cup {"system"} \cup RecordedCalls \cup Prompts
Over(c)   == session[c] \in {"recording", "finished"}
Listed(c) == In(storage.bucket, buildObjectKey(storage, FileOf(c)))

Synced(c) ==
  /\ \A leg \in Legs :
       work[<<c, leg>>].st \in {"looking", "found", "copied", "refused"} =>
         /\ work[<<c, leg>>].to = storage /\ shouldUseS3(storage)
         /\ work[<<c, leg>>].st \in {"copied", "refused"} => Listed(c)
  /\ Over(c) => FileOf(c) \in disk \/ (shouldUseS3(storage) /\ Listed(c))
  /\ shouldUseS3(storage) /\ Over(c) => Listed(c) \/ ~AtRest(c)

CallOK(c) ==
  /\ session[c] = "none" => posts[c] = 0
  /\ posts[c] = 0 => AtRest(c) /\ (Over(c) => FileOf(c) \in disk)
  /\ posts[c] # 0 /\ c \notin lost /\ c \notin moved => Synced(c)

(* A prompt that is newer than the setting is stored as the setting says.   *)
RowsOK ==
  /\ \A row \in rows : row.id \notin moved => row = Row(row.id, storage)
  /\ \A p \in Prompts \ moved : work[p].st \in {"writing", "saving"} => work[p].row = Row(p, storage)

KeysOK == \A o \in objects : o.key \in Seq(Parts)

ReachInv ==
  /\ posts \in [RecordedCalls -> Nat]
  /\ KeysOK
  /\ \A c \in RecordedCalls : CallOK(c)
  /\ RowsOK

LEMMA KeysAreSeqs ==
  ASSUME NEW s \in Storages
  PROVE  /\ s.prefix \in Seq(Parts)
         /\ \A c \in RecordedCalls : FileOf(c) \in Seq(Parts) /\ buildObjectKey(s, FileOf(c)) \in Seq(Parts)
         /\ \A p \in Prompts : PromptFile(p) \in Seq(Parts) /\ buildObjectKey(s, PromptFile(p)) \in Seq(Parts)
<1>1. STRING \subseteq Parts /\ RecordedCalls \subseteq Parts /\ Prompts \subseteq Parts
  BY DEF Parts
<1>2. s.prefix \in Seq(Parts)
  BY <1>1, RecordingsAssumption, SeqMonotonic
<1>3. ASSUME NEW c \in RecordedCalls PROVE FileOf(c) \in Seq(Parts) /\ buildObjectKey(s, FileOf(c)) \in Seq(Parts)
  <2>1. <<c>> \in Seq(Parts)
    BY <1>1
  <2>2. s.prefix \o <<c>> \in Seq(Parts)
    BY <1>2, <2>1, ConcatProperties
  <2> QED BY <2>1, <2>2 DEF FileOf, buildObjectKey
<1>4. ASSUME NEW p \in Prompts PROVE PromptFile(p) \in Seq(Parts) /\ buildObjectKey(s, PromptFile(p)) \in Seq(Parts)
  <2>1. "system" \in Parts /\ p \in Parts
    BY DEF Parts
  <2>2. <<"system", p>> \in Seq(Parts)
    BY <2>1
  <2>3. s.prefix \o <<"system", p>> \in Seq(Parts)
    BY <1>2, <2>2, ConcatProperties
  <2> QED BY <2>2, <2>3 DEF PromptFile, buildObjectKey
<1> QED BY <1>2, <1>3, <1>4

LEMMA StoreKeys ==
  ASSUME KeysOK, NEW s, NEW path, NEW whole, StoreObject(s, path, whole), buildObjectKey(s, path) \in Seq(Parts)
  PROVE  KeysOK'
<1> DEFINE new == [bucket |-> s.bucket, key |-> buildObjectKey(s, path), holds |-> path, whole |-> whole]
<1>1. \A o \in objects' : o \in objects \/ o = new
  BY DEF StoreObject, Without
<1>2. new.key \in Seq(Parts)
  OBVIOUS
<1> HIDE DEF new
<1> QED BY <1>1, <1>2 DEF KeysOK

(* Another call, of which nothing changes, and the steps of one call.       *)
LEMMA CallRests ==
  ASSUME NEW c \in RecordedCalls, CallOK(c), storage' = storage,
         session'[c] = session[c], posts'[c] = posts[c],
         \A leg \in Legs : work'[<<c, leg>>] = work[<<c, leg>>],
         FileOf(c) \in disk' <=> FileOf(c) \in disk, Listed(c) => Listed(c)',
         lost \subseteq lost', moved \subseteq moved'
  PROVE  CallOK(c)'
<1>1. Over(c)' <=> Over(c)
  BY DEF Over
<1>2. AtRest(c)' <=> AtRest(c)
  BY DEF AtRest, Legs
<1>3. shouldUseS3(storage)' <=> shouldUseS3(storage)
  OBVIOUS
<1>4. Synced(c) => Synced(c)'
  BY <1>1, <1>2, <1>3 DEF Synced
<1> QED BY <1>1, <1>2, <1>4 DEF CallOK

LEMMA CallReach ==
  ASSUME RInv, ReachInv, NEW c \in RecordedCalls, NEW leg \in Legs, NEW job, Starts(<<c, leg>>, job),
         UNCHANGED <<storage, session, rows, moved>>, lost \subseteq lost',
         posts' \in [RecordedCalls -> Nat],
         \A d \in RecordedCalls : d # c =>
           /\ posts'[d] = posts[d]
           /\ FileOf(d) \in disk' <=> FileOf(d) \in disk
           /\ Listed(d) => Listed(d)',
         KeysOK', CallOK(c)'
  PROVE  ReachInv'
<1>1. /\ \A d \in RecordedCalls, other \in Legs : d # c \/ other # leg => work'[<<d, other>>] = work[<<d, other>>]
      /\ \A p \in Prompts : work'[p] = work[p]
  BY SyncStarts DEF RInv
<1>2. ASSUME NEW d \in RecordedCalls, d # c PROVE CallOK(d)'
  BY <1>1, <1>2, CallRests DEF ReachInv
<1>3. RowsOK'
  BY <1>1 DEF ReachInv, RowsOK
<1> QED BY <1>2, <1>3 DEF ReachInv

LEMMA PromptReach ==
  ASSUME RInv, ReachInv, NEW p \in Prompts, NEW job, Starts(p, job),
         UNCHANGED <<storage, session, posts, lost, moved>>,
         p \notin moved /\ job.st \in {"writing", "saving"} => job.row = Row(p, storage),
         \A row \in rows' : row \in rows \/ (row.id = p /\ (p \notin moved => row = Row(p, storage))),
         \A c \in RecordedCalls : (FileOf(c) \in disk' <=> FileOf(c) \in disk) /\ (Listed(c) => Listed(c)'),
         KeysOK'
  PROVE  ReachInv'
<1>1. /\ work'[p] = job
      /\ \A q \in Prompts : q # p => work'[q] = work[q]
      /\ \A c \in RecordedCalls, leg \in Legs : work'[<<c, leg>>] = work[<<c, leg>>]
  BY PromptStarts DEF RInv
<1>2. ASSUME NEW c \in RecordedCalls PROVE CallOK(c)'
  BY <1>1, CallRests DEF ReachInv
<1>3. RowsOK'
  <2>1. \A row \in rows' : row.id \notin moved => row = Row(row.id, storage)
    BY DEF ReachInv, RowsOK
  <2>2. \A q \in Prompts \ moved : work'[q].st \in {"writing", "saving"} => work'[q].row = Row(q, storage)
    BY <1>1 DEF ReachInv, RowsOK
  <2> QED BY <2>1, <2>2 DEF RowsOK
<1> QED BY <1>2, <1>3 DEF ReachInv

-----------------------------------------------------------------------------
(* What a copy under way tells of its call.                                 *)
LEMMA Working ==
  ASSUME ReachInv, NEW c \in RecordedCalls, NEW leg \in Legs, work[<<c, leg>>].st # "idle"
  PROVE  /\ posts[c] # 0 /\ ~AtRest(c)
         /\ c \notin lost /\ c \notin moved => Synced(c)
<1>1. work[<<c, leg>>] # Idle
  BY DEF Idle
<1>2. ~AtRest(c)
  BY <1>1 DEF AtRest, Legs
<1> QED BY <1>2 DEF ReachInv, CallOK

(* The step of a leg that neither stores nor deletes, when its copy may     *)
(* give up only once the recording is listed.                               *)
LEMMA LegReach ==
  ASSUME RInv, ReachInv, NEW c \in RecordedCalls, NEW leg \in Legs, NEW job, Starts(<<c, leg>>, job),
         work[<<c, leg>>].st # "idle", UNCHANGED <<storage, session, objects, rows, posts, moved>>,
         lost \subseteq lost', \A d \in RecordedCalls : d # c => (FileOf(d) \in disk' <=> FileOf(d) \in disk),
         c \notin lost' /\ c \notin moved /\ Synced(c) =>
           /\ job.st \in {"looking", "found", "copied", "refused"} =>
                /\ job.to = storage /\ shouldUseS3(storage)
                /\ job.st \in {"copied", "refused"} => Listed(c)
           /\ shouldUseS3(storage) /\ Over(c) => Listed(c) \/ job # Idle
           /\ FileOf(c) \in disk' \/ FileOf(c) \notin disk \/ (shouldUseS3(storage) /\ Listed(c))
  PROVE  ReachInv'
<1>1. /\ work'[<<c, leg>>] = job
      /\ \A d \in RecordedCalls, other \in Legs : d # c \/ other # leg => work'[<<d, other>>] = work[<<d, other>>]
  BY SyncStarts DEF RInv
<1>2. posts[c] # 0 /\ (c \notin lost /\ c \notin moved => Synced(c))
  BY Working
<1>3. \A d \in RecordedCalls : (Listed(d)' <=> Listed(d)) /\ (Over(d)' <=> Over(d))
  BY DEF Listed, In, Over
<1>4. job # Idle => ~AtRest(c)'
  BY <1>1 DEF AtRest, Legs
<1>5. c \notin lost' /\ c \notin moved => Synced(c)'
  <2> SUFFICES ASSUME c \notin lost', c \notin moved PROVE Synced(c)'
    OBVIOUS
  <2>1. Synced(c)
    BY <1>2
  <2>2. shouldUseS3(storage)' <=> shouldUseS3(storage)
    OBVIOUS
  <2>3. \A other \in Legs :
          work'[<<c, other>>].st \in {"looking", "found", "copied", "refused"} =>
            /\ work'[<<c, other>>].to = storage /\ shouldUseS3(storage)
            /\ work'[<<c, other>>].st \in {"copied", "refused"} => Listed(c)
    BY <1>1, <2>1 DEF Synced
  <2>4. Over(c) => FileOf(c) \in disk' \/ (shouldUseS3(storage) /\ Listed(c))
    BY <2>1 DEF Synced
  <2>5. shouldUseS3(storage) /\ Over(c) => Listed(c) \/ ~AtRest(c)'
    BY <1>4, <2>1
  <2> QED BY <1>3, <2>2, <2>3, <2>4, <2>5 DEF Synced
<1>6. session[c] = "none" => posts[c] = 0
  BY DEF ReachInv, CallOK
<1>7. CallOK(c)'
  BY <1>2, <1>5, <1>6 DEF CallOK
<1>8. KeysOK' /\ posts' \in [RecordedCalls -> Nat]
  BY DEF ReachInv, KeysOK
<1> QED BY <1>3, <1>7, <1>8, CallReach

LEMMA NotThereReach ==
  ASSUME RInv, ReachInv, NEW c \in RecordedCalls, NEW leg \in Legs,
         work[<<c, leg>>].st \in {"looking", "found"}, NotThere(<<c, leg>>), FileOf(c) \notin disk,
         UNCHANGED <<storage, session, disk, objects, rows, posts, moved, lost>>
  PROVE  ReachInv'
<1> DEFINE next == [st |-> "looking", to |-> work[<<c, leg>>].to, attempt |-> work[<<c, leg>>].attempt + 1]
           job  == IF work[<<c, leg>>].attempt < MaxAttempts THEN next ELSE Idle
<1>1. Starts(<<c, leg>>, job)
  BY DEF NotThere
<1>2. next.st = "looking" /\ next.to = work[<<c, leg>>].to /\ Idle.st = "idle"
  BY DEF Idle
<1> HIDE DEF next
<1>3. \/ job.st = "looking" /\ job.to = work[<<c, leg>>].to
      \/ job.st = "idle"
  BY <1>2
<1> HIDE DEF job
<1>4. Synced(c) => /\ work[<<c, leg>>].to = storage /\ shouldUseS3(storage)
                   /\ Over(c) => Listed(c)
  BY DEF Synced
<1> QED BY <1>1, <1>3, <1>4, LegReach

(* The steps of a call and of FreeSWITCH.                                   *)
LEMMA RecordReach ==
  ASSUME RInv, ReachInv, NEW c \in RecordedCalls, Record(c) \/ StopRecording(c)
  PROVE  ReachInv'
<1>1. /\ UNCHANGED <<storage, objects, rows, work, posts, lost, moved>>
      /\ \A d \in RecordedCalls : d # c => session'[d] = session[d] /\ (FileOf(d) \in disk' <=> FileOf(d) \in disk)
  BY PathsDiffer DEF Record, StopRecording, RInv, TypeInv
<1>2. \/ session[c] = "none" /\ session'[c] = "recording" /\ FileOf(c) \in disk'
      \/ session[c] = "none" /\ session'[c] = "never" /\ disk' = disk
      \/ session[c] = "recording" /\ session'[c] = "finished" /\ disk' = disk
  BY DEF Record, StopRecording, RInv, TypeInv
<1>3. \A d \in RecordedCalls : (Listed(d)' <=> Listed(d)) /\ (AtRest(d)' <=> AtRest(d))
  BY <1>1 DEF Listed, In, AtRest
<1>4. ASSUME NEW d \in RecordedCalls, d # c PROVE CallOK(d)'
  BY <1>1, <1>3, <1>4, CallRests DEF ReachInv
<1>5. CallOK(c)'
  <2>1. CallOK(c)
    BY DEF ReachInv
  <2>2. CASE session[c] = "none"
    <3>1. session'[c] # "none" /\ posts[c] = 0 /\ AtRest(c) /\ (Over(c)' => FileOf(c) \in disk')
      BY <1>2, <2>1, <2>2 DEF CallOK, Over
    <3> QED BY <1>1, <1>3, <3>1 DEF CallOK
  <2>3. CASE session[c] = "recording" /\ session'[c] = "finished" /\ disk' = disk
    <3>1. Over(c) /\ Over(c)'
      BY <2>3 DEF Over
    <3>2. shouldUseS3(storage)' <=> shouldUseS3(storage)
      BY <1>1
    <3>3. Synced(c) => Synced(c)'
      BY <1>1, <1>3, <2>3, <3>1, <3>2 DEF Synced
    <3> QED BY <1>1, <1>3, <2>1, <2>3, <3>1, <3>3 DEF CallOK
  <2> QED BY <1>2, <2>2, <2>3
<1>6. RowsOK' /\ KeysOK' /\ posts' \in [RecordedCalls -> Nat]
  BY <1>1 DEF ReachInv, RowsOK, KeysOK
<1> QED BY <1>4, <1>5, <1>6 DEF ReachInv

LEMMA PostReach ==
  ASSUME RInv, ReachInv, NEW c \in RecordedCalls, NEW leg \in Legs, PostRecord(c, leg)
  PROVE  ReachInv'
<1> DEFINE job == [st |-> "begun"]
<1>1. /\ session[c] # "none" /\ posts' = [posts EXCEPT ![c] = @ + 1] /\ Starts(<<c, leg>>, job)
      /\ UNCHANGED <<storage, session, disk, objects, rows, lost, moved>>
  BY DEF PostRecord
<1>2. job.st = "begun" /\ job # Idle
  BY DEF Idle
<1> HIDE DEF job
<1>3. /\ work'[<<c, leg>>] = job
      /\ \A d \in RecordedCalls, other \in Legs : d # c \/ other # leg => work'[<<d, other>>] = work[<<d, other>>]
  BY <1>1, SyncStarts DEF RInv
<1>4. posts \in [RecordedCalls -> Nat]
  BY DEF ReachInv
<1>5. posts' \in [RecordedCalls -> Nat] /\ posts'[c] # 0 /\ \A d \in RecordedCalls : d # c => posts'[d] = posts[d]
  BY <1>1, <1>4
<1>6. \A d \in RecordedCalls : (Listed(d)' <=> Listed(d)) /\ (Over(d)' <=> Over(d))
  BY <1>1 DEF Listed, In, Over
<1>7. ~AtRest(c)'
  BY <1>2, <1>3 DEF AtRest, Legs
<1>8. c \notin lost /\ c \notin moved => Synced(c)'
  <2> SUFFICES ASSUME c \notin lost, c \notin moved PROVE Synced(c)'
    OBVIOUS
  <2>1. CallOK(c)
    BY DEF ReachInv
  <2>2. /\ \A other \in Legs : work[<<c, other>>].st \in {"looking", "found", "copied", "refused"} =>
             /\ work[<<c, other>>].to = storage /\ shouldUseS3(storage)
             /\ work[<<c, other>>].st \in {"copied", "refused"} => Listed(c)
        /\ Over(c) => FileOf(c) \in disk \/ (shouldUseS3(storage) /\ Listed(c))
    <3>1. CASE posts[c] = 0
      <4>1. \A other \in Legs : work[<<c, other>>].st = "idle"
        BY <2>1, <3>1 DEF CallOK, AtRest, Legs, Idle
      <4> QED BY <2>1, <3>1, <4>1 DEF CallOK
    <3>2. CASE posts[c] # 0
      BY <2>1, <3>2 DEF CallOK, Synced
    <3> QED BY <3>1, <3>2
  <2>3. \A other \in Legs : work'[<<c, other>>].st \in {"looking", "found", "copied", "refused"} =>
             /\ work'[<<c, other>>].to = storage /\ shouldUseS3(storage)
             /\ work'[<<c, other>>].st \in {"copied", "refused"} => Listed(c)
    BY <1>2, <1>3, <2>2
  <2>4. storage' = storage /\ disk' = disk
    BY <1>1
  <2> QED BY <1>6, <1>7, <2>2, <2>3, <2>4 DEF Synced
<1>9. CallOK(c)'
  BY <1>1, <1>5, <1>8 DEF CallOK
<1>10. KeysOK'
  BY <1>1 DEF ReachInv, KeysOK
<1> QED BY <1>1, <1>5, <1>6, <1>9, <1>10, CallReach

LEMMA LookReach ==
  ASSUME RInv, ReachInv, NEW c \in RecordedCalls, NEW leg \in Legs,
         ReadSetting(<<c, leg>>) \/ Look(c, <<c, leg>>)
  PROVE  ReachInv'
<1>1. CASE ReadSetting(<<c, leg>>)
  <2> DEFINE looking == [st |-> "looking", to |-> storage, attempt |-> 1]
             job     == IF shouldUseS3(storage) THEN looking ELSE Idle
  <2>1. /\ work[<<c, leg>>].st # "idle" /\ Starts(<<c, leg>>, job)
        /\ UNCHANGED <<storage, session, disk, objects, rows, posts, moved, lost>>
    BY <1>1 DEF ReadSetting
  <2>2. looking.st = "looking" /\ looking.to = storage /\ looking # Idle /\ Idle.st = "idle"
    BY DEF Idle
  <2> HIDE DEF looking
  <2>3. /\ job.st \notin {"copied", "refused"}
        /\ job.st \in {"looking", "found"} => job.to = storage /\ shouldUseS3(storage)
        /\ shouldUseS3(storage) => job # Idle
    BY <2>2
  <2> HIDE DEF job
  <2> QED BY <2>1, <2>3, LegReach
<1>2. CASE Look(c, <<c, leg>>)
  <2> DEFINE job == [work[<<c, leg>>] EXCEPT !.st = "found"]
  <2>1. /\ work[<<c, leg>>].st = "looking" /\ UNCHANGED <<storage, session, disk, objects, rows, posts, moved, lost>>
        /\ IF FileOf(c) \in disk THEN Starts(<<c, leg>>, job) ELSE NotThere(<<c, leg>>)
    BY <1>2 DEF Look
  <2>2. CASE FileOf(c) \in disk
    <3>1. job.st = "found" /\ job.to = work[<<c, leg>>].to
      BY <2>1, SyncTypes DEF RInv
    <3>2. job # Idle
      BY <3>1 DEF Idle
    <3>3. Starts(<<c, leg>>, job)
      BY <2>1, <2>2
    <3> HIDE DEF job
    <3>4. Synced(c) => job.to = storage /\ shouldUseS3(storage)
      BY <2>1, <3>1 DEF Synced
    <3> QED BY <2>1, <3>1, <3>2, <3>3, <3>4, LegReach
  <2>3. CASE FileOf(c) \notin disk
    BY <2>1, <2>3, NotThereReach
  <2> QED BY <2>2, <2>3
<1> QED BY <1>1, <1>2

LEMMA CopyReach ==
  ASSUME RInv, ReachInv, NEW c \in RecordedCalls, NEW leg \in Legs, Copy(c, <<c, leg>>)
  PROVE  ReachInv'
<1>0. PICK to : to = work[<<c, leg>>].to
  OBVIOUS
<1> DEFINE job == [work[<<c, leg>>] EXCEPT !.st = "copied"]
<1>1. /\ work[<<c, leg>>].st = "found" /\ to \in Storages /\ job.st = "copied" /\ job.to = to
      /\ UNCHANGED <<storage, session, disk, rows, posts, moved>>
  BY <1>0, SyncTypes DEF Copy, RInv
<1>2. CASE /\ FileOf(c) \in disk
           /\ StoreObject(to, FileOf(c), session[c] = "finished")
           /\ Starts(<<c, leg>>, job)
           /\ UNCHANGED lost
  <2> HIDE DEF job
  <2>1. /\ work'[<<c, leg>>] = job
        /\ \A d \in RecordedCalls, other \in Legs : d # c \/ other # leg => work'[<<d, other>>] = work[<<d, other>>]
    BY <1>2, SyncStarts DEF RInv
  <2>2. posts[c] # 0 /\ (c \notin lost /\ c \notin moved => Synced(c))
    BY <1>1, Working
  <2>3. /\ \A bucket, key : In(bucket, key) => In(bucket, key)'
        /\ In(to.bucket, buildObjectKey(to, FileOf(c)))'
    BY <1>2, StoreKeeps
  <2>4. \A d \in RecordedCalls : (Listed(d) => Listed(d)') /\ (Over(d)' <=> Over(d))
    BY <1>1, <2>3 DEF Listed, Over, buildObjectKey
  <2>5. c \notin lost /\ c \notin moved => Synced(c)'
    <3> SUFFICES ASSUME c \notin lost, c \notin moved PROVE Synced(c)'
      OBVIOUS
    <3>1. Synced(c)
      BY <2>2
    <3>2. to = storage /\ shouldUseS3(storage)
      BY <1>0, <1>1, <3>1 DEF Synced
    <3>3. Listed(c)'
      BY <1>1, <2>3, <3>2 DEF Listed, buildObjectKey
    <3>4. shouldUseS3(storage)'
      BY <1>1, <3>2 DEF shouldUseS3
    <3>5. \A other \in Legs : work'[<<c, other>>].st \in {"looking", "found", "copied", "refused"} =>
            work'[<<c, other>>].to = storage'
      BY <1>1, <2>1, <3>1, <3>2 DEF Synced
    <3> QED BY <3>3, <3>4, <3>5 DEF Synced
  <2>6. CallOK(c)
    BY DEF ReachInv
  <2>7. CallOK(c)'
    BY <1>1, <1>2, <2>2, <2>5, <2>6 DEF CallOK
  <2>8. KeysOK' /\ posts' \in [RecordedCalls -> Nat]
    BY <1>1, <1>2, KeysAreSeqs, StoreKeys DEF ReachInv
  <2> QED BY <1>1, <1>2, <2>4, <2>7, <2>8, CallReach
<1>3. CASE lost' = lost \cup {c} /\ Ends(<<c, leg>>) /\ UNCHANGED objects
  BY <1>1, <1>3, LegReach DEF Ends
<1>4. CASE FileOf(c) \notin disk /\ NotThere(<<c, leg>>) /\ UNCHANGED <<objects, lost>>
  BY <1>1, <1>4, NotThereReach
<1> QED BY <1>0, <1>2, <1>3, <1>4 DEF Copy

LEMMA DeleteReach ==
  ASSUME RInv, ReachInv, NEW c \in RecordedCalls, NEW leg \in Legs,
         removeUploadedRecording(c, <<c, leg>>) \/ deleteRecordingFile(c, <<c, leg>>)
  PROVE  ReachInv'
<1>1. /\ work[<<c, leg>>].st \in {"copied", "refused"}
      /\ disk' \in {disk, disk \ {FileOf(c)}}
      /\ UNCHANGED <<storage, session, objects, rows, posts, lost, moved>>
  BY DEF removeUploadedRecording, deleteRecordingFile
<1>2. \A d \in RecordedCalls : d # c => (FileOf(d) \in disk' <=> FileOf(d) \in disk)
  BY <1>1, PathsDiffer
<1>3. Synced(c) => work[<<c, leg>>].to = storage /\ shouldUseS3(storage) /\ Listed(c)
  BY <1>1 DEF Synced
<1>4. CASE Starts(<<c, leg>>, Idle)
  <2>1. Idle.st = "idle"
    BY DEF Idle
  <2> QED BY <1>1, <1>2, <1>3, <1>4, <2>1, LegReach
<1>5. CASE Starts(<<c, leg>>, [work[<<c, leg>>] EXCEPT !.st = "refused"])
  <2> DEFINE job == [work[<<c, leg>>] EXCEPT !.st = "refused"]
  <2>1. job.st = "refused" /\ job.to = work[<<c, leg>>].to
    BY <1>1, SyncTypes DEF RInv
  <2>2. Starts(<<c, leg>>, job)
    BY <1>5
  <2> HIDE DEF job
  <2> QED BY <1>1, <1>2, <1>3, <2>1, <2>2, LegReach
<1> QED BY <1>4, <1>5 DEF removeUploadedRecording, deleteRecordingFile, Ends

(* The steps of a prompt.                                                   *)
LEMMA ListedStays ==
  ASSUME UNCHANGED <<storage, disk, objects>>, KeysOK
  PROVE  /\ \A c \in RecordedCalls : (FileOf(c) \in disk' <=> FileOf(c) \in disk) /\ (Listed(c) => Listed(c)')
         /\ KeysOK'
  BY DEF Listed, In, KeysOK

LEMMA UploadReach ==
  ASSUME RInv, ReachInv, NEW p \in Prompts, upload(p)
  PROVE  ReachInv'
<1> DEFINE job == [st |-> "writing", row |-> Row(p, storage), to |-> storage]
<1>1. Starts(p, job) /\ UNCHANGED <<storage, session, disk, objects, rows, posts, lost, moved>>
  BY DEF upload
<1>2. job.row = Row(p, storage)
  OBVIOUS
<1> HIDE DEF job
<1> QED BY <1>1, <1>2, ListedStays, PromptReach DEF ReachInv

LEMMA WriteReach ==
  ASSUME RInv, ReachInv, NEW p \in Prompts, WriteMedia(p)
  PROVE  ReachInv'
<1> DEFINE job == [work[p] EXCEPT !.st = "saving"]
<1>0. PICK row, to : row = work[p].row /\ to = work[p].to
  OBVIOUS
<1>1. work[p].st = "writing" /\ UNCHANGED <<storage, session, rows, posts, lost, moved>>
  BY DEF WriteMedia
<1>2. to \in Storages /\ job.row = row
  <2>1. work[p] \in [st : {"writing", "saving"}, row : RowType, to : Storages]
    BY <1>1 DEF RInv, TypeInv, PromptJob, Idle
  <2> QED BY <1>0, <2>1
<1>3. p \notin moved => job.row = Row(p, storage)
  BY <1>0, <1>1, <1>2 DEF ReachInv, RowsOK
<1>4. CASE row.mode = "cdn" /\ Starts(p, job) /\ StoreObject(to, PromptFile(p), TRUE) /\ UNCHANGED disk
  <2> HIDE DEF job
  <2>1. KeysOK'
    BY <1>2, <1>4, KeysAreSeqs, StoreKeys DEF ReachInv
  <2>2. \A bucket, key : In(bucket, key) => In(bucket, key)'
    BY <1>4, StoreKeeps
  <2>3. \A c \in RecordedCalls : (FileOf(c) \in disk' <=> FileOf(c) \in disk) /\ (Listed(c) => Listed(c)')
    BY <1>1, <1>4, <2>2 DEF Listed, buildObjectKey
  <2> QED BY <1>1, <1>3, <1>4, <2>1, <2>3, PromptReach
<1>5. CASE row.mode # "cdn" /\ Starts(p, job) /\ disk' = disk \cup {PromptFile(p)} /\ UNCHANGED objects
  <2> HIDE DEF job
  <2>1. KeysOK' /\ \A c \in RecordedCalls : Listed(c) => Listed(c)'
    BY <1>1, <1>5 DEF ReachInv, KeysOK, Listed, In
  <2>2. \A c \in RecordedCalls : FileOf(c) \in disk' <=> FileOf(c) \in disk
    BY <1>5, PathsDiffer
  <2> QED BY <1>1, <1>3, <1>5, <2>1, <2>2, PromptReach
<1>6. CASE Starts(p, Idle) /\ UNCHANGED <<disk, objects>>
  <2>1. Idle.st = "idle"
    BY DEF Idle
  <2> QED BY <1>1, <1>6, <2>1, ListedStays, PromptReach DEF ReachInv
<1> QED BY <1>0, <1>4, <1>5, <1>6 DEF WriteMedia, Ends

LEMMA RowReach ==
  ASSUME RInv, ReachInv, NEW p \in Prompts, SaveRow(p) \/ remove(p) \/ ReadSettingAgain(p)
  PROVE  ReachInv'
<1>1. CASE SaveRow(p)
  <2>0. PICK row : row = work[p].row
    OBVIOUS
  <2>1. /\ work[p].st = "saving" /\ rows' \in {rows, rows \cup {row}} /\ Starts(p, Idle)
        /\ UNCHANGED <<storage, session, disk, objects, posts, lost, moved>>
    BY <1>1, <2>0 DEF SaveRow, Ends
  <2>2. row.id = p /\ Idle.st = "idle"
    BY <2>0, <2>1, PromptOfAction DEF Idle
  <2>3. p \notin moved => row = Row(p, storage)
    BY <2>0, <2>1 DEF ReachInv, RowsOK
  <2> QED BY <2>1, <2>2, <2>3, ListedStays, PromptReach DEF ReachInv
<1>2. CASE remove(p)
  <2>1. PICK row \in rows :
          /\ rows' = rows \ {row} /\ Starts(p, [st |-> "dropped", row |-> row])
          /\ UNCHANGED <<storage, session, disk, objects, posts, lost, moved>>
    BY <1>2 DEF remove
  <2> DEFINE job == [st |-> "dropped", row |-> row]
  <2>2. job.st = "dropped" /\ Starts(p, job)
    BY <2>1
  <2> HIDE DEF job
  <2> QED BY <2>1, <2>2, ListedStays, PromptReach DEF ReachInv
<1>3. CASE ReadSettingAgain(p)
  <2> DEFINE deleting == [st |-> "deleting", row |-> [work[p].row EXCEPT !.bucket = storage.bucket]]
             job      == IF shouldUseS3(storage) THEN deleting ELSE Idle
  <2>1. /\ Starts(p, job)
        /\ UNCHANGED <<storage, session, disk, objects, rows, posts, lost, moved>>
    BY <1>3 DEF ReadSettingAgain
  <2>2. deleting.st = "deleting" /\ Idle.st = "idle"
    BY DEF Idle
  <2> HIDE DEF deleting
  <2>3. job.st \notin {"writing", "saving"}
    BY <2>2
  <2> HIDE DEF job
  <2> QED BY <2>1, <2>3, ListedStays, PromptReach DEF ReachInv
<1> QED BY <1>1, <1>2, <1>3

LEMMA DropReach ==
  ASSUME RInv, ReachInv, NEW p \in Prompts, DeleteMedia(p)
  PROVE  ReachInv'
<1>0. PICK row : row = work[p].row
  OBVIOUS
<1>1. /\ work[p].st \in {"dropped", "deleting"} /\ Starts(p, Idle)
      /\ UNCHANGED <<storage, session, rows, posts, lost, moved>>
  BY DEF DeleteMedia, Ends
<1>2. KeyNames(row.key, p)
  <2>1. work[p] # Idle
    BY <1>1 DEF Idle
  <2> QED BY <1>0, <2>1, PromptOfAction
<1>3. objects' \in {objects, Without(row.bucket, row.key)} /\ disk' \in {disk, disk \ {PromptFile(p)}}
  BY <1>0 DEF DeleteMedia
<1>4. \A b, k : ~KeyNames(k, p) /\ In(b, k) => In(b, k)'
  BY <1>2, <1>3, DeleteKeeps DEF RInv
<1>5. KeysOK'
  <2>1. objects' \subseteq objects
    BY <1>3 DEF Without
  <2> QED BY <2>1 DEF ReachInv, KeysOK
<1>6. ASSUME NEW c \in RecordedCalls
      PROVE  (FileOf(c) \in disk' <=> FileOf(c) \in disk) /\ (Listed(c) => Listed(c)')
  <2>1. storage \in Storages
    BY DEF RInv, TypeInv
  <2>2. KeyNames(buildObjectKey(storage, FileOf(c)), c) /\ c # p
    BY <2>1, KeyOfFile, PathsDiffer
  <2>3. ~KeyNames(buildObjectKey(storage, FileOf(c)), p)
    BY <2>2 DEF KeyNames
  <2>4. Listed(c) => Listed(c)'
    BY <1>1, <1>4, <2>3 DEF Listed, buildObjectKey
  <2>5. FileOf(c) \in disk' <=> FileOf(c) \in disk
    BY <1>3, PathsDiffer
  <2> QED BY <2>4, <2>5
<1>7. Idle.st = "idle"
  BY DEF Idle
<1> QED BY <1>1, <1>5, <1>6, <1>7, PromptReach

-----------------------------------------------------------------------------
(* With the setting all that is there becomes older than the setting.       *)
LEMMA SettingReach ==
  ASSUME RInv, ReachInv, updateRecordingStorageConfig
  PROVE  ReachInv'
<1>1. /\ UNCHANGED <<session, disk, objects, rows, work, posts, lost>>
      /\ moved' = moved \cup { c \in RecordedCalls : posts[c] > 0 } \cup { r.id : r \in rows }
                    \cup { p \in Prompts : work[p] # Idle }
  BY DEF updateRecordingStorageConfig
<1>2. ASSUME NEW c \in RecordedCalls PROVE CallOK(c)'
  <2>1. posts[c] \in Nat /\ CallOK(c)
    BY DEF ReachInv
  <2>2. posts[c] # 0 => c \in moved'
    BY <1>1, <2>1
  <2>3. (AtRest(c)' <=> AtRest(c)) /\ (Over(c)' <=> Over(c))
    BY <1>1 DEF AtRest, Over
  <2> QED BY <1>1, <2>1, <2>2, <2>3 DEF CallOK
<1>3. RowsOK'
  <2>1. \A row \in rows : row.id \in moved'
    BY <1>1
  <2>2. \A p \in Prompts : work[p] # Idle => p \in moved'
    BY <1>1
  <2>3. \A p \in Prompts : work[p].st \in {"writing", "saving"} => work[p] # Idle
    BY DEF Idle
  <2> QED BY <1>1, <2>1, <2>2, <2>3 DEF RowsOK
<1>4. KeysOK' /\ posts' \in [RecordedCalls -> Nat]
  BY <1>1 DEF ReachInv, KeysOK
<1> QED BY <1>2, <1>3, <1>4 DEF ReachInv

LEMMA RestartReach ==
  ASSUME RInv, ReachInv, RestartBackend
  PROVE  ReachInv'
<1>1. /\ UNCHANGED <<storage, session, disk, objects, rows, posts, moved>>
      /\ work' = [j \in Jobs |-> Idle]
      /\ lost' = lost \cup { c \in RecordedCalls : \E leg \in {"A", "B"} : work[<<c, leg>>] # Idle }
  BY DEF RestartBackend
<1>2. \A j \in Jobs : work'[j] = Idle
  BY <1>1
<1>3. /\ \A c \in RecordedCalls, leg \in Legs : work'[<<c, leg>>] = Idle
      /\ \A p \in Prompts : work'[p] = Idle
  BY <1>2, JobsDiffer
<1>4. ASSUME NEW c \in RecordedCalls PROVE CallOK(c)'
  <2>1. CASE \E leg \in Legs : work[<<c, leg>>] # Idle
    <3>1. c \in lost'
      BY <1>1, <2>1 DEF Legs
    <3>2. posts[c] # 0 /\ (session[c] = "none" => posts[c] = 0)
      BY <2>1 DEF ReachInv, CallOK, AtRest, Legs
    <3> QED BY <1>1, <3>1, <3>2 DEF CallOK
  <2>2. CASE \A leg \in Legs : work[<<c, leg>>] = Idle
    <3>1. \A leg \in Legs : work'[<<c, leg>>] = work[<<c, leg>>]
      BY <1>3, <2>2
    <3>2. Listed(c) => Listed(c)'
      BY <1>1 DEF Listed, In
    <3> QED BY <1>1, <3>1, <3>2, CallRests DEF ReachInv
  <2> QED BY <2>1, <2>2
<1>5. RowsOK'
  <2>1. Idle.st = "idle"
    BY DEF Idle
  <2> QED BY <1>1, <1>3, <2>1 DEF ReachInv, RowsOK
<1>6. KeysOK' /\ posts' \in [RecordedCalls -> Nat]
  BY <1>1 DEF ReachInv, KeysOK
<1> QED BY <1>4, <1>5, <1>6 DEF ReachInv

LEMMA InitReach == RecordingsInit => ReachInv
<1> SUFFICES ASSUME RecordingsInit PROVE ReachInv
  OBVIOUS
<1>1. \A j \in Jobs : work[j] = Idle
  BY DEF RecordingsInit
<1>2. /\ \A c \in RecordedCalls, leg \in Legs : work[<<c, leg>>] = Idle
      /\ \A p \in Prompts : work[p] = Idle
  BY <1>1, JobsDiffer
<1>3. posts \in [RecordedCalls -> Nat] /\ objects = {} /\ rows = {}
  BY DEF RecordingsInit
<1>4. ASSUME NEW c \in RecordedCalls PROVE CallOK(c)
  BY <1>2 DEF RecordingsInit, CallOK, AtRest, Legs, Over
<1>5. RowsOK
  <2>1. Idle.st = "idle"
    BY DEF Idle
  <2> QED BY <1>2, <1>3, <2>1 DEF RowsOK
<1> QED BY <1>3, <1>4, <1>5 DEF ReachInv, KeysOK

LEMMA NextReach == RInv /\ ReachInv /\ [RecordingsNext]_recVars => ReachInv'
<1> SUFFICES ASSUME RInv, ReachInv, [RecordingsNext]_recVars PROVE ReachInv'
  OBVIOUS
<1>1. ASSUME NEW c \in RecordedCalls, Record(c) \/ StopRecording(c) PROVE ReachInv'
  BY <1>1, RecordReach
<1>2. ASSUME NEW c \in RecordedCalls, NEW leg \in Legs, PostRecord(c, leg) PROVE ReachInv'
  BY <1>2, PostReach
<1>3. ASSUME NEW c \in RecordedCalls, NEW leg \in Legs, syncRecording(c, <<c, leg>>) PROVE ReachInv'
  <2>1. CASE ReadSetting(<<c, leg>>) \/ Look(c, <<c, leg>>)
    BY <2>1, LookReach
  <2>2. CASE Copy(c, <<c, leg>>)
    BY <2>2, CopyReach
  <2>3. CASE removeUploadedRecording(c, <<c, leg>>) \/ deleteRecordingFile(c, <<c, leg>>)
    BY <2>3, DeleteReach
  <2> QED BY <1>3, <2>1, <2>2, <2>3 DEF syncRecording
<1>4. ASSUME NEW p \in Prompts,
             upload(p) \/ WriteMedia(p) \/ SaveRow(p) \/ remove(p) \/ ReadSettingAgain(p) \/ DeleteMedia(p)
      PROVE  ReachInv'
  BY <1>4, UploadReach, WriteReach, RowReach, DropReach
<1>5. CASE updateRecordingStorageConfig
  BY <1>5, SettingReach
<1>6. CASE RestartBackend
  BY <1>6, RestartReach
<1>7. CASE UNCHANGED recVars
  <2>1. UNCHANGED <<storage, session, disk, objects, rows, work, posts, lost, moved>>
    BY <1>7 DEF recVars
  <2>2. KeysOK' /\ RowsOK' /\ posts' \in [RecordedCalls -> Nat]
    BY <2>1 DEF ReachInv, KeysOK, RowsOK
  <2>3. ASSUME NEW c \in RecordedCalls PROVE CallOK(c)'
    <3>1. Listed(c) => Listed(c)'
      BY <2>1 DEF Listed, In
    <3> QED BY <2>1, <3>1, CallRests DEF ReachInv
  <2> QED BY <2>2, <2>3 DEF ReachInv
<1> QED BY <1>1, <1>2, <1>3, <1>4, <1>5, <1>6, <1>7 DEF RecordingsNext, Legs

(* What is stored is also reached, when the API asks with the setting it    *)
(* was stored with.                                                         *)
LEMMA ListsWhatItOpens ==
  ASSUME RInv, ReachInv, NEW n \in Seq(Parts)
  PROVE  n \in listRecordings(TRUE) <=> IsWave(n) /\ getRecordingStream(n)
<1>1. storage \in Storages /\ storage.prefix \in Seq(Parts) /\ \A o \in objects : o.key \in Seq(Parts)
  BY KeysAreSeqs DEF RInv, TypeInv, ReachInv, KeysOK
<1>2. n \in listFromS3(storage) <=> IsWave(n) /\ In(storage.bucket, buildObjectKey(storage, n))
  BY <1>1, ListedUnderPrefix
<1> QED BY <1>2 DEF listRecordings, listFromLocal, getRecordingStream

LEMMA ReachInvReaches == RInv /\ ReachInv => MediaReached
<1> SUFFICES ASSUME RInv, ReachInv PROVE MediaReached
  OBVIOUS
<1>1. storage \in Storages
  BY DEF RInv, TypeInv
<1>2. /\ \A c \in RecordedCalls : FileOf(c) \in Seq(Parts)
      /\ \A p \in Prompts : PromptFile(p) \in Seq(Parts)
  BY <1>1, KeysAreSeqs
<1>3. \A n \in { FileOf(c) : c \in RecordedCalls } \cup { PromptFile(p) : p \in Prompts } :
        n \in listRecordings(TRUE) <=> IsWave(n) /\ getRecordingStream(n)
  BY <1>2, ListsWhatItOpens
<1>4. ASSUME NEW c \in RecordedCalls, Settled(c)
      PROVE  getRecordingStream(FileOf(c)) /\ FileOf(c) \in listRecordings(TRUE)
  <2>1. posts[c] \in Nat /\ CallOK(c)
    BY DEF ReachInv
  <2>2. Synced(c)
    BY <1>4, <2>1 DEF CallOK, Settled
  <2>3. getRecordingStream(FileOf(c))
    BY <1>4, <2>2 DEF getRecordingStream, Synced, Over, Listed, Settled
  <2>4. IsWave(FileOf(c))
    BY DEF IsWave, FileOf, PromptFile
  <2> QED BY <1>2, <2>3, <2>4, ListsWhatItOpens
<1>6. ASSUME NEW c \in RecordedCalls, FileOf(c) \in listRecordings(FALSE), ~getRecordingStream(FileOf(c))
      PROVE  shouldUseS3(storage) /\ ~Settled(c)
  BY <1>4, <1>6 DEF listRecordings, listFromLocal, getRecordingStream
<1>5. ASSUME NEW row \in rows, row.id \notin moved PROVE getStream(row)
  <2>1. row = Row(row.id, storage) /\ HasMedia(row)
    BY <1>5 DEF ReachInv, RowsOK, RInv, PromptsInv
  <2>2. /\ row.mode = IF shouldUseS3(storage) THEN "cdn" ELSE "local"
        /\ row.bucket = storage.bucket
    BY <2>1 DEF Row
  <2> QED BY <2>1, <2>2 DEF HasMedia, getStream
<1> QED BY <1>3, <1>4, <1>5, <1>6 DEF MediaReached

(* What a list of the storage shows can be opened, and of .wav files no     *)
(* others; a recording whose record was posted is listed when nothing more  *)
(* is done for it, unless its copy failed or the setting was changed, and   *)
(* such a one can be opened, too, where the directory was listed in place   *)
(* of a bucket; and a prompt that is listed can be opened unless the        *)
(* setting was changed (listRecordings, getRecordingStream, getStream).     *)
THEOREM MediaIsReached == RecordingsSpec => []MediaReached
<1>1. RecordingsInit => RInv /\ ReachInv
  BY InitRInv, InitReach
<1>2. RInv /\ ReachInv /\ [RecordingsNext]_recVars => (RInv /\ ReachInv)'
  BY NextRInv, NextReach
<1> QED BY <1>1, <1>2, ReachInvReaches, PTL DEF RecordingsSpec
=============================================================================
