------------------------------ MODULE ImageStore ------------------------------
(***************************************************************************)
(* The images of a Session (capabilities/src/image.rs): read_image saves    *)
(* them in a bounded store and in the attachments directory, a restarted    *)
(* process reloads the directory, and every model request projects the      *)
(* image tags of the history to file ids or inline bytes.                   *)
(***************************************************************************)
EXTENDS Naturals, Sequences, FiniteSets

CONSTANTS
  MaxStored,   \* MAX_STORED_IMAGES
  MaxSent,     \* MAX_IMAGES_PER_REQUEST
  MaxInline,   \* MAX_INLINE_REQUEST_BYTES
  ImageSizes,  \* sizes of images
  MaxSaved,    \* bound: images saved
  MaxRestarts  \* bound: restarts

ASSUME ImageAssumption ==
  /\ MaxStored \in Nat \ {0} /\ MaxSent \in Nat /\ MaxInline \in Nat
  /\ ImageSizes \subseteq Nat
  /\ MaxSaved \in Nat /\ MaxRestarts \in Nat

VARIABLES
  up,       \* the process runs
  images,   \* every image saved so far: its size; ids are numbered by time
  order,    \* Inner.order, oldest first
  records,  \* Inner.records: id to whether its file id is known
  attachments, \* on disk: id to whether its metadata names a file id
  untagged,    \* the image whose tool result is not yet recorded
  history,  \* tags of the recorded tool results
  restarts

imageVars == <<up, images, order, records, attachments, untagged, history, restarts>>

NoTag == [id |-> 0, file |-> FALSE]

ImageInit ==
  /\ up = TRUE /\ images = <<>> /\ order = <<>> /\ records = <<>> /\ attachments = <<>>
  /\ untagged = NoTag /\ history = <<>> /\ restarts = 0

-----------------------------------------------------------------------------
(* Saving *)

\* insert makes room for one more.
Evicted(s) == IF Len(s) >= MaxStored THEN Tail(s) ELSE s

IdsIn(s) == {s[i] : i \in DOMAIN s}

\* save: the upload may fail, and so may the two writes, which nobody looks at.
\* written: a file is there that load_attachment accepts.
Save(size, uploaded, written, described) ==
  LET id == Len(images) + 1
      kept == Append(Evicted(order), id)
  IN /\ up /\ untagged = NoTag /\ Len(images) < MaxSaved
     /\ images' = Append(images, size)
     /\ order' = kept
     /\ records' = [i \in IdsIn(kept) |-> IF i = id THEN uploaded ELSE records[i]]
     /\ attachments' = IF written
                       THEN [i \in DOMAIN attachments \cup {id} |->
                               IF i = id THEN uploaded /\ described ELSE attachments[i]]
                       ELSE attachments
     /\ untagged' = [id |-> id, file |-> uploaded]
     /\ UNCHANGED <<up, history, restarts>>

\* The result of read_image, with the tag of the image, joins the history.
RecordResult ==
  /\ up /\ untagged # NoTag
  /\ history' = Append(history, untagged)
  /\ untagged' = NoTag
  /\ UNCHANGED <<up, images, order, records, attachments, restarts>>

\* Compaction drops the oldest results.
Compact ==
  /\ up /\ history # <<>>
  /\ history' = Tail(history)
  /\ UNCHANGED <<up, images, order, records, attachments, untagged, restarts>>

-----------------------------------------------------------------------------
(* Restart *)

Increasing(s) == \A i, j \in DOMAIN s : i < j => s[i] < s[j]

\* Fault: the candidates are taken oldest first.
Oldest(S) ==
  {s \in UNION {[1..n -> S] : n \in 0..MaxStored} :
     /\ Increasing(s)
     /\ \A i \in S \ IdsIn(s) : Len(s) = MaxStored /\ s[MaxStored] < i}

\* reload_from_dir: the newest candidates up to the limit, oldest first.
Newest(S) ==
  {s \in UNION {[1..n -> S] : n \in 0..MaxStored} :
     /\ Increasing(s)
     /\ \A i \in S \ IdsIn(s) : Len(s) = MaxStored /\ i < s[1]}

ProcessEnds ==
  /\ up /\ restarts < MaxRestarts
  /\ up' = FALSE
  /\ order' = <<>> /\ records' = <<>> /\ untagged' = NoTag
  /\ restarts' = restarts + 1
  /\ UNCHANGED <<images, attachments, history>>

\* A fork goes on with the attachments that could be copied to its Session.
Fork(copied) ==
  /\ ~up
  /\ attachments' = [i \in copied |-> attachments[i]]
  /\ UNCHANGED <<up, images, order, records, untagged, history, restarts>>

\* A new store is bound to the Session file before anything is saved.
BindSessionFile ==
  /\ ~up
  /\ up' = TRUE
  /\ order' \in Newest(DOMAIN attachments)
  /\ records' = [i \in IdsIn(order') |-> attachments[i]]
  /\ UNCHANGED <<images, attachments, untagged, history, restarts>>

-----------------------------------------------------------------------------
(* project_images *)

Resolve(tag) ==
  IF tag.file THEN "file"
  ELSE IF tag.id \notin DOMAIN records THEN "missing"
  ELSE IF records[tag.id] THEN "file" ELSE "inline"

Projected == [i \in DOMAIN history |-> Resolve(history[i])]

Live(projected) == {i \in DOMAIN projected : projected[i] # "missing"}

\* Older images are left out beyond MAX_IMAGES_PER_REQUEST.
Limited(projected) ==
  [i \in DOMAIN projected |->
     IF Cardinality({j \in Live(projected) : j >= i}) > MaxSent THEN "missing" ELSE projected[i]]

HasInline(projected) == \E i \in DOMAIN projected : projected[i] = "inline"

\* One inline image makes all of them inline.
Unified(projected) ==
  [i \in DOMAIN projected |->
     IF HasInline(projected) /\ projected[i] = "file"
     THEN IF history[i].id \in DOMAIN records THEN "inline" ELSE "missing"
     ELSE projected[i]]

\* Bytes of the inline images among the first tags.
InlineBytes(projected) ==
  LET bytes[n \in 0..Len(history)] ==
        IF n = 0 THEN 0
        ELSE bytes[n - 1] + (IF projected[n] = "inline" THEN images[history[n].id] ELSE 0)
  IN bytes

\* Inline images beyond the limit are left out; what is left out counts too.
Bounded(projected) ==
  [i \in DOMAIN projected |->
     IF projected[i] = "inline" /\ InlineBytes(projected)[i] > MaxInline
     THEN "missing" ELSE projected[i]]

ProjectImages == Bounded(Unified(Limited(Projected)))

-----------------------------------------------------------------------------

ImageStep ==
  \/ \E size \in ImageSizes, uploaded, written, described \in BOOLEAN :
       Save(size, uploaded, written, described)
  \/ RecordResult \/ Compact \/ ProcessEnds \/ BindSessionFile
  \/ \E copied \in SUBSET DOMAIN attachments : Fork(copied)

ImageSpec == ImageInit /\ [][ImageStep]_imageVars

-----------------------------------------------------------------------------
(* Properties *)

\* Across evictions, failed writes and restarts the store holds the newest
\* images: one that was written and is not in the store is older than all that
\* are, and gave way to a full store (insert, reload_from_dir).
StoreHoldsNewest ==
  /\ Len(order) <= MaxStored
  /\ DOMAIN records = IdsIn(order)
  /\ up => \A i \in DOMAIN attachments \ DOMAIN records : Len(order) = MaxStored /\ i < order[1]

\* Whatever was evicted, lost or uploaded, a request sends at most the allowed
\* number of images, never file ids beside inline bytes, inline bytes only of
\* images that are in the store and within their limit, and no image in place
\* of a newer one that could be sent by its file id (project_images).
RequestImages ==
  up => LET sent == ProjectImages
            inline == {i \in DOMAIN sent : sent[i] = "inline"}
        IN /\ Cardinality(Live(sent)) <= MaxSent
           /\ inline # {} => \A i \in DOMAIN sent : sent[i] # "file"
           /\ \A i \in inline : history[i].id \in DOMAIN records
           /\ InlineBytes(sent)[Len(history)] <= MaxInline
           /\ \A i \in DOMAIN sent, j \in Live(sent) :
                j < i /\ sent[i] = "missing" /\ Projected[i] = "file" => inline # {}

\* Which images are kept and which are sent, over everything that can fail on
\* the way between read_image and the request (ImageStore, project_images).
ImagesHold == StoreHoldsNewest /\ RequestImages
=============================================================================
