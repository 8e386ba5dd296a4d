------------------------- MODULE ArchivedFileProofs -------------------------
(***************************************************************************)
(* What holds of ArchivedFile for any number of workers, whatever files the *)
(* renderers make and the tax adapter refuses, and any lease: and that its  *)
(* mail is told as a notice is, step by step.                               *)
(***************************************************************************)
EXTENDS ArchivedFile, TLAPS

Kept == archive # NoFile

\* What a worker is about to record or store was not refused, and what it is about
\* to confirm, or mails, is what the archive keeps.
InHand ==
    \A w \in Workers :
        /\ PlaceOf(w) \in {"recording", "storing"} => workers[w].file \in Files \ RefusedFiles
        /\ PlaceOf(w) \in {"following", "confirming"} \union MailPlaces => Kept /\ workers[w].file = archive

\* Nobody claims or mails a file before it is archived, and nobody has a claim's
\* moment before it claims.
MailedOnceArchived ==
    \A w \in Workers :
        /\ PlaceOf(w) \in {"fetching"} \union MailPlaces => document.archived
        /\ PlaceOf(w) \notin MailPlaces => workers[w].takenAt = 0

ArchivedAsRecorded == document.archived => Kept /\ document.checksum = archive

FileInv ==
    /\ FileTypeOK /\ InHand /\ MailedOnceArchived /\ ArchivedAsRecorded
    /\ archive \notin RefusedFiles
    /\ received \subseteq {archive} \ {NoFile}

AllPlaces == ArchivePlaces \union HandOutPlaces \union MailPlaces

Call == [place : AllPlaces, found : Files \union {NoFile}, file : Files \union {NoFile}, takenAt : Nat]

-----------------------------------------------------------------------------
\* A worker that leaves is one that found nothing yet.
LEMMA LeavesIsTyped ==
    ASSUME FileTypeOK, NEW w \in Workers, Leaves(w)
    PROVE  /\ workers' \in [Workers -> Call]
           /\ workers'[w] = AtRest /\ \A v \in Workers \ {w} : workers'[v] = workers[v]
  BY DEF FileTypeOK, Leaves, AtRest, Call, AllPlaces, ArchivePlaces

\* A worker that moves on keeps what it has in hand.
LEMMA MovesIsTyped ==
    ASSUME FileTypeOK, NEW w \in Workers, NEW place \in AllPlaces, Moves(w, place)
    PROVE  /\ workers' \in [Workers -> Call]
           /\ workers'[w].place = place /\ workers'[w].file = workers[w].file
           /\ workers'[w].found = workers[w].found /\ workers'[w].takenAt = workers[w].takenAt
           /\ \A v \in Workers \ {w} : workers'[v] = workers[v]
  BY DEF FileTypeOK, Moves, Call, AllPlaces

\* A step of one worker that leaves the record and the archive as they are, where
\* nobody receives but what is archived.
LEMMA QuietFileStep ==
    ASSUME FileInv, NEW w \in Workers,
           hour' = hour, document' = document, archive' = archive, decayed' = decayed,
           mailed' \in SUBSET Workers,
           received' = received \/ (Kept /\ received' = received \union {archive}),
           workers' \in [Workers -> Call],
           \A v \in Workers \ {w} : workers'[v] = workers[v],
           workers'[w].place \in {"recording", "storing"} => workers'[w].file \in Files \ RefusedFiles,
           workers'[w].place \in {"following", "confirming"} \union MailPlaces
               => Kept /\ workers'[w].file = archive,
           workers'[w].place \in {"fetching"} \union MailPlaces => document.archived,
           workers'[w].place \notin MailPlaces => workers'[w].takenAt = 0
    PROVE  FileInv'
<1>1. FileTypeOK'
  <2>1. received' \subseteq Files \union {Decayed}
    BY DEF FileInv, FileTypeOK, Kept
  <2> QED
    BY <2>1 DEF FileInv, FileTypeOK, Call, AllPlaces
<1>2. InHand'
  BY DEF FileInv, InHand, PlaceOf, Kept
<1>3. MailedOnceArchived'
  BY DEF FileInv, MailedOnceArchived, PlaceOf
<1>4. ArchivedAsRecorded' /\ (archive \notin RefusedFiles)' /\ (received \subseteq {archive} \ {NoFile})'
  BY DEF FileInv, ArchivedAsRecorded, Kept
<1> QED
  BY <1>1, <1>2, <1>3, <1>4 DEF FileInv

\* Leaving disturbs nothing.
LEMMA LeavesQuietly ==
    ASSUME FileInv, NEW w \in Workers, Leaves(w),
           UNCHANGED <<hour, document, archive, decayed, mailed, received>>
    PROVE  FileInv'
<1>1. FileTypeOK /\ mailed \in SUBSET Workers
  BY DEF FileInv, FileTypeOK
<1>2. /\ workers' \in [Workers -> Call]
      /\ workers'[w] = AtRest /\ \A v \in Workers \ {w} : workers'[v] = workers[v]
  BY <1>1, LeavesIsTyped
<1>3. AtRest.place = "idle" /\ AtRest.takenAt = 0
  BY DEF AtRest
<1>4. "idle" \notin MailPlaces
  BY DEF MailPlaces
<1> QED
  BY <1>1, <1>2, <1>3, <1>4, QuietFileStep

\* Moving on disturbs nothing, where what is in hand fits the place.
LEMMA MovesQuietly ==
    ASSUME FileInv, NEW w \in Workers, NEW place \in AllPlaces, Moves(w, place),
           hour' = hour, document' = document, archive' = archive, decayed' = decayed,
           mailed' \in SUBSET Workers, received' = received,
           place \in {"recording", "storing"} => workers[w].file \in Files \ RefusedFiles,
           place \in {"following", "confirming"} \union MailPlaces => Kept /\ workers[w].file = archive,
           place \in {"fetching"} \union MailPlaces => document.archived,
           place \notin MailPlaces => workers[w].takenAt = 0
    PROVE  FileInv'
<1>1. FileTypeOK
  BY DEF FileInv
<1>2. /\ workers' \in [Workers -> Call]
      /\ workers'[w].place = place /\ workers'[w].file = workers[w].file
      /\ workers'[w].takenAt = workers[w].takenAt
      /\ \A v \in Workers \ {w} : workers'[v] = workers[v]
  BY <1>1, MovesIsTyped
<1> QED
  BY <1>2, QuietFileStep

\* A step that changes the record and nothing else, where the worker then moves on
\* or leaves: what is archived stays so.
LEMMA RecordStep ==
    ASSUME FileInv, NEW w \in Workers,
           hour' = hour, archive' = archive, decayed' = decayed, mailed' = mailed, received' = received,
           FileTypeOK',
           \A v \in Workers \ {w} : workers'[v] = workers[v],
           document.archived => document'.archived,
           document'.archived => Kept /\ document'.checksum = archive,
           workers'[w].place \in {"recording", "storing"} => workers'[w].file \in Files \ RefusedFiles,
           workers'[w].place \in {"following", "confirming"} \union MailPlaces
               => Kept /\ workers'[w].file = archive,
           workers'[w].place \in {"fetching"} \union MailPlaces => document'.archived,
           workers'[w].place \notin MailPlaces => workers'[w].takenAt = 0
    PROVE  FileInv'
<1>1. InHand'
  BY DEF FileInv, InHand, PlaceOf, Kept
<1>2. MailedOnceArchived'
  BY DEF FileInv, MailedOnceArchived, PlaceOf
<1>3. ArchivedAsRecorded' /\ (archive \notin RefusedFiles)' /\ (received \subseteq {archive} \ {NoFile})'
  BY DEF FileInv, ArchivedAsRecorded, Kept
<1> QED
  BY <1>1, <1>2, <1>3 DEF FileInv

-----------------------------------------------------------------------------
\* A file is archived through every order of runs.
LEMMA ArchivingStep ==
    ASSUME FileInv, NEW w \in Workers,
           \/ FindToArchive(w) \/ ReadArchive(w) \/ Render(w) \/ RecordRendering(w)
           \/ Store(w) \/ ConfirmArchived(w) \/ Abandon(w)
    PROVE  FileInv'
<1>0. /\ FileTypeOK /\ workers \in [Workers -> Call] /\ mailed \in SUBSET Workers
      /\ archive \in Files \union {NoFile} /\ archive \notin RefusedFiles
      /\ PlaceOf(w) = workers[w].place
      /\ PlaceOf(w) \in {"recording", "storing"} => workers[w].file \in Files \ RefusedFiles
      /\ PlaceOf(w) \in {"following", "confirming"} => Kept /\ workers[w].file = archive
      /\ PlaceOf(w) \notin MailPlaces => workers[w].takenAt = 0
  BY DEF FileInv, FileTypeOK, Call, AllPlaces, InHand, MailedOnceArchived, PlaceOf
<1>p. /\ ArchivePlaces \subseteq AllPlaces
      /\ {"idle", "reading", "rendering", "recording", "following", "storing", "confirming"} = ArchivePlaces
      /\ \A place \in ArchivePlaces : place \notin MailPlaces /\ place # "fetching"
  BY DEF ArchivePlaces, AllPlaces, MailPlaces
<1>1. CASE FindToArchive(w)
  <2>1. /\ workers[w].place = "idle" /\ workers' = [workers EXCEPT ![w].place = "reading", ![w].found = document.checksum]
        /\ UNCHANGED <<hour, document, archive, decayed, mailed, received>>
    BY <1>1 DEF FindToArchive, PlaceOf
  <2>2. document.checksum \in Files \union {NoFile}
    BY <1>0 DEF FileTypeOK
  <2>3. /\ workers' \in [Workers -> Call]
        /\ workers'[w].place = "reading" /\ workers'[w].takenAt = workers[w].takenAt
        /\ \A v \in Workers \ {w} : workers'[v] = workers[v]
    BY <1>0, <1>p, <2>1, <2>2 DEF Call
  <2> QED
    BY <1>0, <1>p, <2>1, <2>3, QuietFileStep
<1>2. CASE ReadArchive(w)
  <2>1. CASE Leaves(w)
    BY <1>2, <2>1, LeavesQuietly DEF ReadArchive
  <2>2. CASE Moves(w, "rendering")
    BY <1>0, <1>p, <1>2, <2>2, MovesQuietly DEF ReadArchive
  <2>3. ASSUME NEW place \in {"confirming", "following"}, Keeps(w, place), archive # NoFile PROVE FileInv'
    <3>1. /\ workers' \in [Workers -> Call]
          /\ workers'[w].place = place /\ workers'[w].file = archive
          /\ workers'[w].takenAt = workers[w].takenAt
          /\ \A v \in Workers \ {w} : workers'[v] = workers[v]
      BY <1>0, <1>p, <2>3 DEF Keeps, Call
    <3>2. /\ PlaceOf(w) = "reading"
          /\ UNCHANGED <<hour, document, archive, decayed, mailed, received>>
      BY <1>2 DEF ReadArchive
    <3> QED
      BY <1>0, <1>p, <2>3, <3>1, <3>2, QuietFileStep DEF Kept
  <2> QED
    BY <1>2, <2>1, <2>2, <2>3 DEF ReadArchive
<1>3. CASE Render(w)
  <2>1. CASE Leaves(w)
    BY <1>3, <2>1, LeavesQuietly DEF Render
  <2>2. CASE ~Leaves(w)
    <3>1. PICK file \in Files \ RefusedFiles :
              workers' = [workers EXCEPT ![w].file = file,
                              ![w].place = IF workers[w].found = file THEN "storing" ELSE "recording"]
      BY <1>3, <2>2 DEF Render
    <3>2. PICK place \in {"storing", "recording"} :
              workers' = [workers EXCEPT ![w].file = file, ![w].place = place]
      BY <3>1
    <3>3. /\ workers' \in [Workers -> Call]
          /\ workers'[w].place = place /\ workers'[w].file = file
          /\ workers'[w].takenAt = workers[w].takenAt
          /\ \A v \in Workers \ {w} : workers'[v] = workers[v]
      BY <1>0, <1>p, <3>2 DEF Call
    <3>4. /\ PlaceOf(w) = "rendering"
          /\ UNCHANGED <<hour, document, archive, decayed, mailed, received>>
      BY <1>3 DEF Render
    <3> QED
      BY <1>0, <1>p, <3>2, <3>3, <3>4, QuietFileStep
  <2> QED
    BY <2>1, <2>2
<1>4. CASE RecordRendering(w)
  <2>1. /\ PlaceOf(w) \in {"recording", "following"}
        /\ UNCHANGED <<hour, archive, decayed, mailed, received>>
    BY <1>4 DEF RecordRendering
  <2>2. CASE document' = document /\ Leaves(w)
    BY <2>1, <2>2, LeavesQuietly
  <2>3. CASE ~(document' = document /\ Leaves(w))
    <3>1. /\ document.checksum \in {NoFile, workers[w].file} \/ ~document.archived
          /\ document' = [document EXCEPT !.checksum = workers[w].file]
          /\ Moves(w, IF workers[w].place = "recording" THEN "storing" ELSE "confirming")
      BY <1>4, <2>3 DEF RecordRendering
    <3>2. PICK place \in {"storing", "confirming"} :
              /\ Moves(w, place)
              /\ place = "storing" => PlaceOf(w) = "recording"
              /\ place = "confirming" => PlaceOf(w) = "following"
      BY <1>0, <2>1, <3>1
    <3>3. /\ workers' \in [Workers -> Call]
          /\ workers'[w].place = place /\ workers'[w].file = workers[w].file
          /\ workers'[w].takenAt = workers[w].takenAt
          /\ \A v \in Workers \ {w} : workers'[v] = workers[v]
      BY <1>0, <1>p, <3>2, MovesIsTyped
    <3>4. /\ document'.checksum = workers[w].file /\ document'.archived = document.archived
          /\ FileTypeOK'
      BY <1>0, <2>1, <3>1, <3>3 DEF FileTypeOK, Call, AllPlaces
    <3>5. document.archived => Kept /\ workers[w].file = archive
      <4>1. document.archived => Kept /\ document.checksum = archive
        BY DEF FileInv, ArchivedAsRecorded
      <4> QED
        BY <3>1, <4>1 DEF Kept
    <3> QED
      BY <1>0, <1>p, <2>1, <3>2, <3>3, <3>4, <3>5, RecordStep
  <2> QED
    BY <2>2, <2>3
<1>5. CASE Store(w)
  <2>1. /\ PlaceOf(w) = "storing"
        /\ UNCHANGED <<hour, document, decayed, mailed, received>>
    BY <1>5 DEF Store
  <2>2. CASE archive' = archive /\ Leaves(w)
    BY <2>1, <2>2, LeavesQuietly
  <2>3. CASE ~(archive' = archive /\ Leaves(w))
    <3>1. archive \in {NoFile, workers[w].file} /\ archive' = workers[w].file /\ Moves(w, "confirming")
      BY <1>5, <2>3 DEF Store
    <3>2. /\ workers' \in [Workers -> Call]
          /\ workers'[w].place = "confirming" /\ workers'[w].file = workers[w].file
          /\ workers'[w].takenAt = workers[w].takenAt
          /\ \A v \in Workers \ {w} : workers'[v] = workers[v]
      BY <1>0, <1>p, <3>1, MovesIsTyped
    <3>3. archive' \in Files \ RefusedFiles /\ archive' # NoFile
      BY <1>0, <2>1, <3>1, FilesAssumption
    <3>4. Kept => archive' = archive
      BY <3>1 DEF Kept
    <3>5. FileTypeOK'
      BY <1>0, <2>1, <3>2, <3>3 DEF FileTypeOK, Call, AllPlaces
    <3>6. InHand'
      <4> SUFFICES ASSUME NEW v \in Workers
                   PROVE  /\ PlaceOf(v)' \in {"recording", "storing"} => workers'[v].file \in Files \ RefusedFiles
                          /\ PlaceOf(v)' \in {"following", "confirming"} \union MailPlaces
                                 => Kept' /\ workers'[v].file = archive'
        BY DEF InHand
      <4>1. CASE v = w
        BY <1>p, <3>1, <3>2, <3>3, <4>1 DEF PlaceOf, Kept
      <4>2. CASE v # w
        <5>1. workers'[v] = workers[v]
          BY <3>2, <4>2
        <5> QED
          BY <3>3, <3>4, <5>1 DEF FileInv, InHand, PlaceOf, Kept
      <4> QED
        BY <4>1, <4>2
    <3>7. MailedOnceArchived'
      BY <1>0, <1>p, <2>1, <3>2 DEF FileInv, MailedOnceArchived, PlaceOf
    <3>8. ArchivedAsRecorded'
      BY <2>1, <3>3, <3>4 DEF FileInv, ArchivedAsRecorded, Kept
    <3>9. received' \subseteq {archive'} \ {NoFile}
      BY <2>1, <3>3, <3>4 DEF FileInv, Kept
    <3> QED
      BY <3>3, <3>5, <3>6, <3>7, <3>8, <3>9 DEF FileInv
  <2> QED
    BY <2>2, <2>3
<1>6. CASE ConfirmArchived(w)
  <2>1. /\ PlaceOf(w) = "confirming" /\ Leaves(w)
        /\ UNCHANGED <<hour, archive, decayed, mailed, received>>
    BY <1>6 DEF ConfirmArchived
  <2>2. CASE document' = document
    BY <2>1, <2>2, LeavesQuietly
  <2>3. CASE document' # document
    <3>1. document.checksum = workers[w].file /\ document' = [document EXCEPT !.archived = TRUE]
      BY <1>6, <2>3 DEF ConfirmArchived
    <3>2. /\ workers' \in [Workers -> Call]
          /\ workers'[w] = AtRest /\ \A v \in Workers \ {w} : workers'[v] = workers[v]
      BY <1>0, <2>1, LeavesIsTyped
    <3>3. /\ document'.checksum = document.checksum /\ document'.archived
          /\ FileTypeOK'
      BY <1>0, <2>1, <3>1, <3>2 DEF FileTypeOK, Call, AllPlaces
    <3>4. AtRest.place = "idle" /\ AtRest.takenAt = 0
      BY DEF AtRest
    <3> QED
      BY <1>0, <1>p, <2>1, <3>1, <3>2, <3>3, <3>4, RecordStep
  <2> QED
    BY <2>2, <2>3
<1>7. CASE Abandon(w)
  BY <1>7, LeavesQuietly DEF Abandon
<1> QED
  BY <1>1, <1>2, <1>3, <1>4, <1>5, <1>6, <1>7

-----------------------------------------------------------------------------
\* Only what matches is handed out or taken on to be mailed.
LEMMA HandingOutStep ==
    ASSUME FileInv, NEW w \in Workers,
           FindToHandOut(w) \/ HandOut(w) \/ FindToDeliver(w) \/ TakeOn(w)
    PROVE  FileInv'
<1>0. /\ FileTypeOK /\ workers \in [Workers -> Call] /\ mailed \in SUBSET Workers
      /\ archive \in Files \union {NoFile} /\ hour \in Nat
      /\ document.checksum \in Files \union {NoFile}
      /\ PlaceOf(w) = workers[w].place
      /\ PlaceOf(w) \in {"fetching"} \union MailPlaces => document.archived
      /\ PlaceOf(w) \notin MailPlaces => workers[w].takenAt = 0
  BY DEF FileInv, FileTypeOK, Call, AllPlaces, MailedOnceArchived, PlaceOf
<1>p. /\ {"downloading", "fetching", "claiming"} \subseteq AllPlaces /\ "claiming" \in MailPlaces
      /\ {"idle", "downloading", "fetching"} \intersect MailPlaces = {}
  BY DEF HandOutPlaces, AllPlaces, MailPlaces
<1>1. CASE FindToHandOut(w) \/ FindToDeliver(w)
  <2>1. PICK place \in {"downloading", "fetching"} :
            /\ workers' = [workers EXCEPT ![w].place = place, ![w].found = document.checksum]
            /\ document.archived /\ PlaceOf(w) = "idle"
            /\ UNCHANGED <<hour, document, archive, decayed, mailed, received>>
    BY <1>1 DEF FindToHandOut, FindToDeliver
  <2>2. /\ workers' \in [Workers -> Call]
        /\ workers'[w].place = place /\ workers'[w].takenAt = workers[w].takenAt
        /\ \A v \in Workers \ {w} : workers'[v] = workers[v]
    BY <1>0, <1>p, <2>1 DEF Call
  <2> QED
    BY <1>0, <1>p, <2>1, <2>2, QuietFileStep
<1>2. CASE HandOut(w)
  <2>1. /\ Leaves(w) /\ UNCHANGED <<hour, document, archive, decayed, mailed>>
        /\ received' = received \/ (Kept /\ received' = received \union {archive})
    BY <1>2 DEF HandOut, Matches, Content, Kept
  <2>2. /\ workers' \in [Workers -> Call]
        /\ workers'[w] = AtRest /\ \A v \in Workers \ {w} : workers'[v] = workers[v]
    BY <1>0, <2>1, LeavesIsTyped
  <2>3. AtRest.place = "idle" /\ AtRest.takenAt = 0
    BY DEF AtRest
  <2> QED
    BY <1>0, <1>p, <2>1, <2>2, <2>3, QuietFileStep
<1>3. CASE TakeOn(w)
  <2>1. /\ PlaceOf(w) = "fetching"
        /\ UNCHANGED <<hour, document, archive, decayed, mailed, received>>
    BY <1>3 DEF TakeOn
  <2>2. CASE Leaves(w)
    BY <2>1, <2>2, LeavesQuietly
  <2>3. CASE ~Leaves(w)
    <3>1. /\ archive # NoFile
          /\ workers' = [workers EXCEPT ![w].place = "claiming", ![w].file = archive, ![w].takenAt = hour]
      BY <1>3, <2>3 DEF TakeOn, Matches
    <3>2. /\ workers' \in [Workers -> Call]
          /\ workers'[w].place = "claiming" /\ workers'[w].file = archive
          /\ \A v \in Workers \ {w} : workers'[v] = workers[v]
      BY <1>0, <1>p, <3>1 DEF Call
    <3> QED
      BY <1>0, <1>p, <2>1, <3>1, <3>2, QuietFileStep DEF Kept
  <2> QED
    BY <2>2, <2>3
<1> QED
  BY <1>1, <1>2, <1>3

\* Whatever becomes of a mail.
LEMMA MailStep ==
    ASSUME FileInv, NEW w \in Workers,
           \/ ClaimDelivery(w) \/ ClaimIsLost(w) \/ ReachesSubscriber(w) \/ MailAnswers(w)
           \/ AnswerIsLate(w) \/ RecordDelivered(w) \/ ReleaseDelivery(w) \/ MailStops(w)
    PROVE  FileInv'
<1>0. /\ FileTypeOK /\ workers \in [Workers -> Call] /\ mailed \in SUBSET Workers
      /\ workers[w].takenAt \in Nat
      /\ PlaceOf(w) = workers[w].place
      /\ PlaceOf(w) \in MailPlaces => Kept /\ workers[w].file = archive /\ document.archived
      /\ document.archived => document.checksum = archive
  BY DEF FileInv, FileTypeOK, Call, AllPlaces, InHand, MailedOnceArchived, ArchivedAsRecorded, PlaceOf
<1>p. /\ MailPlaces \subseteq AllPlaces
      /\ \A place \in MailPlaces :
             place \notin {"recording", "storing", "following", "confirming", "fetching"}
      /\ MailPlaces = {"claiming", "sending", "late", "answered", "failed", "recorded", "given up", "stopped"}
  BY DEF AllPlaces, MailPlaces
<1>1. /\ PlaceOf(w) \in MailPlaces
      /\ UNCHANGED <<hour, archive, decayed>>
      /\ mailed' \in SUBSET Workers
      /\ received' = received \/ (Kept /\ received' = received \union {archive})
      /\ workers' = workers \/ \E place \in MailPlaces : Moves(w, place)
  <2>1. CASE ReachesSubscriber(w)
    BY <1>0, <1>p, <2>1 DEF ReachesSubscriber
  <2>2. CASE ClaimDelivery(w) \/ ClaimIsLost(w)
    BY <1>0, <1>p, <2>2 DEF ClaimDelivery, ClaimIsLost
  <2>3. CASE MailAnswers(w)
    BY <1>0, <1>p, <2>3 DEF MailAnswers
  <2>4. CASE AnswerIsLate(w) \/ MailStops(w)
    BY <1>0, <1>p, <2>4 DEF AnswerIsLate, MailStops
  <2>5. CASE RecordDelivered(w)
    BY <1>0, <1>p, <2>5 DEF RecordDelivered
  <2>6. CASE ReleaseDelivery(w)
    BY <1>0, <1>p, <2>6 DEF ReleaseDelivery
  <2> QED
    BY <2>1, <2>2, <2>3, <2>4, <2>5, <2>6
<1>2. /\ workers' \in [Workers -> Call]
      /\ workers'[w].place \in MailPlaces /\ workers'[w].file = workers[w].file
      /\ \A v \in Workers \ {w} : workers'[v] = workers[v]
  <2>1. CASE workers' = workers
    BY <1>0, <1>1, <2>1
  <2>2. ASSUME NEW place \in MailPlaces, Moves(w, place)
        PROVE  /\ workers' \in [Workers -> Call]
               /\ workers'[w].place \in MailPlaces /\ workers'[w].file = workers[w].file
               /\ \A v \in Workers \ {w} : workers'[v] = workers[v]
    BY <1>0, <1>p, <2>2, MovesIsTyped
  <2> QED
    BY <1>1, <2>1, <2>2
<1>3. CASE document' = document
  BY <1>0, <1>p, <1>1, <1>2, <1>3, QuietFileStep
<1>4. CASE document' # document
  <2>1. /\ UNCHANGED <<mailed, received>>
        /\ \/ \E moment \in Nat \union {Unclaimed} : document' = [document EXCEPT !.claimedAt = moment]
           \/ document' = [document EXCEPT !.delivered = TRUE]
    BY <1>0, <1>4 DEF ClaimDelivery, ClaimIsLost, ReachesSubscriber, MailAnswers, AnswerIsLate,
                      RecordDelivered, ReleaseDelivery, MailStops
  <2>2. /\ document'.checksum = document.checksum /\ document'.archived = document.archived
        /\ FileTypeOK'
    BY <1>0, <1>1, <1>2, <2>1 DEF FileTypeOK, Call, AllPlaces
  <2> QED
    BY <1>0, <1>p, <1>1, <1>2, <2>1, <2>2, RecordStep
<1> QED
  BY <1>3, <1>4

LEMMA FileInvStep == FileInv /\ [FilesNext]_fileVars => FileInv'
<1> SUFFICES ASSUME FileInv, [FilesNext]_fileVars PROVE FileInv'
  OBVIOUS
<1>1. CASE \E w \in Workers :
             \/ FindToArchive(w) \/ ReadArchive(w) \/ Render(w) \/ RecordRendering(w)
             \/ Store(w) \/ ConfirmArchived(w) \/ Abandon(w)
  BY <1>1, ArchivingStep
<1>2. CASE \E w \in Workers : FindToHandOut(w) \/ HandOut(w) \/ FindToDeliver(w) \/ TakeOn(w)
  BY <1>2, HandingOutStep
<1>3. CASE \E w \in Workers :
             \/ ClaimDelivery(w) \/ ClaimIsLost(w) \/ ReachesSubscriber(w) \/ MailAnswers(w)
             \/ AnswerIsLate(w) \/ RecordDelivered(w) \/ ReleaseDelivery(w) \/ MailStops(w)
  BY <1>3, MailStep
<1>4. CASE Decays \/ HourPasses \/ UNCHANGED fileVars
  <2>1. UNCHANGED <<document, archive, workers, mailed, received>>
    BY <1>4 DEF Decays, HourPasses, fileVars
  <2>t. hour' \in Nat /\ decayed' \in BOOLEAN
    <3>1. hour \in Nat
      BY DEF FileInv, FileTypeOK
    <3>2. hour' = hour \/ hour' = hour + 1
      BY <1>4 DEF Decays, HourPasses, fileVars
    <3>3. hour' \in Nat
      BY ONLY <3>1, <3>2
    <3>4. decayed' = decayed \/ decayed' = TRUE
      BY <1>4 DEF Decays, HourPasses, fileVars
    <3>5. decayed \in BOOLEAN
      BY DEF FileInv, FileTypeOK
    <3>6. decayed' \in BOOLEAN
      BY <3>4, <3>5, Zenon
    <3> QED
      BY <3>3, <3>6
  <2>2. FileTypeOK'
    BY <2>1, <2>t DEF FileInv, FileTypeOK
  <2>3. InHand' /\ MailedOnceArchived' /\ ArchivedAsRecorded'
    BY <2>1 DEF FileInv, InHand, MailedOnceArchived, ArchivedAsRecorded, PlaceOf, Kept
  <2> QED
    BY <2>1, <2>2, <2>3 DEF FileInv
<1> QED
  BY <1>1, <1>2, <1>3, <1>4 DEF FilesNext

LEMMA FileInvAlways == FilesSpec => []FileInv
<1>1. FilesInit => FileInv
  <2> SUFFICES ASSUME FilesInit PROVE FileInv
    OBVIOUS
  <2>1. FileTypeOK
    BY DEF FilesInit, FileTypeOK, AtRest, ArchivePlaces
  <2>2. \A w \in Workers : PlaceOf(w) = "idle" /\ workers[w].takenAt = 0
    BY DEF FilesInit, AtRest, PlaceOf
  <2>3. InHand /\ MailedOnceArchived
    BY <2>2 DEF InHand, MailedOnceArchived, MailPlaces
  <2>4. ArchivedAsRecorded /\ archive \notin RefusedFiles /\ received \subseteq {archive} \ {NoFile}
    BY FilesAssumption DEF FilesInit, ArchivedAsRecorded
  <2> QED
    BY <2>1, <2>3, <2>4 DEF FileInv
<1> QED
  BY <1>1, FileInvStep, PTL DEF FilesSpec

-----------------------------------------------------------------------------
\* The record, the archive and the workers keep their types.
THEOREM FileTypes == FilesSpec => []FileTypeOK
<1>1. FileInv => FileTypeOK
  BY DEF FileInv
<1> QED
  BY <1>1, FileInvAlways, PTL

\* However many runs archive, and whatever each renders: what is archived is the
\* file the record names, none that was refused, and all anybody ever received.
THEOREM OneFile == FilesSpec => []OneFileAsIssued
<1>1. FileInv => OneFileAsIssued
  BY DEF FileInv, OneFileAsIssued, ArchivedAsRecorded
<1> QED
  BY <1>1, FileInvAlways, PTL

-----------------------------------------------------------------------------
(* The mail, as a notice that is told. *)

At == [w \in Workers |-> MailPlace(w)]

Taken == [w \in Workers |-> workers[w].takenAt]

Delivered == IF document.delivered THEN "somebody" ELSE "no"

\* A step in which nobody mails is none of the notice.
LEMMA NobodyMails ==
    ASSUME FileTypeOK, NEW w \in Workers, workers' \in [Workers -> Call],
           \A v \in Workers \ {w} : workers'[v] = workers[v],
           MailPlace(w)' = MailPlace(w), workers'[w].takenAt = workers[w].takenAt,
           hour' = hour, mailed' = mailed,
           document'.claimedAt = document.claimedAt, document'.delivered = document.delivered
    PROVE  UNCHANGED Mail!noticeVars
<1>1. \A v \in Workers : MailPlace(v)' = MailPlace(v) /\ workers'[v].takenAt = workers[v].takenAt
  BY DEF MailPlace, PlaceOf
<1>2. At' = At /\ Taken' = Taken /\ Delivered' = Delivered
  BY <1>1 DEF At, Taken, Delivered
<1> QED
  BY <1>2 DEF Mail!noticeVars, At, Taken, Delivered

\* A worker that mails moves as a call that tells.
LEMMA MovesAsTell ==
    ASSUME FileTypeOK, NEW w \in Workers, NEW place \in MailPlaces, Moves(w, place)
    PROVE  At' = [At EXCEPT ![w] = place] /\ Taken' = Taken
<1>1. /\ workers' \in [Workers -> Call]
      /\ workers'[w].place = place /\ workers'[w].takenAt = workers[w].takenAt
      /\ \A v \in Workers \ {w} : workers'[v] = workers[v]
  BY MovesIsTyped DEF AllPlaces
<1>2. \A v \in Workers : MailPlace(v)' = IF v = w THEN place ELSE MailPlace(v)
  BY <1>1 DEF MailPlace, PlaceOf
<1>3. \A v \in Workers : workers'[v].takenAt = workers[v].takenAt
  BY <1>1
<1> QED
  BY <1>2, <1>3 DEF At, Taken

LEMMA QuietWhileNobodyMails ==
    ASSUME FileInv, NEW w \in Workers,
           \/ FindToArchive(w) \/ ReadArchive(w) \/ Render(w) \/ RecordRendering(w)
           \/ Store(w) \/ ConfirmArchived(w) \/ Abandon(w)
           \/ FindToHandOut(w) \/ HandOut(w) \/ FindToDeliver(w)
           \/ TakeOn(w) /\ Leaves(w)
    PROVE  UNCHANGED Mail!noticeVars
<1>0. /\ FileTypeOK /\ PlaceOf(w) = workers[w].place
      /\ PlaceOf(w) \notin MailPlaces => workers[w].takenAt = 0
      /\ workers \in [Workers -> Call]
  BY DEF FileInv, MailedOnceArchived, PlaceOf, FileTypeOK, Call, AllPlaces
<1>1. /\ PlaceOf(w) \in ArchivePlaces \union HandOutPlaces
      /\ UNCHANGED <<hour, mailed>>
      /\ document'.claimedAt = document.claimedAt /\ document'.delivered = document.delivered
  BY <1>0 DEF FindToArchive, ReadArchive, Render, RecordRendering, Store, ConfirmArchived, Abandon,
              FindToHandOut, HandOut, FindToDeliver, TakeOn, ArchivePlaces, HandOutPlaces, FileTypeOK
<1>2. \A place \in ArchivePlaces \union HandOutPlaces : place \notin MailPlaces
  BY DEF ArchivePlaces, HandOutPlaces, MailPlaces
<1>3. workers[w].takenAt = 0 /\ MailPlace(w) = "idle"
  BY <1>0, <1>1, <1>2 DEF MailPlace
<1>4. /\ workers'[w].place \in ArchivePlaces \union HandOutPlaces
      /\ \A v \in Workers \ {w} : workers'[v] = workers[v]
  <2>p. {"idle", "reading", "rendering", "recording", "following", "storing", "confirming",
         "fetching", "downloading"} = ArchivePlaces \union HandOutPlaces
    BY DEF ArchivePlaces, HandOutPlaces
  <2>1. CASE Leaves(w)
    BY <1>0, <2>p, <2>1, LeavesIsTyped DEF AtRest
  <2>2. ASSUME NEW place \in ArchivePlaces \union HandOutPlaces, Moves(w, place)
        PROVE  /\ workers'[w].place \in ArchivePlaces \union HandOutPlaces
               /\ \A v \in Workers \ {w} : workers'[v] = workers[v]
    BY <1>0, <2>2, MovesIsTyped DEF AllPlaces
  <2>3. CASE FindToArchive(w) \/ FindToHandOut(w) \/ FindToDeliver(w)
    BY <1>0, <2>p, <2>3 DEF FindToArchive, FindToHandOut, FindToDeliver, Call
  <2>4. CASE ReadArchive(w)
    BY <1>0, <2>p, <2>1, <2>2, <2>4 DEF ReadArchive, Keeps, Call
  <2>5. CASE Render(w)
    BY <1>0, <2>p, <2>1, <2>5 DEF Render, Call
  <2>6. CASE RecordRendering(w)
    BY <2>p, <2>1, <2>2, <2>6 DEF RecordRendering
  <2>7. CASE Store(w)
    BY <2>p, <2>1, <2>2, <2>7 DEF Store
  <2>8. CASE ConfirmArchived(w) \/ Abandon(w) \/ HandOut(w)
    BY <2>1, <2>8 DEF ConfirmArchived, Abandon, HandOut
  <2> QED
    BY <2>1, <2>3, <2>4, <2>5, <2>6, <2>7, <2>8
<1>5. workers' \in [Workers -> Call] /\ (workers'[w].place \notin MailPlaces => workers'[w].takenAt = 0)
  <2>1. FileInv'
    BY ArchivingStep, HandingOutStep
  <2> QED
    BY <2>1 DEF FileInv, FileTypeOK, Call, AllPlaces, MailedOnceArchived, PlaceOf
<1>6. MailPlace(w)' = "idle" /\ workers'[w].takenAt = 0
  BY <1>2, <1>4, <1>5 DEF MailPlace, PlaceOf
<1> QED
  BY <1>0, <1>1, <1>3, <1>4, <1>5, <1>6, NobodyMails

\* Each step of a mail is the step of the call that tells.
LEMMA MailsAsTold ==
    ASSUME FileInv, NEW w \in Workers,
           \/ TakeOn(w) /\ ~Leaves(w)
           \/ ClaimDelivery(w) \/ ClaimIsLost(w) \/ ReachesSubscriber(w) \/ MailAnswers(w)
           \/ AnswerIsLate(w) \/ RecordDelivered(w) \/ ReleaseDelivery(w) \/ MailStops(w)
    PROVE  Mail!NoticeNext
<1>0. /\ FileTypeOK
      /\ At[w] = MailPlace(w) /\ Taken[w] = workers[w].takenAt
      /\ PlaceOf(w) \in MailPlaces => At[w] = PlaceOf(w) /\ document.archived
  BY DEF FileInv, MailedOnceArchived, At, Taken, MailPlace
<1>p. MailPlaces = {"claiming", "sending", "late", "answered", "failed", "recorded", "given up", "stopped"}
  BY DEF MailPlaces
<1>1. CASE TakeOn(w) /\ ~Leaves(w)
  <2>1. /\ PlaceOf(w) = "fetching"
        /\ workers' = [workers EXCEPT ![w].place = "claiming", ![w].file = archive, ![w].takenAt = hour]
        /\ UNCHANGED <<hour, document, archive, decayed, mailed, received>>
    BY <1>1 DEF TakeOn
  <2>2. /\ workers'[w].place = "claiming" /\ workers'[w].takenAt = hour
        /\ \A v \in Workers \ {w} : workers'[v] = workers[v]
    BY <1>0, <2>1 DEF FileTypeOK
  <2>3. At' = [At EXCEPT ![w] = "claiming"] /\ Taken' = [Taken EXCEPT ![w] = hour] /\ At[w] = "idle"
    <3>1. \A v \in Workers : MailPlace(v)' = IF v = w THEN "claiming" ELSE MailPlace(v)
      BY <1>p, <2>2 DEF MailPlace, PlaceOf
    <3>2. \A v \in Workers : workers'[v].takenAt = IF v = w THEN hour ELSE workers[v].takenAt
      BY <2>2
    <3>3. MailPlace(w) = "idle"
      BY <1>p, <2>1 DEF MailPlace
    <3>4. At' = [At EXCEPT ![w] = "claiming"]
      BY <3>1 DEF At
    <3>5. Taken' = [Taken EXCEPT ![w] = hour]
      BY <3>2 DEF Taken
    <3> QED
      BY <1>0, <3>3, <3>4, <3>5
  <2>4. Mail!Take(w)
    BY <2>1, <2>3 DEF Mail!Take, Mail!TellGoes, At, Taken
  <2> QED
    BY <2>4 DEF Mail!NoticeNext
<1>2. CASE ClaimDelivery(w)
  <2>1. At[w] = "claiming" /\ UNCHANGED <<hour, mailed>>
    BY <1>0, <1>p, <1>2 DEF ClaimDelivery
  <2>2. CASE IsClaimable(workers[w].takenAt)
    <3>1. /\ document' = [document EXCEPT !.claimedAt = workers[w].takenAt]
          /\ Moves(w, "sending")
      BY <1>2, <2>2 DEF ClaimDelivery
    <3>2. At' = [At EXCEPT ![w] = "sending"] /\ Taken' = Taken
      BY <1>0, <1>p, <3>1, MovesAsTell
    <3>3. document'.claimedAt = Taken[w] /\ Delivered' = Delivered
      BY <1>0, <3>1 DEF FileTypeOK, Delivered
    <3>4. Mail!Claimable(Taken[w])
      BY <1>0, <2>2 DEF IsClaimable, Mail!Claimable, Mail!None, Unclaimed, Delivered
    <3>5. Mail!Claim(w)
      BY <2>1, <3>2, <3>3, <3>4 DEF Mail!Claim, Mail!TellGoes, At, Taken, Delivered
    <3> QED
      BY <3>5 DEF Mail!NoticeNext
  <2>3. CASE ~IsClaimable(workers[w].takenAt)
    <3>1. document' = document /\ Moves(w, "given up")
      BY <1>2, <2>3 DEF ClaimDelivery
    <3>2. At' = [At EXCEPT ![w] = "given up"] /\ Taken' = Taken
      BY <1>0, <1>p, <3>1, MovesAsTell
    <3>4. ~Mail!Claimable(Taken[w])
      BY <1>0, <1>p, <1>2, <2>3 DEF IsClaimable, ClaimDelivery, Mail!Claimable, Mail!None, Unclaimed
    <3>5. Mail!Claim(w)
      BY <2>1, <3>1, <3>2, <3>4 DEF Mail!Claim, Mail!TellGoes, At, Taken
    <3> QED
      BY <3>5 DEF Mail!NoticeNext
  <2> QED
    BY <2>2, <2>3
<1>3. CASE ClaimIsLost(w)
  <2>1. /\ At[w] = "claiming" /\ UNCHANGED <<hour, mailed>>
        /\ IsClaimable(workers[w].takenAt)
        /\ document' = [document EXCEPT !.claimedAt = workers[w].takenAt]
        /\ Moves(w, "given up")
    BY <1>0, <1>p, <1>3 DEF ClaimIsLost
  <2>2. At' = [At EXCEPT ![w] = "given up"] /\ Taken' = Taken
    BY <1>0, <1>p, <2>1, MovesAsTell
  <2>3. document'.claimedAt = Taken[w] /\ document'.delivered = document.delivered
    BY <1>0, <2>1 DEF FileTypeOK
  <2>4. Mail!Claimable(Taken[w])
    BY <1>0, <2>1 DEF IsClaimable, Mail!Claimable, Mail!None, Unclaimed
  <2>5. document'.claimedAt \in {document.claimedAt} \union (IF Mail!Claimable(Taken[w]) THEN {Taken[w]} ELSE {})
    BY <2>3, <2>4
  <2>6. Mail!ClaimThrows(w)
    BY <2>1, <2>2, <2>3, <2>5 DEF Mail!ClaimThrows, Mail!TellGoes, At, Taken
  <2> QED
    BY <2>6 DEF Mail!NoticeNext
<1>4. CASE ReachesSubscriber(w)
  <2>1. /\ At[w] \in {"sending", "late"}
        /\ mailed' = mailed \union {w} /\ UNCHANGED <<hour, document, workers>>
    BY <1>0, <1>p, <1>4 DEF ReachesSubscriber
  <2>2. At' = At /\ Taken' = Taken
    BY <2>1 DEF At, Taken, MailPlace, PlaceOf
  <2>3. Mail!Reaches(w)
    BY <2>1, <2>2 DEF Mail!Reaches, At, Taken
  <2> QED
    BY <2>3 DEF Mail!NoticeNext
<1>5. CASE MailAnswers(w)
  <2>1. /\ At[w] \in {"sending", "late"} /\ UNCHANGED <<hour, document, mailed>>
        /\ Moves(w, IF w \in mailed THEN "answered" ELSE "failed")
    BY <1>0, <1>p, <1>5 DEF MailAnswers
  <2>2. At' = [At EXCEPT ![w] = IF w \in mailed THEN "answered" ELSE "failed"] /\ Taken' = Taken
    BY <1>0, <1>p, <2>1, MovesAsTell
  <2>3. Mail!Answers(w) \/ Mail!SettleLate(w)
    BY <2>1, <2>2 DEF Mail!Answers, Mail!SettleLate, Mail!AnswersNobody, Mail!TellGoes, At, Taken
  <2> QED
    BY <2>3 DEF Mail!NoticeNext
<1>6. CASE AnswerIsLate(w)
  <2>1. At[w] = "sending" /\ UNCHANGED <<hour, document, mailed>> /\ Moves(w, "late")
    BY <1>0, <1>p, <1>6 DEF AnswerIsLate
  <2>2. At' = [At EXCEPT ![w] = "late"] /\ Taken' = Taken
    BY <1>0, <1>p, <2>1, MovesAsTell
  <2>3. Mail!TimesOut(w)
    BY <2>1, <2>2 DEF Mail!TimesOut, Mail!TellGoes, At, Taken
  <2> QED
    BY <2>3 DEF Mail!NoticeNext
<1>7. CASE RecordDelivered(w)
  <2>1. /\ At[w] = "answered" /\ UNCHANGED <<hour, mailed>> /\ Moves(w, "recorded")
        /\ document' = IF Holds(w) THEN [document EXCEPT !.delivered = TRUE] ELSE document
    BY <1>0, <1>p, <1>7 DEF RecordDelivered
  <2>2. At' = [At EXCEPT ![w] = "recorded"] /\ Taken' = Taken
    BY <1>0, <1>p, <2>1, MovesAsTell
  <2>3. Holds(w) <=> document.claimedAt = Taken[w] /\ Delivered = "no"
    BY <1>0, <1>p, <1>7 DEF Holds, RecordDelivered, Delivered
  <2>4. /\ document'.claimedAt = document.claimedAt
        /\ Delivered' = IF Holds(w) THEN "somebody" ELSE Delivered
    BY <1>0, <2>1 DEF FileTypeOK, Delivered
  <2>5. Mail!RecordSent(w)
    BY <2>1, <2>2, <2>3, <2>4 DEF Mail!RecordSent, Mail!HeldBy, Mail!TellGoes, At, Taken, Delivered
  <2> QED
    BY <2>5 DEF Mail!NoticeNext
<1>8. CASE ReleaseDelivery(w)
  <2>1. /\ At[w] = "failed" /\ UNCHANGED <<hour, mailed>> /\ Moves(w, "given up")
        /\ document' = IF Holds(w) THEN [document EXCEPT !.claimedAt = Unclaimed] ELSE document
    BY <1>0, <1>p, <1>8 DEF ReleaseDelivery
  <2>2. At' = [At EXCEPT ![w] = "given up"] /\ Taken' = Taken
    BY <1>0, <1>p, <2>1, MovesAsTell
  <2>3. Holds(w) <=> document.claimedAt = Taken[w] /\ Delivered = "no"
    BY <1>0, <1>p, <1>8 DEF Holds, ReleaseDelivery, Delivered
  <2>4. /\ document'.claimedAt = IF Holds(w) THEN Mail!None ELSE document.claimedAt
        /\ Delivered' = Delivered
    BY <1>0, <2>1 DEF FileTypeOK, Delivered, Mail!None, Unclaimed
  <2>5. Mail!LetGo(w)
    BY <2>1, <2>2, <2>3, <2>4 DEF Mail!LetGo, Mail!HeldBy, Mail!TellGoes, At, Taken, Delivered
  <2> QED
    BY <2>5 DEF Mail!NoticeNext
<1>9. CASE MailStops(w)
  <2>1. /\ At[w] \in {"claiming", "sending", "late", "answered", "failed"}
        /\ UNCHANGED <<hour, document, mailed>> /\ Moves(w, "stopped")
    BY <1>0, <1>p, <1>9 DEF MailStops
  <2>2. At' = [At EXCEPT ![w] = "stopped"] /\ Taken' = Taken
    BY <1>0, <1>p, <2>1, MovesAsTell
  <2>3. Mail!Stops(w)
    BY <2>1, <2>2 DEF Mail!Stops, Mail!TellGoes, At, Taken
  <2> QED
    BY <2>3 DEF Mail!NoticeNext
<1> QED
  BY <1>1, <1>2, <1>3, <1>4, <1>5, <1>6, <1>7, <1>8, <1>9

\* The mail of a file is told as a notice is, whatever its renderings, its archive
\* and the runs that make it: what is proved of a notice holds of it.
THEOREM MailIsANotice == FilesSpec => MailedAsTold /\ Mail!NoticeSpec
<1>1. FilesInit => Mail!NoticeInit
  <2> SUFFICES ASSUME FilesInit PROVE Mail!NoticeInit
    OBVIOUS
  <2>1. \A w \in Workers : MailPlace(w) = "idle" /\ workers[w].takenAt = 0
    BY DEF FilesInit, AtRest, MailPlace, PlaceOf, MailPlaces
  <2>2. At = [w \in Workers |-> "idle"] /\ Taken = [w \in Workers |-> 0]
    BY <2>1 DEF At, Taken
  <2> QED
    BY <2>2 DEF FilesInit, Mail!NoticeInit, Mail!None, Unclaimed, At, Taken
<1>2. FileInv /\ [FilesNext]_fileVars => [Mail!NoticeNext]_(Mail!noticeVars)
  <2> SUFFICES ASSUME FileInv, [FilesNext]_fileVars
               PROVE  Mail!NoticeNext \/ UNCHANGED Mail!noticeVars
    OBVIOUS
  <2>1. CASE \E w \in Workers :
               \/ FindToArchive(w) \/ ReadArchive(w) \/ Render(w) \/ RecordRendering(w)
               \/ Store(w) \/ ConfirmArchived(w) \/ Abandon(w)
               \/ FindToHandOut(w) \/ HandOut(w) \/ FindToDeliver(w)
               \/ TakeOn(w) /\ Leaves(w)
    BY <2>1, QuietWhileNobodyMails
  <2>2. CASE \E w \in Workers :
               \/ TakeOn(w) /\ ~Leaves(w)
               \/ ClaimDelivery(w) \/ ClaimIsLost(w) \/ ReachesSubscriber(w) \/ MailAnswers(w)
               \/ AnswerIsLate(w) \/ RecordDelivered(w) \/ ReleaseDelivery(w) \/ MailStops(w)
    BY <2>2, MailsAsTold
  <2>3. CASE Decays
    BY <2>3 DEF Decays, Mail!noticeVars, MailPlace, PlaceOf
  <2>4. CASE HourPasses
    <3>1. Mail!Tick
      BY <2>4 DEF HourPasses, Mail!Tick, MailPlace, PlaceOf
    <3> QED
      BY <3>1 DEF Mail!NoticeNext
  <2>5. CASE UNCHANGED fileVars
    BY <2>5 DEF fileVars, Mail!noticeVars, MailPlace, PlaceOf
  <2> QED
    BY <2>1, <2>2, <2>3, <2>4, <2>5 DEF FilesNext
<1>3. [Mail!NoticeNext]_(Mail!noticeVars)
          => [UNCHANGED fileVars \/ Mail!NoticeNext]_(Mail!noticeVars)
  OBVIOUS
<1> QED
  BY <1>1, <1>2, <1>3, FileInvAlways, PTL DEF FilesSpec, MailedAsTold, Mail!NoticeSpec
=============================================================================
