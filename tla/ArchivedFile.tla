---------------------------- MODULE ArchivedFile ----------------------------
(***************************************************************************)
(* The file the platform owes somebody - an invoice's document, a contract's *)
(* confirmation: rendered, checked, its checksum recorded, archived, the    *)
(* archive's confirmation recorded, then mailed under a claim, and handed   *)
(* out for download.                                                        *)
(*                                                                          *)
(* One subject's file.  A member of Workers is what one instance does with  *)
(* it: it archives again and again, hands the file out, and mails it once.  *)
(* Every await is a step.  A renderer may be updated at any moment, so what *)
(* it makes is any member of Files; a file and its checksum are one.  An    *)
(* archive refuses every change, and may decay all the same.                *)
(***************************************************************************)
EXTENDS Integers

CONSTANTS
    Workers,
    Files, NoFile,  \* what renderers make
    Decayed,        \* what a file has become that no longer matches its checksum
    RefusedFiles,   \* the files the tax adapter refuses
    MailLease,      \* ARCHIVED_FILE_DELIVERY_LEASE_MS
    LastHour        \* bound on the clock

ASSUME FilesAssumption ==
    /\ NoFile \notin Files /\ Decayed \notin Files /\ RefusedFiles \subseteq Files
    /\ MailLease \in Nat /\ LastHour \in Nat

VARIABLES
    hour,       \* the clock
    document,   \* the subject's row: see FileTypeOK
    archive,    \* the archive: the file it keeps, or NoFile
    decayed,    \* whether that one is still what it was
    workers,    \* where each worker is
    mailed,     \* the workers whose mail reached the subscriber
    received    \* history: every file that was mailed or handed out

fileVars == <<hour, document, archive, decayed, workers, mailed, received>>

Unclaimed == -1

ArchivePlaces == {"idle", "reading", "rendering", "recording", "following",
                  "storing", "confirming"}

HandOutPlaces == {"fetching", "downloading"}

MailPlaces == {"claiming", "sending", "late", "answered", "failed", "recorded", "given up", "stopped"}

\* The row holds the checksum recorded, and when it was archived, claimed and
\* mailed; a worker what it found recorded, the file in hand and its claim.
FileTypeOK ==
    /\ hour \in Nat
    /\ document \in [checksum : Files \union {NoFile}, archived : BOOLEAN,
                     claimedAt : Nat \union {Unclaimed}, delivered : BOOLEAN]
    /\ archive \in Files \union {NoFile}
    /\ decayed \in BOOLEAN
    /\ workers \in [Workers -> [place : ArchivePlaces \union HandOutPlaces \union MailPlaces,
                                found : Files \union {NoFile}, file : Files \union {NoFile},
                                takenAt : Nat]]
    /\ mailed \in SUBSET Workers
    /\ received \in SUBSET (Files \union {Decayed})

AtRest == [place |-> "idle", found |-> NoFile, file |-> NoFile, takenAt |-> 0]

FilesInit ==
    /\ hour = 0
    /\ document = [checksum |-> NoFile, archived |-> FALSE, claimedAt |-> Unclaimed, delivered |-> FALSE]
    /\ archive = NoFile
    /\ decayed = FALSE
    /\ workers = [w \in Workers |-> AtRest]
    /\ mailed = {}
    /\ received = {}

PlaceOf(w) == workers[w].place

Moves(w, place) == workers' = [workers EXCEPT ![w].place = place]

\* The run fails or holds the file here, and the next one tries again.
Leaves(w) == workers' = [workers EXCEPT ![w] = AtRest]

Content == IF decayed THEN Decayed ELSE archive

\* The archived file, where it is the one `checksum` names.
Matches(checksum) == archive # NoFile /\ archive = checksum /\ ~decayed

-----------------------------------------------------------------------------
(* Archiving. *)

FindToArchive(w) ==
    /\ PlaceOf(w) = "idle" /\ ~document.archived
    /\ workers' = [workers EXCEPT ![w].place = "reading", ![w].found = document.checksum]
    /\ UNCHANGED <<hour, document, archive, decayed, mailed, received>>

Keeps(w, place) == workers' = [workers EXCEPT ![w].place = place, ![w].file = archive]

\* What the archive keeps is the file: the record follows it, once it is checked
\* where the record names another.
ReadArchive(w) ==
    /\ PlaceOf(w) = "reading"
    /\ \/ archive = NoFile /\ Moves(w, "rendering")
       \/ archive # NoFile /\ workers[w].found = archive /\ ~decayed /\ Keeps(w, "confirming")
       \/ archive # NoFile /\ workers[w].found # archive /\ ~decayed
             /\ IF archive \in RefusedFiles THEN Leaves(w) ELSE Keeps(w, "following")
       \/ decayed /\ Leaves(w)
    /\ UNCHANGED <<hour, document, archive, decayed, mailed, received>>

Render(w) ==
    /\ PlaceOf(w) = "rendering"
    /\ \E file \in Files :
        IF file \in RefusedFiles THEN Leaves(w)
        ELSE workers' = [workers EXCEPT ![w].file = file,
                                        ![w].place = IF workers[w].found = file THEN "storing" ELSE "recording"]
    /\ UNCHANGED <<hour, document, archive, decayed, mailed, received>>

\* recordRendering, or replaceRendering of the checksum this run found.
RecordRendering(w) ==
    /\ PlaceOf(w) \in {"recording", "following"}
    /\ LET call == workers[w]
           records == call.found = NoFile /\ document.checksum \in {NoFile, call.file}
           replaces == call.found # NoFile /\ document.checksum = call.found /\ ~document.archived IN
       IF records \/ replaces
       THEN /\ document' = [document EXCEPT !.checksum = call.file]
            /\ Moves(w, IF call.place = "recording" THEN "storing" ELSE "confirming")
       ELSE UNCHANGED document /\ Leaves(w)
    /\ UNCHANGED <<hour, archive, decayed, mailed, received>>

\* The archive keeps the first file it is given, and refuses another.
Store(w) ==
    /\ PlaceOf(w) = "storing"
    /\ IF archive \in {NoFile, workers[w].file}
       THEN archive' = workers[w].file /\ Moves(w, "confirming")
       ELSE UNCHANGED archive /\ Leaves(w)
    /\ UNCHANGED <<hour, document, decayed, mailed, received>>

\* Mutant: whatever the checksum recorded by now.
ConfirmArchivedWhatever(w) ==
    /\ PlaceOf(w) = "confirming"
    /\ document' = [document EXCEPT !.archived = TRUE]
    /\ Leaves(w)
    /\ UNCHANGED <<hour, archive, decayed, mailed, received>>

\* markArchived: to no effect where another run confirmed it or changed the record.
ConfirmArchived(w) ==
    /\ PlaceOf(w) = "confirming"
    /\ document' = IF document.checksum = workers[w].file THEN [document EXCEPT !.archived = TRUE] ELSE document
    /\ Leaves(w)
    /\ UNCHANGED <<hour, archive, decayed, mailed, received>>

\* An await throws, its write made or not, or the instance stops.
Abandon(w) ==
    /\ PlaceOf(w) \in (ArchivePlaces \union HandOutPlaces) \ {"idle"}
    /\ Leaves(w)
    /\ UNCHANGED <<hour, document, archive, decayed, mailed, received>>

-----------------------------------------------------------------------------
(* Handing out. *)

FindToHandOut(w) ==
    /\ PlaceOf(w) = "idle" /\ document.archived
    /\ workers' = [workers EXCEPT ![w].place = "downloading", ![w].found = document.checksum]
    /\ UNCHANGED <<hour, document, archive, decayed, mailed, received>>

HandOut(w) ==
    /\ PlaceOf(w) = "downloading"
    /\ received' = IF Matches(workers[w].found) THEN received \union {Content} ELSE received
    /\ Leaves(w)
    /\ UNCHANGED <<hour, document, archive, decayed, mailed>>

-----------------------------------------------------------------------------
(* Mailing. *)

FindToDeliver(w) ==
    /\ PlaceOf(w) = "idle" /\ document.archived /\ ~document.delivered
    /\ workers' = [workers EXCEPT ![w].place = "fetching", ![w].found = document.checksum]
    /\ UNCHANGED <<hour, document, archive, decayed, mailed, received>>

\* The claim's moment is read once the file is there; one that does not match is held.
TakeOn(w) ==
    /\ PlaceOf(w) = "fetching"
    /\ IF Matches(workers[w].found)
       THEN workers' = [workers EXCEPT ![w].place = "claiming", ![w].file = archive, ![w].takenAt = hour]
       ELSE Leaves(w)
    /\ UNCHANGED <<hour, document, archive, decayed, mailed, received>>

IsClaimable(moment) ==
    /\ document.archived /\ ~document.delivered
    /\ document.claimedAt = Unclaimed \/ document.claimedAt < moment - MailLease

ClaimDelivery(w) ==
    /\ PlaceOf(w) = "claiming"
    /\ IF IsClaimable(workers[w].takenAt)
       THEN document' = [document EXCEPT !.claimedAt = workers[w].takenAt] /\ Moves(w, "sending")
       ELSE UNCHANGED document /\ Moves(w, "given up")
    /\ UNCHANGED <<hour, archive, decayed, mailed, received>>

\* The claim throws, and may have been made all the same.
ClaimIsLost(w) ==
    /\ PlaceOf(w) = "claiming" /\ IsClaimable(workers[w].takenAt)
    /\ document' = [document EXCEPT !.claimedAt = workers[w].takenAt]
    /\ Moves(w, "given up")
    /\ UNCHANGED <<hour, archive, decayed, mailed, received>>

\* The mail takes the file; that it did is not known yet.
ReachesSubscriber(w) ==
    /\ PlaceOf(w) \in {"sending", "late"}
    /\ mailed' = mailed \union {w}
    /\ received' = received \union {workers[w].file}
    /\ UNCHANGED <<hour, document, archive, decayed, workers>>

\* In time, or late (settleLate).
MailAnswers(w) ==
    /\ PlaceOf(w) \in {"sending", "late"}
    /\ Moves(w, IF w \in mailed THEN "answered" ELSE "failed")
    /\ UNCHANGED <<hour, document, archive, decayed, mailed, received>>

\* No answer in time: the claim is kept while the answer is awaited.
AnswerIsLate(w) ==
    /\ PlaceOf(w) = "sending"
    /\ Moves(w, "late")
    /\ UNCHANGED <<hour, document, archive, decayed, mailed, received>>

\* Mutant: any claim at all is let go.
HoldsAny(w) == document.archived /\ ~document.delivered

Holds(w) == document.archived /\ ~document.delivered /\ document.claimedAt = workers[w].takenAt

RecordDelivered(w) ==
    /\ PlaceOf(w) = "answered"
    /\ document' = IF Holds(w) THEN [document EXCEPT !.delivered = TRUE] ELSE document
    /\ Moves(w, "recorded")
    /\ UNCHANGED <<hour, archive, decayed, mailed, received>>

ReleaseDelivery(w) ==
    /\ PlaceOf(w) = "failed"
    /\ document' = IF Holds(w) THEN [document EXCEPT !.claimedAt = Unclaimed] ELSE document
    /\ Moves(w, "given up")
    /\ UNCHANGED <<hour, archive, decayed, mailed, received>>

\* The record or the release throws, or the instance stops: the claim goes stale.
MailStops(w) ==
    /\ PlaceOf(w) \in {"claiming", "sending", "late", "answered", "failed"}
    /\ Moves(w, "stopped")
    /\ UNCHANGED <<hour, document, archive, decayed, mailed, received>>

-----------------------------------------------------------------------------
\* What the archive keeps no longer matches its checksum.
Decays ==
    /\ archive # NoFile
    /\ decayed' = TRUE
    /\ UNCHANGED <<hour, document, archive, workers, mailed, received>>

HourPasses ==
    /\ hour < LastHour
    /\ hour' = hour + 1
    /\ UNCHANGED <<document, archive, decayed, workers, mailed, received>>

FilesNext ==
    \/ \E w \in Workers :
        \/ FindToArchive(w) \/ ReadArchive(w) \/ Render(w) \/ RecordRendering(w) \/ Store(w)
        \/ ConfirmArchived(w) \/ Abandon(w) \/ FindToHandOut(w) \/ HandOut(w) \/ FindToDeliver(w)
        \/ TakeOn(w) \/ ClaimDelivery(w) \/ ClaimIsLost(w) \/ ReachesSubscriber(w) \/ MailAnswers(w)
        \/ AnswerIsLate(w) \/ RecordDelivered(w) \/ ReleaseDelivery(w) \/ MailStops(w)
    \/ Decays \/ HourPasses

FilesSpec == FilesInit /\ [][FilesNext]_fileVars

-----------------------------------------------------------------------------
\* Whatever renderers make meanwhile and in whatever order runs record, store and
\* confirm it: once a file is archived, it is the one the record names and one
\* that was not refused, and nobody ever received another (SC-AUD-014, SC-AUD-019).
OneFileAsIssued ==
    /\ document.archived => document.checksum = archive
    /\ archive \notin RefusedFiles
    /\ received \subseteq {archive} \ {NoFile}

\* A worker's mail as a call that tells a notice, which it is not before it claims.
MailPlace(w) == IF PlaceOf(w) \in MailPlaces THEN PlaceOf(w) ELSE "idle"

Mail == INSTANCE NoticeSender WITH
    Tells <- Workers, Lease <- MailLease, Horizon <- LastHour,
    retriesNobody <- FALSE, now <- hour, claimedAt <- document.claimedAt,
    delivered <- IF document.delivered THEN "somebody" ELSE "no",
    at <- [w \in Workers |-> MailPlace(w)],
    takenAt <- [w \in Workers |-> workers[w].takenAt],
    sent <- mailed

\* A file is mailed as a notice is told: the subscriber's next mail of it waits
\* until the claim of every one before, late or overtaken, is stale, and what is
\* recorded stays (SC-PRIC-094).  That is Mail!NoticeSpec, its steps looked at
\* where a file moves at all.
MailedAsTold ==
    /\ Mail!NoticeInit
    /\ [][UNCHANGED fileVars \/ Mail!NoticeNext]_(Mail!noticeVars)
=============================================================================
