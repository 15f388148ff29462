------------------------------ MODULE FileViewer ------------------------------
(***************************************************************************)
(* One file, open in a browser tab: its metadata and the signed URL of its *)
(* bytes, each a query of the tab's cache (TanStack Query), the timer that *)
(* renews the URL, the frame that shows the document, and what the owner   *)
(* does to the file from there.                                            *)
(*                                                                         *)
(* A URL is its expiry.  A call is asked, decided by the API and answered  *)
(* in three steps; a call that fails has used up its retries.  An action   *)
(* is what the code does in one turn, the effects of the render it causes  *)
(* included.                                                               *)
(***************************************************************************)
EXTENDS Naturals

CONSTANTS
    Names,      \* what the file may be called
    Folders,    \* where it may be
    UrlTtl,     \* DOWNLOAD_URL_TTL_SECONDS
    RenewEarly, \* RENEW_EARLY_MS
    MaySleep,   \* whether the computer may sleep through a timer
    MaxTime,    \* bound: the end of the clock
    None

ASSUME ViewerAssumption ==
    /\ UrlTtl \in Nat /\ RenewEarly \in Nat /\ MaxTime \in Nat
    /\ RenewEarly > 0 /\ RenewEarly < UrlTtl
    /\ MaySleep \in BOOLEAN
    /\ None \notin Nat /\ None \notin [name : Names, place : Folders]

Url == 0 .. (MaxTime + UrlTtl)
File == [name : Names, place : Folders]

VARIABLES
    file,    \* the row the API has, or None once it is deleted
    now,     \* the clock
    slept,   \* history: the computer slept through a timer
    view,    \* "closed", "open" or "left"
    detail,  \* useFileDetail: data, error, and the call that is running
    content, \* useFileContentUrl: the same
    timer,   \* when the URL is renewed, or None
    frame,   \* frameUrl
    nonce,   \* frameNonce, which of two
    page,    \* what the frame has: "none", the "document", or "blank"
    write,   \* the rename, move or deletion that is running
    behind   \* history: "shown" while the header may be behind what the tab
             \* did, "coming" before an overtaken read puts it there

vars == <<file, now, slept, view, detail, content, timer, frame, nonce, page, write, behind>>

Calls == {"idle", "asked", "found", "missing"}
NoQuery == [data |-> None, error |-> "none", call |-> "idle", coming |-> None]
Query(Data) == [data : Data \cup {None}, error : {"none", "missing", "other"},
                call : Calls, coming : Data \cup {None}]
NoWrite == [op |-> "none", call |-> "idle", to |-> None]

TypeOK ==
    /\ file \in File \cup {None}
    /\ now \in 0 .. MaxTime
    /\ slept \in BOOLEAN
    /\ view \in {"closed", "open", "left"}
    /\ detail \in Query(File)
    /\ detail.call = "found" => detail.coming \in File
    /\ content \in Query(Url)
    /\ content.call = "found" => content.coming \in Url
    /\ timer \in Url \cup {None}
    /\ frame \in Url \cup {None}
    /\ nonce \in {0, 1}
    /\ page \in {"none", "document", "blank"}
    /\ write \in [op : {"none", "rename", "move", "delete"}, call : Calls, to : File \cup {None}]
    /\ write.op \in {"rename", "move"} => write.to \in File
    /\ behind \in {"no", "coming", "shown"}

Init ==
    /\ file \in File
    /\ now = 0
    /\ slept = FALSE
    /\ view = "closed"
    /\ detail \in {NoQuery, [NoQuery EXCEPT !.data = file]}
    /\ content = NoQuery
    /\ timer = None /\ frame = None /\ nonce = 0 /\ page = "none"
    /\ write = NoWrite
    /\ behind = "no"

-----------------------------------------------------------------------------
(* The queries.                                                            *)

\* A fetch of a query that has no data yet starts it over.
Asked(q) == [q EXCEPT !.call = "asked", !.error = IF q.data = None THEN "none" ELSE @]

\* A fetch that joins the one that is running.
Ask(q) == IF q.call = "idle" THEN Asked(q) ELSE q

\* refetch: it takes the place of the one that is running, once there is data.
Refetch(q) == IF q.data = None THEN Ask(q) ELSE Asked(q)

Arrived(q) == [q EXCEPT !.data = q.coming, !.error = "none", !.call = "idle", !.coming = None]
Failed(q, error) == [q EXCEPT !.error = error, !.call = "idle", !.coming = None]

IsSuccess(q) == q.data # None /\ q.error = "none"

\* enabled: the URL is fetched when the metadata comes to be there.
Enabled(was, is, c) == IF ~IsSuccess(was) /\ IsSuccess(is) THEN Ask(c) ELSE c

-----------------------------------------------------------------------------
(* What is on the screen.                                                  *)

\* FileViewer's returns, and FilePreview's.
Shown ==
    IF view # "open" THEN "nothing"
    ELSE IF detail.error = "missing" THEN "gone"
    ELSE IF detail.data = None
           THEN IF detail.error = "none" THEN "skeleton" ELSE "failed"
    ELSE IF content.error # "none" THEN "error"
    ELSE IF frame = None THEN "loading" ELSE "frame"

\* The provider serves a URL until it expires, while the object is there.
Serves(url) == url > now /\ file # None

\* The frame loads its URL when it is put on the screen and when the URL or
\* the nonce changes; a document that has its bytes keeps them.
Paint ==
    page' = IF Shown' # "frame" THEN "none"
            ELSE IF Shown = "frame" /\ frame' = frame /\ nonce' = nonce THEN page
            ELSE IF Serves(frame)' THEN "document" ELSE "blank"

-----------------------------------------------------------------------------
(* The metadata.                                                           *)

\* The tab opens the file; metadata of an earlier visit may still be fresh.
Open ==
    /\ view = "closed"
    /\ view' = "open"
    /\ detail' \in {Ask(detail)} \cup {d \in {detail} : d.data # None}
    /\ content' = Enabled(NoQuery, detail, content)
    /\ UNCHANGED <<file, now, slept, timer, frame, nonce, write, behind>>

\* GET files/:id is decided.
ServeDetail ==
    /\ detail.call = "asked"
    /\ detail' = [detail EXCEPT !.call = IF file = None THEN "missing" ELSE "found",
                                !.coming = file]
    /\ UNCHANGED <<file, now, slept, view, content, timer, frame, nonce, write, behind>>

DetailArrives ==
    /\ view = "open"
    /\ detail.call \in {"found", "missing"}
    /\ detail' = IF detail.call = "found" THEN Arrived(detail) ELSE Failed(detail, "missing")
    /\ content' = Enabled(detail, detail', content)
    /\ behind' = IF detail.call = "found" /\ behind = "coming" THEN "shown" ELSE "no"
    /\ UNCHANGED <<file, now, slept, view, timer, frame, nonce, write>>

DetailFails ==
    /\ view = "open"
    /\ detail.call # "idle"
    /\ detail' = Failed(detail, "other")
    /\ behind' = "shown"
    /\ UNCHANGED <<file, now, slept, view, content, timer, frame, nonce, write>>

\* The Retry button of "Could not open this file".
RetryDetail ==
    /\ Shown = "failed"
    /\ detail' = Ask(detail)
    /\ UNCHANGED <<file, now, slept, view, content, timer, frame, nonce, write, behind>>

-----------------------------------------------------------------------------
(* The signed URL.                                                         *)

\* GET files/:id/content is decided.
ServeUrl ==
    /\ content.call = "asked"
    /\ content' = [content EXCEPT !.call = IF file = None THEN "missing" ELSE "found",
                                  !.coming = IF file = None THEN None ELSE now + UrlTtl]
    /\ UNCHANGED <<file, now, slept, view, detail, timer, frame, nonce, write, behind>>

\* Mutant: the renewal is due when the URL has expired.
RenewalAtExpiry(url) == url

\* renewalDelayMs, as the moment it ends.
RenewalDue(url) == IF url > now + RenewEarly THEN url - RenewEarly ELSE now

\* Mutant: the frame follows the newest URL.
PointedAnew(url) == url

\* The effect that points the frame: at the first URL, and then no more.
Pointed(url) == IF frame = None THEN url ELSE frame

UrlArrives ==
    /\ view = "open"
    /\ content.call = "found"
    /\ content' = Arrived(content)
    /\ timer' = RenewalDue(content.coming)
    /\ frame' = Pointed(content.coming)
    /\ UNCHANGED <<file, now, slept, view, detail, nonce, write, behind>>

\* The call is answered 404, or it fails: the last URL stays, and its timer.
UrlFails ==
    /\ view = "open"
    /\ content.call # "idle"
    /\ content' = Failed(content, "other")
    /\ UNCHANGED <<file, now, slept, view, detail, timer, frame, nonce, write, behind>>

\* The timer of useFileContentUrl.
Renew ==
    /\ timer # None
    /\ now >= timer
    /\ timer' = None
    /\ content' = Refetch(content)
    /\ UNCHANGED <<file, now, slept, view, detail, frame, nonce, write, behind>>

\* The window is focused: the URL is always stale, the metadata after a while.
Focus ==
    /\ view = "open"
    /\ detail' \in {detail, Ask(detail)}
    /\ content' = IF IsSuccess(detail) THEN Ask(content) ELSE content
    /\ UNCHANGED <<file, now, slept, view, timer, frame, nonce, write, behind>>

\* reloadPreview: "Reload preview", and the Retry button of a failed preview.
ReloadPreview ==
    /\ Shown \in {"frame", "error"}
    /\ frame' = content.data
    /\ nonce' = 1 - nonce
    /\ content' = IF content.data = None THEN Refetch(content) ELSE content
    /\ UNCHANGED <<file, now, slept, view, detail, timer, write, behind>>

-----------------------------------------------------------------------------
(* What the owner does to the file.                                        *)

\* Bound: one write at a time.
StartWrite(op, to) ==
    /\ Shown \in {"error", "loading", "frame"}
    /\ write.call = "idle"
    /\ write' = [op |-> op, call |-> "asked", to |-> to]
    /\ UNCHANGED <<file, now, slept, view, detail, content, timer, frame, nonce, behind>>

\* The dialogs ask for another name and another folder than the header has.
StartRename(nm) ==
    /\ detail.data # None /\ nm # detail.data.name
    /\ StartWrite("rename", [detail.data EXCEPT !.name = nm])

StartMove(d) ==
    /\ detail.data # None /\ d # detail.data.place
    /\ StartWrite("move", [detail.data EXCEPT !.place = d])

StartDelete == StartWrite("delete", None)

\* PATCH and DELETE files/:id.
ServeWrite ==
    /\ write.call = "asked"
    /\ IF file = None
         THEN write' = [write EXCEPT !.call = "missing"] /\ UNCHANGED file
         ELSE /\ write' = [write EXCEPT !.call = "found"]
              /\ file' = CASE write.op = "rename" -> [file EXCEPT !.name = write.to.name]
                           [] write.op = "move" -> [file EXCEPT !.place = write.to.place]
                           [] OTHER -> None
    /\ UNCHANGED <<now, slept, view, detail, content, timer, frame, nonce, behind>>

\* useRenameFile: the answer is written into the metadata, whatever read of
\* it is running.
RenameSucceeds ==
    LET saved == [detail.data EXCEPT !.name = write.to.name] IN
    /\ view = "open" /\ write.op = "rename" /\ write.call = "found"
    /\ detail' = IF detail.data = None THEN detail
                 ELSE [detail EXCEPT !.data = saved, !.error = "none"]
    /\ content' = Enabled(detail, detail', content)
    /\ behind' = IF detail.call = "found" /\ detail.coming.name # write.to.name
                  THEN "coming" ELSE behind
    /\ write' = NoWrite
    /\ UNCHANGED <<file, now, slept, view, timer, frame, nonce>>

\* Mutant: the metadata is left as it is.
MoveSucceedsQuietly ==
    /\ view = "open" /\ write.op = "move" /\ write.call = "found"
    /\ write' = NoWrite
    /\ UNCHANGED <<file, now, slept, view, detail, content, timer, frame, nonce, behind>>

\* useMoveFile: the metadata is read again.
MoveSucceeds ==
    /\ view = "open" /\ write.op = "move" /\ write.call = "found"
    /\ detail' = Refetch(detail)
    /\ behind' = IF behind = "coming" THEN "no" ELSE behind
    /\ write' = NoWrite
    /\ UNCHANGED <<file, now, slept, view, content, timer, frame, nonce>>

\* useDeleteFile and handleDelete: the queries go, and the tab to the folder.
DeleteSucceeds ==
    /\ view = "open" /\ write.op = "delete" /\ write.call = "found"
    /\ view' = "left"
    /\ detail' = NoQuery /\ content' = NoQuery
    /\ timer' = None /\ frame' = None
    /\ write' = NoWrite
    /\ UNCHANGED <<file, now, slept, nonce, behind>>

\* The dialog says so; nothing else changes.  The answer that is lost may be
\* the one to a write that was done.
WriteFails ==
    /\ view = "open" /\ write.call # "idle"
    /\ write' = NoWrite
    /\ behind' = IF write.call # "found" THEN behind
                  ELSE IF detail.call = "found" THEN "coming" ELSE "shown"
    /\ UNCHANGED <<file, now, slept, view, detail, content, timer, frame, nonce>>

-----------------------------------------------------------------------------
(* What else happens.                                                      *)

\* Deleted in another tab, alone or with a folder above it.
DeleteElsewhere ==
    /\ file # None
    /\ file' = None
    /\ UNCHANGED <<now, slept, view, detail, content, timer, frame, nonce, write, behind>>

\* The tab goes elsewhere: the timer is cleared, gcTime is 0, and nobody hears
\* of a write that is running.
Leave ==
    /\ view = "open"
    /\ view' = "left"
    /\ detail' = NoQuery /\ content' = NoQuery
    /\ timer' = None /\ frame' = None
    /\ write' = NoWrite
    /\ UNCHANGED <<file, now, slept, nonce, behind>>

\* A timer that is due fires first, and no answer is under way for as long as
\* a URL lives; a computer that sleeps keeps to neither.
Tick ==
    /\ now < MaxTime
    /\ timer # None => now < timer
    /\ content.call = "found" => now + 1 < content.coming
    /\ now' = now + 1
    /\ UNCHANGED <<file, slept, view, detail, content, timer, frame, nonce, write, behind>>

Sleep ==
    /\ MaySleep /\ ~slept
    /\ now' \in (now + 1) .. MaxTime
    /\ slept' = TRUE
    /\ UNCHANGED <<file, view, detail, content, timer, frame, nonce, write, behind>>

-----------------------------------------------------------------------------

QueryStep ==
    \/ Open /\ Paint
    \/ ServeDetail /\ Paint
    \/ DetailArrives /\ Paint
    \/ DetailFails /\ Paint
    \/ ServeUrl /\ Paint
    \/ UrlArrives /\ Paint
    \/ UrlFails /\ Paint
    \/ Renew /\ Paint

OwnerStep ==
    \/ RetryDetail /\ Paint
    \/ Focus /\ Paint
    \/ ReloadPreview /\ Paint
    \/ \E nm \in Names : StartRename(nm) /\ Paint
    \/ \E d \in Folders : StartMove(d) /\ Paint
    \/ StartDelete /\ Paint
    \/ ServeWrite /\ Paint
    \/ RenameSucceeds /\ Paint
    \/ MoveSucceeds /\ Paint
    \/ DeleteSucceeds /\ Paint
    \/ WriteFails /\ Paint
    \/ Leave /\ Paint

Next ==
    \/ QueryStep
    \/ OwnerStep
    \/ DeleteElsewhere /\ Paint
    \/ Tick /\ Paint
    \/ Sleep /\ Paint

Spec == Init /\ [][Next]_vars

-----------------------------------------------------------------------------
(* Properties                                                              *)

\* A document on the screen stays where the reader is in it: renewals, focus
\* and writes neither reload nor remove it.  Only the reader does, a read that
\* finds the file gone, and a URL that could not be renewed, which puts an
\* error in its place.
ReaderKeepsPlace ==
    [][page = "document" /\ ~(page' = "document" /\ frame' = frame)
         => \/ nonce' # nonce \/ view' = "left"
            \/ detail'.error = "missing" \/ content'.error # "none"]_vars

\* A URL is never left to expire: unless the computer slept or the last fetch
\* failed, the URL in hand is live or another one is being fetched.
UrlsAreRenewedInTime ==
    content.data # None /\ ~slept /\ content.error = "none"
      => content.data > now \/ content.call # "idle"

\* The header shows what the file is called and where it is once the tab's own
\* renames and moves are answered and read again, unless an answer was lost, the
\* last read failed, or a read that a rename overtook came after its answer.
HeaderFollows ==
    LET settled == detail.call = "idle" /\ write.call # "found" /\ behind # "shown" IN
    Shown \in {"error", "loading", "frame"} /\ file # None /\ settled
      => detail.data = file

\* A reload has a live URL, or one is asked for.
ReloadsHaveALiveUrl ==
    [][nonce' # nonce => content'.call # "idle" \/ (frame' # None /\ frame' > now)]_vars
=============================================================================
