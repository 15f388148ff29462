-------------------------- MODULE BrowserViews_proofs --------------------------
(***************************************************************************)
(* Machine-checked proofs about the two views that show what the query     *)
(* cache holds: FileViewer, for every set of names and folders, every      *)
(* lifetime of a URL and every length of the clock; and below it           *)
(* FolderView, for every set of rows and names, every size of a page and   *)
(* every set of writes.                                                    *)
(***************************************************************************)
EXTENDS FileViewer, FolderView, FiniteSetTheorems, WellFoundedInduction, TLAPS

USE ViewerAssumption

Stutter == UNCHANGED vars

\* The steps of Next, each with the render it causes.
LEMMA StepCases ==
  ASSUME [Next]_vars
  PROVE  \/ Stutter
         \/ /\ Paint
            /\ \/ Open \/ ServeDetail \/ DetailArrives \/ DetailFails
               \/ ServeUrl \/ UrlArrives \/ UrlFails \/ Renew
               \/ RetryDetail \/ Focus \/ ReloadPreview
               \/ \E nm \in Names : StartRename(nm)
               \/ \E d \in Folders : StartMove(d)
               \/ StartDelete \/ ServeWrite
               \/ RenameSucceeds \/ MoveSucceeds \/ DeleteSucceeds \/ WriteFails
               \/ DeleteElsewhere \/ Leave \/ Tick \/ Sleep
  BY DEF Next, QueryStep, OwnerStep, Stutter

-----------------------------------------------------------------------------
(* What the operations on a query do.                                      *)

LEMMA AskFacts ==
  ASSUME NEW Data, NEW q \in Query(Data)
  PROVE  /\ Ask(q) \in Query(Data)
         /\ Ask(q).data = q.data /\ Ask(q).coming = q.coming
         /\ Ask(q).call # "idle"
         /\ Ask(q).call = "found" => q.call = "found"
         /\ q.data # None => Ask(q).error = q.error
         /\ Ask(q).error = "missing" => q.error = "missing"
         /\ Ask(q).error # "none" => q.error # "none"
  BY DEF Ask, Asked, Query, Calls

LEMMA RefetchFacts ==
  ASSUME NEW Data, NEW q \in Query(Data)
  PROVE  /\ Refetch(q) \in Query(Data)
         /\ Refetch(q).data = q.data /\ Refetch(q).coming = q.coming
         /\ Refetch(q).call # "idle"
         /\ Refetch(q).call = "found" => q.call = "found"
         /\ q.data # None => Refetch(q).error = q.error
         /\ Refetch(q).error = "missing" => q.error = "missing"
         /\ Refetch(q).error # "none" => q.error # "none"
  BY AskFacts DEF Refetch, Asked, Query, Calls

LEMMA ArrivedFacts ==
  ASSUME NEW Data, NEW q \in Query(Data), q.coming \in Data
  PROVE  /\ Arrived(q) \in Query(Data)
         /\ Arrived(q).data = q.coming
         /\ Arrived(q).error = "none" /\ Arrived(q).call = "idle"
  BY DEF Arrived, Query, Calls

LEMMA FailedFacts ==
  ASSUME NEW Data, NEW q \in Query(Data), NEW e \in {"missing", "other"}
  PROVE  /\ Failed(q, e) \in Query(Data)
         /\ Failed(q, e).data = q.data
         /\ Failed(q, e).error = e /\ Failed(q, e).call = "idle"
  BY DEF Failed, Query, Calls

LEMMA EnabledFacts ==
  ASSUME NEW Data, NEW q \in Query(Data), NEW was, NEW is
  PROVE  /\ Enabled(was, is, q) \in Query(Data)
         /\ Enabled(was, is, q).data = q.data /\ Enabled(was, is, q).coming = q.coming
         /\ Enabled(was, is, q).call = "idle" => q.call = "idle"
         /\ Enabled(was, is, q).call = "found" => q.call = "found"
         /\ q.data # None => Enabled(was, is, q).error = q.error
         /\ Enabled(was, is, q).error # "none" => q.error # "none"
  BY AskFacts DEF Enabled

LEMMA NoQueryFacts ==
  ASSUME NEW Data
  PROVE  /\ NoQuery \in Query(Data)
         /\ NoQuery.data = None /\ NoQuery.error = "none" /\ NoQuery.call = "idle"
  BY DEF NoQuery, Query, Calls

\* The timer of a URL that is live ends before the URL does, and not before now.
LEMMA RenewalDueFacts ==
  ASSUME NEW url \in Url, now \in 0 .. MaxTime
  PROVE  /\ RenewalDue(url) \in Url
         /\ RenewalDue(url) >= now
         /\ url > now => RenewalDue(url) < url
  BY DEF RenewalDue, Url

\* What "frame" on the screen means.
LEMMA ShownFrame ==
  Shown = "frame" <=> /\ view = "open"
                      /\ detail.error # "missing" /\ detail.data # None
                      /\ content.error = "none" /\ frame # None
  BY DEF Shown

\* A file whose name and place are on the screen is open and has metadata.
LEMMA ShownHeader ==
  ASSUME Shown \in {"error", "loading", "frame"}
  PROVE  view = "open" /\ detail.data # None
  BY DEF Shown

-----------------------------------------------------------------------------
(* The inductive invariant.                                                *)

\* Unless the computer slept: an answer under way brings a live URL, a timer is
\* not overdue, and a URL in hand has a timer that ends before it or a fetch.
RenewalIsDue ==
    ~slept =>
        /\ content.call = "found" => content.coming > now
        /\ timer # None => now <= timer
        /\ content.data # None /\ content.error = "none" /\ content.call = "idle"
              => timer # None /\ timer < content.data

\* A document is on the screen only in the frame.
DocumentIsFramed == page = "document" => Shown = "frame"

IInv == TypeOK /\ RenewalIsDue /\ DocumentIsFramed

LEMMA IInvInit == Init => IInv
<1> SUFFICES ASSUME Init PROVE IInv
  OBVIOUS
<1>1. detail \in Query(File) /\ detail.call = "idle"
  BY DEF Init, NoQuery, Query, Calls
<1>2. content \in Query(Url) /\ content.call = "idle" /\ content.data = None
  BY NoQueryFacts DEF Init
<1>3. write \in [op : {"none", "rename", "move", "delete"}, call : Calls, to : File \cup {None}]
      /\ write.op = "none"
  BY DEF Init, NoWrite, Calls
<1>4. TypeOK
  <2>1. slept \in BOOLEAN
    BY Zenon DEF Init
  <2>2. now \in 0 .. MaxTime
    BY DEF Init
  <2> QED
    BY <1>1, <1>2, <1>3, <2>1, <2>2, Zenon DEF Init, TypeOK
<1>5. RenewalIsDue /\ DocumentIsFramed
  BY <1>2 DEF Init, RenewalIsDue, DocumentIsFramed
<1> QED
  BY <1>4, <1>5 DEF IInv

\* Paint keeps the page's type and its place.
LEMMA PaintKeeps ==
  ASSUME TypeOK, Paint
  PROVE  page' \in {"none", "document", "blank"} /\ DocumentIsFramed'
  BY DEF Paint, TypeOK, DocumentIsFramed

\* The metadata's steps.
LEMMA DetailSteps ==
  ASSUME TypeOK, Paint,
         Open \/ ServeDetail \/ DetailArrives \/ DetailFails \/ RetryDetail
  PROVE  TypeOK'
<1>1. detail \in Query(File) /\ content \in Query(Url)
  BY DEF TypeOK
<1>2. page' \in {"none", "document", "blank"}
  BY PaintKeeps
<1>3. CASE Open
  <2>1. detail' \in Query(File) /\ (detail'.call = "found" => detail'.coming \in File)
    BY <1>1, <1>3, AskFacts DEF Open, TypeOK
  <2>2. content' \in Query(Url) /\ (content'.call = "found" => content'.coming \in Url)
    BY <1>1, <1>3, EnabledFacts DEF Open, TypeOK
  <2> QED
    BY <1>2, <1>3, <2>1, <2>2 DEF Open, TypeOK
<1>4. CASE ServeDetail
  <2>1. detail' \in Query(File) /\ (detail'.call = "found" => detail'.coming \in File)
    BY <1>1, <1>4 DEF ServeDetail, TypeOK, Query, Calls
  <2> QED
    BY <1>2, <1>4, <2>1 DEF ServeDetail, TypeOK
<1>5. CASE DetailArrives
  <2>1. detail' \in Query(File) /\ detail'.call = "idle"
    BY <1>1, <1>5, ArrivedFacts, FailedFacts DEF DetailArrives, TypeOK
  <2>2. content' \in Query(Url) /\ (content'.call = "found" => content'.coming \in Url)
    BY <1>1, <1>5, EnabledFacts DEF DetailArrives, TypeOK
  <2> QED
    BY <1>2, <1>5, <2>1, <2>2 DEF DetailArrives, TypeOK
<1>6. CASE DetailFails
  <2>1. detail' \in Query(File) /\ detail'.call = "idle"
    BY <1>1, <1>6, FailedFacts DEF DetailFails
  <2> QED
    BY <1>2, <1>6, <2>1 DEF DetailFails, TypeOK
<1>7. CASE RetryDetail
  <2>1. detail' \in Query(File) /\ (detail'.call = "found" => detail'.coming \in File)
    BY <1>1, <1>7, AskFacts DEF RetryDetail, TypeOK
  <2> QED
    BY <1>2, <1>7, <2>1 DEF RetryDetail, TypeOK
<1> QED
  BY <1>3, <1>4, <1>5, <1>6, <1>7

\* The URL's steps.
LEMMA UrlSteps ==
  ASSUME TypeOK, Paint,
         ServeUrl \/ UrlArrives \/ UrlFails \/ Renew \/ Focus \/ ReloadPreview
  PROVE  TypeOK'
<1>1. detail \in Query(File) /\ content \in Query(Url) /\ now \in 0 .. MaxTime
  BY DEF TypeOK
<1>2. page' \in {"none", "document", "blank"}
  BY PaintKeeps
<1>3. CASE ServeUrl
  <2>1. now + UrlTtl \in Url
    BY <1>1 DEF Url
  <2>2. content' \in Query(Url) /\ (content'.call = "found" => content'.coming \in Url)
    BY <1>1, <1>3, <2>1 DEF ServeUrl, TypeOK, Query, Calls
  <2> QED
    BY <1>2, <1>3, <2>2 DEF ServeUrl, TypeOK
<1>4. CASE UrlArrives
  <2>1. content.coming \in Url
    BY <1>4 DEF UrlArrives, TypeOK
  <2>2. content' \in Query(Url) /\ content'.call = "idle"
    BY <1>1, <1>4, <2>1, ArrivedFacts DEF UrlArrives
  <2>3. timer' \in Url
    BY <1>1, <1>4, <2>1, RenewalDueFacts DEF UrlArrives
  <2>4. frame' \in Url \cup {None}
    BY <1>4, <2>1 DEF UrlArrives, Pointed, TypeOK
  <2> QED
    BY <1>2, <1>4, <2>2, <2>3, <2>4 DEF UrlArrives, TypeOK
<1>5. CASE UrlFails
  <2>1. content' \in Query(Url) /\ content'.call = "idle"
    BY <1>1, <1>5, FailedFacts DEF UrlFails
  <2> QED
    BY <1>2, <1>5, <2>1 DEF UrlFails, TypeOK
<1>6. CASE Renew
  <2>1. content' \in Query(Url) /\ (content'.call = "found" => content'.coming \in Url)
    BY <1>1, <1>6, RefetchFacts DEF Renew, TypeOK
  <2> QED
    BY <1>2, <1>6, <2>1 DEF Renew, TypeOK
<1>7. CASE Focus
  <2>1. detail' \in Query(File) /\ (detail'.call = "found" => detail'.coming \in File)
    BY <1>1, <1>7, AskFacts DEF Focus, TypeOK
  <2>2. content' \in Query(Url) /\ (content'.call = "found" => content'.coming \in Url)
    BY <1>1, <1>7, AskFacts DEF Focus, TypeOK
  <2> QED
    BY <1>2, <1>7, <2>1, <2>2 DEF Focus, TypeOK
<1>8. CASE ReloadPreview
  <2>1. content' \in Query(Url) /\ (content'.call = "found" => content'.coming \in Url)
    BY <1>1, <1>8, RefetchFacts DEF ReloadPreview, TypeOK
  <2>2. frame' \in Url \cup {None}
    BY <1>1, <1>8 DEF ReloadPreview, Query
  <2> QED
    BY <1>2, <1>8, <2>1, <2>2 DEF ReloadPreview, TypeOK
<1> QED
  BY <1>3, <1>4, <1>5, <1>6, <1>7, <1>8

\* The owner's writes.
LEMMA WriteSteps ==
  ASSUME TypeOK, Paint,
         \/ \E nm \in Names : StartRename(nm)
         \/ \E d \in Folders : StartMove(d)
         \/ StartDelete \/ ServeWrite \/ WriteFails
         \/ RenameSucceeds \/ MoveSucceeds \/ DeleteSucceeds
  PROVE  TypeOK'
<1>1. /\ detail \in Query(File) /\ content \in Query(Url)
      /\ file \in File \cup {None} /\ detail.data \in File \cup {None}
      /\ write \in [op : {"none", "rename", "move", "delete"}, call : Calls, to : File \cup {None}]
      /\ write.op \in {"rename", "move"} => write.to \in File
  BY DEF TypeOK, Query
<1>2. page' \in {"none", "document", "blank"}
  BY PaintKeeps
<1>3. ASSUME NEW op \in {"rename", "move", "delete"}, NEW to \in File \cup {None},
             StartWrite(op, to), op \in {"rename", "move"} => to \in File
      PROVE  TypeOK'
  <2>1. /\ write' \in [op : {"none", "rename", "move", "delete"}, call : Calls, to : File \cup {None}]
        /\ write'.op \in {"rename", "move"} => write'.to \in File
    BY <1>3 DEF StartWrite, Calls
  <2> QED
    BY <1>2, <1>3, <2>1 DEF StartWrite, TypeOK
<1>4. ASSUME NEW nm \in Names, StartRename(nm) PROVE TypeOK'
  <2>1. [detail.data EXCEPT !.name = nm] \in File
    BY <1>1, <1>4 DEF StartRename, File
  <2> QED
    BY <1>3, <1>4, <2>1 DEF StartRename
<1>5. ASSUME NEW d \in Folders, StartMove(d) PROVE TypeOK'
  <2>1. [detail.data EXCEPT !.place = d] \in File
    BY <1>1, <1>5 DEF StartMove, File
  <2> QED
    BY <1>3, <1>5, <2>1 DEF StartMove
<1>6. CASE StartDelete
  BY <1>3, <1>6 DEF StartDelete
<1>7. CASE ServeWrite
  <2>1. file' \in File \cup {None}
    <3>1. CASE file = None
      BY <1>1, <1>7, <3>1 DEF ServeWrite
    <3>2. CASE file # None /\ write.op = "rename"
      BY <1>1, <1>7, <3>2 DEF ServeWrite, File
    <3>3. CASE file # None /\ write.op = "move"
      BY <1>1, <1>7, <3>3 DEF ServeWrite, File
    <3>4. CASE file # None /\ write.op \notin {"rename", "move"}
      BY <1>7, <3>4 DEF ServeWrite
    <3> QED
      BY <3>1, <3>2, <3>3, <3>4
  <2>2. /\ write' \in [op : {"none", "rename", "move", "delete"}, call : Calls, to : File \cup {None}]
        /\ write'.op = write.op /\ write'.to = write.to
    BY <1>1, <1>7 DEF ServeWrite, Calls
  <2> QED
    BY <1>1, <1>2, <1>7, <2>1, <2>2 DEF ServeWrite, TypeOK
<1>8. /\ NoWrite \in [op : {"none", "rename", "move", "delete"}, call : Calls, to : File \cup {None}]
      /\ NoWrite.op = "none"
  BY DEF NoWrite, Calls
<1>9. CASE WriteFails
  BY <1>2, <1>8, <1>9 DEF WriteFails, TypeOK
<1>10. CASE RenameSucceeds
  <2>1. detail' \in Query(File) /\ (detail'.call = "found" => detail'.coming \in File)
    <3>1. CASE detail.data = None
      BY <1>1, <1>10, <3>1 DEF RenameSucceeds, TypeOK
    <3>2. CASE detail.data # None
      <4>1. [detail.data EXCEPT !.name = write.to.name] \in File
        BY <1>1, <1>10, <3>2 DEF RenameSucceeds, File
      <4> QED
        BY <1>1, <1>10, <3>2, <4>1 DEF RenameSucceeds, TypeOK, Query
    <3> QED
      BY <3>1, <3>2
  <2>2. content' \in Query(Url) /\ (content'.call = "found" => content'.coming \in Url)
    BY <1>1, <1>10, EnabledFacts DEF RenameSucceeds, TypeOK
  <2> QED
    BY <1>2, <1>8, <1>10, <2>1, <2>2 DEF RenameSucceeds, TypeOK
<1>11. CASE MoveSucceeds
  <2>1. detail' \in Query(File) /\ (detail'.call = "found" => detail'.coming \in File)
    BY <1>1, <1>11, RefetchFacts DEF MoveSucceeds, TypeOK
  <2> QED
    BY <1>2, <1>8, <1>11, <2>1 DEF MoveSucceeds, TypeOK
<1>12. CASE DeleteSucceeds
  BY <1>2, <1>8, <1>12, NoQueryFacts DEF DeleteSucceeds, TypeOK
<1> QED
  BY <1>4, <1>5, <1>6, <1>7, <1>9, <1>10, <1>11, <1>12

\* What happens outside the tab, and its end.
LEMMA OtherSteps ==
  ASSUME TypeOK, Paint, DeleteElsewhere \/ Leave \/ Tick \/ Sleep
  PROVE  TypeOK'
<1>1. page' \in {"none", "document", "blank"}
  BY PaintKeeps
<1>2. CASE DeleteElsewhere
  BY <1>1, <1>2 DEF DeleteElsewhere, TypeOK
<1>3. CASE Leave
  <2>1. NoWrite \in [op : {"none", "rename", "move", "delete"}, call : Calls, to : File \cup {None}]
        /\ NoWrite.op = "none"
    BY DEF NoWrite, Calls
  <2> QED
    BY <1>1, <1>3, <2>1, NoQueryFacts DEF Leave, TypeOK
<1>4. CASE Tick
  <2>1. now' \in 0 .. MaxTime
    BY <1>4 DEF Tick, TypeOK
  <2> QED
    BY <1>1, <1>4, <2>1 DEF Tick, TypeOK
<1>5. CASE Sleep
  <2>1. now' \in 0 .. MaxTime
    BY <1>5 DEF Sleep, TypeOK
  <2> QED
    BY <1>1, <1>5, <2>1 DEF Sleep, TypeOK
<1> QED
  BY <1>2, <1>3, <1>4, <1>5

LEMMA TypeOKStep == TypeOK /\ [Next]_vars => TypeOK'
<1> SUFFICES ASSUME TypeOK, [Next]_vars PROVE TypeOK'
  OBVIOUS
<1>1. CASE Stutter
  BY <1>1 DEF Stutter, vars, TypeOK
<1> QED
  BY <1>1, StepCases, DetailSteps, UrlSteps, WriteSteps, OtherSteps

-----------------------------------------------------------------------------
(* Renewals.                                                               *)

\* A step that leaves the clock and the timer alone, brings no answer and keeps
\* the URL, and ends no call of it, leaves a renewal due.
LEMMA RenewalKept ==
  ASSUME RenewalIsDue,
         now' = now, slept' = slept, timer' = timer,
         content'.call = "found" => content.call = "found" /\ content'.coming = content.coming,
         content'.data = content.data,
         content'.call = "idle" => content.call = "idle",
         content'.data # None /\ content'.error = "none" => content.error = "none"
  PROVE  RenewalIsDue'
  BY DEF RenewalIsDue

LEMMA RenewalIsDueStep ==
  ASSUME TypeOK, RenewalIsDue, [Next]_vars
  PROVE  RenewalIsDue'
<1>1. /\ detail \in Query(File) /\ content \in Query(Url) /\ now \in 0 .. MaxTime
      /\ timer \in Url \cup {None}
  BY DEF TypeOK
<1>2. CASE Stutter
  BY <1>2 DEF Stutter, vars, RenewalIsDue
<1>3. CASE Open \/ DetailArrives \/ RenameSucceeds
  <2>1. /\ content'.data = content.data /\ content'.coming = content.coming
        /\ content'.call = "idle" => content.call = "idle"
        /\ content'.call = "found" => content.call = "found"
        /\ content.data # None => content'.error = content.error
    BY <1>1, <1>3, EnabledFacts DEF Open, DetailArrives, RenameSucceeds
  <2> QED
    BY <1>3, <2>1, RenewalKept DEF Open, DetailArrives, RenameSucceeds
<1>4. CASE \/ ServeDetail \/ DetailFails \/ RetryDetail
           \/ (\E nm \in Names : StartRename(nm)) \/ (\E d \in Folders : StartMove(d))
           \/ StartDelete \/ ServeWrite \/ MoveSucceeds \/ WriteFails \/ DeleteElsewhere
  <2>1. UNCHANGED <<now, slept, timer, content>>
    BY <1>4 DEF ServeDetail, DetailFails, RetryDetail, StartRename, StartMove, StartDelete,
                StartWrite, ServeWrite, MoveSucceeds, WriteFails, DeleteElsewhere
  <2> QED
    BY <2>1 DEF RenewalIsDue
<1>5. CASE ServeUrl
  <2>1. /\ content'.data = content.data /\ content'.call # "idle"
        /\ content'.call = "found" => content'.coming = now + UrlTtl
    BY <1>1, <1>5 DEF ServeUrl, Query
  <2>2. now + UrlTtl > now
    BY <1>1
  <2>3. now' = now /\ slept' = slept /\ timer' = timer
    BY <1>5 DEF ServeUrl
  <2> QED
    BY <2>1, <2>2, <2>3 DEF RenewalIsDue
<1>6. CASE UrlArrives
  <2>1. content.coming \in Url /\ content.call = "found"
    BY <1>6 DEF UrlArrives, TypeOK
  <2>2. content'.data = content.coming /\ content'.call = "idle"
    BY <1>1, <1>6, <2>1, ArrivedFacts DEF UrlArrives
  <2>3. /\ timer' \in Url /\ timer' >= now
        /\ content.coming > now => timer' < content.coming
    BY <1>1, <1>6, <2>1, RenewalDueFacts DEF UrlArrives
  <2>4. now' = now /\ slept' = slept
    BY <1>6 DEF UrlArrives
  <2> QED
    BY <1>1, <2>1, <2>2, <2>3, <2>4 DEF RenewalIsDue, Url
<1>7. CASE UrlFails
  <2>1. content'.error = "other" /\ content'.call = "idle"
    BY <1>1, <1>7, FailedFacts DEF UrlFails
  <2> QED
    BY <1>7, <2>1 DEF UrlFails, RenewalIsDue
<1>8. CASE Renew
  <2>1. /\ content'.call # "idle" /\ content'.coming = content.coming
        /\ content'.call = "found" => content.call = "found"
    BY <1>1, <1>8, RefetchFacts DEF Renew
  <2> QED
    BY <1>8, <2>1 DEF Renew, RenewalIsDue
<1>9. CASE Focus
  <2>1. CASE content' = content
    BY <1>9, <2>1 DEF Focus, RenewalIsDue
  <2>2. CASE content' = Ask(content)
    <3>1. /\ content'.call # "idle" /\ content'.coming = content.coming
          /\ content'.call = "found" => content.call = "found"
      BY <1>1, <2>2, AskFacts
    <3> QED
      BY <1>9, <3>1 DEF Focus, RenewalIsDue
  <2> QED
    BY <1>9, <2>1, <2>2 DEF Focus
<1>10. CASE ReloadPreview
  <2>1. CASE content' = content
    BY <1>10, <2>1 DEF ReloadPreview, RenewalIsDue
  <2>2. CASE content' = Refetch(content)
    <3>1. /\ content'.call # "idle" /\ content'.coming = content.coming
          /\ content'.call = "found" => content.call = "found"
      BY <1>1, <2>2, RefetchFacts
    <3> QED
      BY <1>10, <3>1 DEF ReloadPreview, RenewalIsDue
  <2> QED
    BY <1>10, <2>1, <2>2 DEF ReloadPreview
<1>11. CASE DeleteSucceeds \/ Leave
  <2>1. content'.data = None /\ content'.call = "idle" /\ timer' = None
    BY <1>11, NoQueryFacts DEF DeleteSucceeds, Leave
  <2> QED
    BY <2>1 DEF RenewalIsDue
<1>12. CASE Tick
  <2>1. /\ content.call = "found" => content.coming \in Url
        /\ now' = now + 1 /\ content' = content /\ timer' = timer /\ slept' = slept
    BY <1>12 DEF Tick, TypeOK
  <2>2. content.call = "found" => content.coming > now'
    BY <1>1, <1>12, <2>1 DEF Tick, Url
  <2>3. timer # None => now' <= timer
    BY <1>1, <1>12, <2>1 DEF Tick, Url
  <2> QED
    BY <2>1, <2>2, <2>3 DEF RenewalIsDue
<1>13. CASE Sleep
  BY <1>13 DEF Sleep, RenewalIsDue
<1> QED
  BY StepCases, <1>2, <1>3, <1>4, <1>5, <1>6, <1>7, <1>8, <1>9, <1>10, <1>11, <1>12, <1>13

LEMMA Invariance == Spec => []IInv
<1>1. IInv /\ [Next]_vars => IInv'
  <2> SUFFICES ASSUME IInv, [Next]_vars PROVE IInv'
    OBVIOUS
  <2>1. TypeOK' /\ RenewalIsDue'
    BY TypeOKStep, RenewalIsDueStep DEF IInv
  <2>2. DocumentIsFramed'
    <3>1. CASE Stutter
      BY <3>1 DEF Stutter, vars, IInv, DocumentIsFramed, Shown
    <3>2. CASE Paint
      BY <3>2, PaintKeeps DEF IInv
    <3> QED
      BY <3>1, <3>2, StepCases
  <2> QED
    BY <2>1, <2>2 DEF IInv
<1> QED
  BY <1>1, IInvInit, PTL DEF Spec

-----------------------------------------------------------------------------
(* The reader's place.                                                     *)

\* The document is still on the screen, in the frame as it was.
PlaceKept == page' = "document" /\ frame' = frame

\* Why it may not be: the reader, a file that is gone, an error in its place.
PlaceGivenUp ==
    \/ nonce' # nonce \/ view' = "left"
    \/ detail'.error = "missing" \/ content'.error # "none"

\* Paint keeps a document in a frame that neither moves nor goes.
LEMMA PaintKeepsDocument ==
  ASSUME IInv, Paint, page = "document", frame' = frame, nonce' = nonce,
         view' = "open", detail'.error # "missing", detail'.data # None, content'.error = "none"
  PROVE  PlaceKept
<1>1. Shown = "frame" /\ frame # None
  BY ShownFrame DEF IInv, DocumentIsFramed
<1>2. Shown' = "frame"
  BY <1>1 DEF Shown
<1> QED
  BY <1>1, <1>2, Zenon DEF Paint, PlaceKept

LEMMA PlaceStep ==
  ASSUME IInv, [Next]_vars, page = "document"
  PROVE  PlaceKept \/ PlaceGivenUp
<1>1. /\ detail \in Query(File) /\ content \in Query(Url) /\ nonce \in {0, 1}
      /\ None \notin File
  BY DEF IInv, TypeOK, File
<1>2. /\ view = "open" /\ detail.error # "missing" /\ detail.data # None
      /\ content.error = "none" /\ frame # None
  BY ShownFrame DEF IInv, DocumentIsFramed
<1>3. CASE Stutter
  BY <1>3 DEF Stutter, vars, PlaceKept
<1>4. CASE Open
  BY <1>2, <1>4 DEF Open
<1>5. CASE ReloadPreview
  BY <1>1, <1>5 DEF ReloadPreview, PlaceGivenUp
<1>6. CASE DeleteSucceeds \/ Leave
  BY <1>6 DEF DeleteSucceeds, Leave, PlaceGivenUp
<1>7. CASE UrlFails
  <2>1. content'.error = "other"
    BY <1>1, <1>7, FailedFacts DEF UrlFails
  <2> QED
    BY <2>1 DEF PlaceGivenUp
<1>8. ASSUME Paint, frame' = frame, nonce' = nonce, view' = "open",
             detail'.data # None
      PROVE  PlaceKept \/ PlaceGivenUp
  <2>1. CASE detail'.error = "missing" \/ content'.error # "none"
    BY <2>1 DEF PlaceGivenUp
  <2>2. CASE detail'.error # "missing" /\ content'.error = "none"
    BY <1>8, <2>2, PaintKeepsDocument
  <2> QED
    BY <2>1, <2>2
<1>9. CASE Paint /\ UrlArrives
  BY <1>2, <1>8, <1>9 DEF UrlArrives, Pointed
<1>10. CASE Paint /\ DetailArrives
  <2>1. CASE detail.call = "found"
    <3>1. detail'.data \in File
      BY <1>1, <1>10, <2>1, ArrivedFacts DEF DetailArrives, IInv, TypeOK
    <3> QED
      BY <1>1, <1>2, <1>8, <1>10, <3>1 DEF DetailArrives
  <2>2. CASE detail.call # "found"
    BY <1>1, <1>10, <2>2, FailedFacts DEF DetailArrives, PlaceGivenUp
  <2> QED
    BY <2>1, <2>2
<1>11. CASE Paint /\ DetailFails
  <2>1. detail'.data = detail.data
    BY <1>1, <1>11, FailedFacts DEF DetailFails
  <2> QED
    BY <1>2, <1>8, <1>11, <2>1 DEF DetailFails
<1>12. CASE Paint /\ (RetryDetail \/ Focus \/ MoveSucceeds)
  <2>1. detail'.data = detail.data
    BY <1>1, <1>12, AskFacts, RefetchFacts DEF RetryDetail, Focus, MoveSucceeds
  <2> QED
    BY <1>2, <1>8, <1>12, <2>1 DEF RetryDetail, Focus, MoveSucceeds
<1>13. CASE Paint /\ RenameSucceeds
  <2>1. detail'.data = [detail.data EXCEPT !.name = write.to.name]
    BY <1>1, <1>2, <1>13 DEF RenameSucceeds, Query
  <2>2. detail'.data \in File
    BY <1>1, <1>2, <1>13, <2>1 DEF RenameSucceeds, IInv, TypeOK, File, Query
  <2> QED
    BY <1>1, <1>2, <1>8, <1>13, <2>2 DEF RenameSucceeds
<1>14. CASE Paint /\ (\/ ServeDetail \/ ServeUrl \/ Renew \/ StartDelete \/ ServeWrite \/ WriteFails
                      \/ (\E nm \in Names : StartRename(nm)) \/ (\E d \in Folders : StartMove(d))
                      \/ DeleteElsewhere \/ Tick \/ Sleep)
  <2>1. detail'.data = detail.data
    BY <1>1, <1>14 DEF ServeDetail, ServeUrl, Renew, StartDelete, ServeWrite, WriteFails,
       StartRename, StartMove, StartWrite, DeleteElsewhere, Tick, Sleep, Query
  <2>2. frame' = frame /\ nonce' = nonce /\ view' = view
    BY <1>14 DEF ServeDetail, ServeUrl, Renew, StartDelete, ServeWrite, WriteFails,
       StartRename, StartMove, StartWrite, DeleteElsewhere, Tick, Sleep
  <2> QED
    BY <1>2, <1>8, <1>14, <2>1, <2>2
<1> QED
  BY StepCases, <1>3, <1>4, <1>5, <1>6, <1>7, <1>9, <1>10, <1>11, <1>12, <1>13, <1>14

-----------------------------------------------------------------------------
(* What the header shows.                                                  *)

\* What was read of the file is what it is, up to the answer of the tab's own
\* rename or move, which is on its way.
Trails(d) ==
    \/ d = file
    \/ /\ write.call = "found" /\ write.op = "rename"
       /\ file = [d EXCEPT !.name = write.to.name]
    \/ /\ write.call = "found" /\ write.op = "move"
       /\ file = [d EXCEPT !.place = write.to.place]

\* Only a file on the screen is written to.
WriteIsOnScreen == write.call # "idle" => view = "open" /\ detail.data # None

\* A write whose answer is on its way has been done, and the file is as it said.
WriteIsDone ==
    write.call = "found" /\ file # None =>
        \/ write.op = "rename" /\ file.name = write.to.name
        \/ write.op = "move" /\ file.place = write.to.place

\* A read that a write overtook is one that has its answer.
ComingIsFound == view # "left" /\ behind = "coming" => detail.call = "found"

\* The metadata in hand, and the metadata that is coming, trail the file by no
\* more than the answer under way, while nothing says otherwise.
ReadIsTrue ==
    view # "left" /\ file # None =>
        /\ detail.call # "missing"
        /\ detail.call = "idle" /\ behind # "shown" /\ detail.data # None => Trails(detail.data)
        /\ detail.call = "found" /\ behind # "coming" => Trails(detail.coming)

HeaderInv == WriteIsOnScreen /\ WriteIsDone /\ ComingIsFound /\ ReadIsTrue

LEMMA HeaderInvInit == Init => HeaderInv
<1> SUFFICES ASSUME Init PROVE HeaderInv
  OBVIOUS
<1>1. detail.call = "idle" /\ (detail.data = None \/ detail.data = file)
  BY DEF Init, NoQuery
<1>2. write.call = "idle" /\ behind = "no"
  BY DEF Init, NoWrite
<1> QED
  BY <1>1, <1>2 DEF HeaderInv, WriteIsOnScreen, WriteIsDone, ComingIsFound, ReadIsTrue, Trails

\* Asking for the metadata, or leaving it alone, takes nothing away.
LEMMA AskKeepsHeader ==
  ASSUME TypeOK, HeaderInv, UNCHANGED <<file, write, behind>>,
         view' = view \/ (view = "closed" /\ view' = "open"),
         detail' = detail \/ detail' = Ask(detail)
  PROVE  HeaderInv'
<1>1. detail \in Query(File)
  BY DEF TypeOK
<1>2. \/ detail' = detail
      \/ detail'.call = "asked" /\ detail'.data = detail.data /\ detail.call = "idle"
  BY <1>1 DEF Ask, Asked, Query
<1>3. ASSUME NEW d, Trails(d) PROVE Trails(d)'
  BY <1>3 DEF Trails
<1> QED
  BY <1>2, <1>3 DEF HeaderInv, WriteIsOnScreen, WriteIsDone, ComingIsFound, ReadIsTrue, Trails

\* The steps that leave the metadata and the write alone, or only ask.
LEMMA QuietKeepsHeader ==
  ASSUME TypeOK, HeaderInv,
         \/ Stutter \/ Open \/ RetryDetail \/ Focus \/ ServeUrl \/ UrlArrives \/ UrlFails
         \/ Renew \/ ReloadPreview \/ Tick \/ Sleep
  PROVE  HeaderInv'
<1>1. UNCHANGED <<file, write, behind>>
  BY DEF Stutter, vars, Open, RetryDetail, Focus, ServeUrl, UrlArrives, UrlFails, Renew,
         ReloadPreview, Tick, Sleep
<1>2. view' = view \/ (view = "closed" /\ view' = "open")
  BY DEF Stutter, vars, Open, RetryDetail, Focus, ServeUrl, UrlArrives, UrlFails, Renew,
         ReloadPreview, Tick, Sleep
<1>3. detail' = detail \/ detail' = Ask(detail)
  BY DEF Stutter, vars, Open, RetryDetail, Focus, ServeUrl, UrlArrives, UrlFails, Renew,
         ReloadPreview, Tick, Sleep
<1> QED
  BY <1>1, <1>2, <1>3, AskKeepsHeader

\* The answers to a read of the metadata.
LEMMA ReadKeepsHeader ==
  ASSUME TypeOK, HeaderInv, ServeDetail \/ DetailArrives \/ DetailFails
  PROVE  HeaderInv'
<1>1. detail \in Query(File) /\ (detail.call = "found" => detail.coming \in File)
  BY DEF TypeOK
<1>2. /\ UNCHANGED <<file, write, view>>
      /\ WriteIsDone'
  BY DEF ServeDetail, DetailArrives, DetailFails, HeaderInv, WriteIsDone
<1>3. ASSUME NEW d, Trails(d) PROVE Trails(d)'
  BY <1>2, <1>3 DEF Trails
<1>4. CASE ServeDetail
  <2>1. /\ detail'.data = detail.data /\ detail'.coming = file /\ behind' = behind
        /\ detail'.call = IF file = None THEN "missing" ELSE "found"
        /\ detail.call = "asked"
    BY <1>1, <1>4 DEF ServeDetail, Query
  <2>2. Trails(file)
    BY DEF Trails
  <2> QED
    BY <1>2, <1>3, <2>1, <2>2 DEF HeaderInv, WriteIsOnScreen, ComingIsFound, ReadIsTrue, Trails
<1>5. CASE DetailArrives
  <2>1. CASE detail.call = "found"
    <3>1. /\ detail'.data = detail.coming /\ detail'.data # None /\ detail'.call = "idle"
          /\ behind = "coming" => behind' = "shown"
          /\ behind' # "coming"
      BY <1>1, <1>5, <2>1, ArrivedFacts DEF DetailArrives, File
    <3>2. PICK d \in File : d = detail.coming
      BY <1>1, <2>1
    <3>3. view # "left" /\ file # None /\ behind # "coming" => Trails(d)'
      BY <1>3, <2>1, <3>2 DEF HeaderInv, ReadIsTrue
    <3>4. view' # "left" /\ file' # None /\ behind' # "shown" => Trails(detail.data)'
      BY <1>2, <3>1, <3>2, <3>3 DEF Trails
    <3> QED
      BY <1>2, <3>1, <3>4 DEF HeaderInv, WriteIsOnScreen, ComingIsFound, ReadIsTrue
  <2>2. CASE detail.call = "missing"
    <3>1. detail'.data = detail.data /\ detail'.call = "idle" /\ behind' # "coming"
      BY <1>1, <1>5, <2>2, FailedFacts DEF DetailArrives
    <3>2. file = None
      BY <1>5, <2>2 DEF DetailArrives, HeaderInv, ReadIsTrue
    <3> QED
      BY <1>2, <3>1, <3>2 DEF HeaderInv, WriteIsOnScreen, ComingIsFound, ReadIsTrue
  <2> QED
    BY <1>5, <2>1, <2>2 DEF DetailArrives
<1>6. CASE DetailFails
  <2>1. detail'.data = detail.data /\ detail'.call = "idle" /\ behind' = "shown"
    BY <1>1, <1>6, FailedFacts DEF DetailFails
  <2> QED
    BY <1>2, <2>1 DEF HeaderInv, WriteIsOnScreen, ComingIsFound, ReadIsTrue
<1> QED
  BY <1>4, <1>5, <1>6

\* A write that starts, and a write that the API does.
LEMMA AskWriteKeepsHeader ==
  ASSUME TypeOK, HeaderInv,
         \/ \E nm \in Names : StartRename(nm)
         \/ \E d \in Folders : StartMove(d)
         \/ StartDelete
  PROVE  HeaderInv'
<1>1. /\ UNCHANGED <<file, view, detail, behind>>
      /\ write.call = "idle" /\ write'.call = "asked"
      /\ Shown \in {"error", "loading", "frame"}
  BY DEF StartRename, StartMove, StartDelete, StartWrite
<1>2. view = "open" /\ detail.data # None
  BY <1>1, ShownHeader
<1>3. ASSUME NEW d, Trails(d) PROVE Trails(d)'
  BY <1>1, <1>3 DEF Trails
<1> QED
  BY <1>1, <1>2, <1>3 DEF HeaderInv, WriteIsOnScreen, WriteIsDone, ComingIsFound, ReadIsTrue, Trails

LEMMA ServeWriteKeepsHeader ==
  ASSUME TypeOK, HeaderInv, ServeWrite
  PROVE  HeaderInv'
<1>1. /\ UNCHANGED <<view, detail, behind>>
      /\ write.call = "asked"
      /\ write'.op = write.op /\ write'.to = write.to /\ write'.call # "idle"
      /\ file \in File \cup {None}
  BY DEF ServeWrite, TypeOK, Calls
<1>2. WriteIsOnScreen' /\ ComingIsFound'
  BY <1>1 DEF HeaderInv, WriteIsOnScreen, ComingIsFound
<1>3. CASE file' = None
  BY <1>2, <1>3 DEF HeaderInv, WriteIsDone, ReadIsTrue
<1>4. CASE file' # None
  <2>1. file \in File /\ write'.call = "found"
    BY <1>1, <1>4 DEF ServeWrite, TypeOK
  <2>2. \/ /\ write.op = "rename" /\ file' = [file EXCEPT !.name = write.to.name]
        \/ /\ write.op = "move" /\ file' = [file EXCEPT !.place = write.to.place]
    BY <1>4, <2>1 DEF ServeWrite
  <2>3. WriteIsDone'
    BY <1>1, <2>1, <2>2 DEF WriteIsDone, File
  <2>4. ASSUME NEW d, Trails(d) PROVE Trails(d)'
    BY <1>1, <2>1, <2>2, <2>4 DEF Trails
  <2>5. ReadIsTrue'
    <3>1. file # None
      BY <2>1 DEF File
    <3> QED
      BY <1>1, <2>4, <3>1 DEF HeaderInv, ReadIsTrue, Trails
  <2> QED
    BY <1>2, <2>3, <2>5 DEF HeaderInv
<1> QED
  BY <1>3, <1>4

\* The answers to a write: the rename that is written into the metadata, the
\* move that has it read again, the deletion that leaves, and the one lost.
LEMMA RenameKeepsHeader ==
  ASSUME TypeOK, HeaderInv, RenameSucceeds
  PROVE  HeaderInv'
<1>1. /\ detail \in Query(File) /\ (detail.call = "found" => detail.coming \in File)
      /\ file \in File \cup {None} /\ detail.data \in File \cup {None}
  BY DEF TypeOK, Query
<1>2. /\ view = "open" /\ write.op = "rename" /\ write.call = "found"
      /\ detail.data # None /\ detail.data \in File
      /\ UNCHANGED <<file, view>> /\ write' = NoWrite /\ write'.call = "idle"
  BY <1>1 DEF RenameSucceeds, NoWrite, HeaderInv, WriteIsOnScreen
<1>3. /\ detail'.data = [detail.data EXCEPT !.name = write.to.name]
      /\ detail'.call = detail.call /\ detail'.coming = detail.coming
  BY <1>1, <1>2 DEF RenameSucceeds, Query
<1>4. behind' = IF detail.call = "found" /\ detail.coming.name # write.to.name
                THEN "coming" ELSE behind
  BY DEF RenameSucceeds
<1>5. WriteIsOnScreen' /\ WriteIsDone' /\ ComingIsFound'
  BY <1>2, <1>3, <1>4 DEF HeaderInv, WriteIsOnScreen, WriteIsDone, ComingIsFound
<1>6. ASSUME NEW d \in File, Trails(d), file # None
      PROVE  file = [d EXCEPT !.name = write.to.name]
  BY <1>1, <1>2, <1>6 DEF HeaderInv, WriteIsDone, Trails, File
<1>7. ASSUME view' # "left", file' # None PROVE ReadIsTrue'
  <2>1. file # None /\ detail.call # "missing"
    BY <1>2, <1>7 DEF HeaderInv, ReadIsTrue
  <2>2. ASSUME detail'.call = "idle", behind' # "shown" PROVE detail'.data = file'
    BY <1>2, <1>3, <1>4, <1>6, <2>1, <2>2 DEF HeaderInv, ReadIsTrue
  <2>3. ASSUME detail'.call = "found", behind' # "coming" PROVE detail'.coming = file'
    <3>1. Trails(detail.coming) /\ detail.coming.name = write.to.name /\ detail.coming \in File
      BY <1>1, <1>2, <1>3, <1>4, <2>1, <2>3 DEF HeaderInv, ReadIsTrue
    <3>2. [detail.coming EXCEPT !.name = write.to.name] = detail.coming
      BY <3>1 DEF File
    <3> QED
      BY <1>2, <1>3, <1>6, <2>1, <3>1, <3>2
  <2> QED
    BY <1>3, <2>1, <2>2, <2>3 DEF ReadIsTrue, Trails
<1> QED
  BY <1>5, <1>7 DEF HeaderInv, ReadIsTrue

LEMMA EndsKeepHeader ==
  ASSUME TypeOK, HeaderInv,
         MoveSucceeds \/ DeleteSucceeds \/ WriteFails \/ DeleteElsewhere \/ Leave
  PROVE  HeaderInv'
<1>1. detail \in Query(File)
  BY DEF TypeOK
<1>2. CASE MoveSucceeds
  <2>1. detail.data # None /\ write'.call = "idle" /\ view' = view
    BY <1>2 DEF MoveSucceeds, NoWrite, HeaderInv, WriteIsOnScreen
  <2>2. detail'.call = "asked" /\ behind' # "coming"
    BY <1>1, <1>2, <2>1 DEF MoveSucceeds, Refetch, Asked, Query
  <2> QED
    BY <2>1, <2>2 DEF HeaderInv, WriteIsOnScreen, WriteIsDone, ComingIsFound, ReadIsTrue
<1>3. CASE DeleteSucceeds \/ Leave
  <2>1. view' = "left" /\ write'.call = "idle"
    BY <1>3 DEF DeleteSucceeds, Leave, NoWrite
  <2> QED
    BY <2>1 DEF HeaderInv, WriteIsOnScreen, WriteIsDone, ComingIsFound, ReadIsTrue
<1>4. CASE WriteFails
  <2>1. /\ write'.call = "idle" /\ UNCHANGED <<file, view, detail>>
        /\ write.call # "found" => behind' = behind
        /\ write.call = "found" /\ detail.call = "found" => behind' = "coming"
        /\ write.call = "found" /\ detail.call # "found" => behind' = "shown"
    BY <1>4 DEF WriteFails, NoWrite
  <2>2. ASSUME NEW d, Trails(d), write.call # "found" PROVE Trails(d)'
    BY <2>1, <2>2 DEF Trails
  <2> QED
    BY <2>1, <2>2 DEF HeaderInv, WriteIsOnScreen, WriteIsDone, ComingIsFound, ReadIsTrue, Trails
<1>5. CASE DeleteElsewhere
  <2>1. file' = None /\ UNCHANGED <<view, detail, write, behind>>
    BY <1>5 DEF DeleteElsewhere
  <2> QED
    BY <2>1 DEF HeaderInv, WriteIsOnScreen, WriteIsDone, ComingIsFound, ReadIsTrue
<1> QED
  BY <1>2, <1>3, <1>4, <1>5

LEMMA HeaderInvStep ==
  ASSUME TypeOK, HeaderInv, [Next]_vars
  PROVE  HeaderInv'
BY StepCases, QuietKeepsHeader, ReadKeepsHeader, AskWriteKeepsHeader, ServeWriteKeepsHeader,
   RenameKeepsHeader, EndsKeepHeader

LEMMA HeaderInvariance == Spec => [](TypeOK /\ HeaderInv)
<1>1. Init => TypeOK /\ HeaderInv
  BY IInvInit, HeaderInvInit DEF IInv
<1>2. TypeOK /\ HeaderInv /\ [Next]_vars => (TypeOK /\ HeaderInv)'
  BY TypeOKStep, HeaderInvStep
<1> QED
  BY <1>1, <1>2, PTL DEF Spec

-----------------------------------------------------------------------------
(* The theorems.                                                           *)

\* The state of an open file keeps its types, whatever order its answers, its
\* timer and its owner come in.
THEOREM ViewerTypeCorrect == Spec => []TypeOK
<1>1. IInv => TypeOK
  BY DEF IInv
<1> QED
  BY <1>1, Invariance, PTL

\* useFileContentUrl: while the computer is awake and the last fetch succeeded,
\* the URL in hand is live or another one is being fetched, however long a URL
\* lives and however late the reader comes.
THEOREM UrlsRenewed == Spec => []UrlsAreRenewedInTime
<1>1. IInv => UrlsAreRenewedInTime
  <2> SUFFICES ASSUME IInv, content.data # None, ~slept, content.error = "none",
                      content.call = "idle"
               PROVE  content.data > now
    BY DEF UrlsAreRenewedInTime
  <2>1. timer # None /\ now <= timer /\ timer < content.data
    BY DEF IInv, RenewalIsDue
  <2>2. timer \in Url /\ content.data \in Url \cup {None} /\ now \in 0 .. MaxTime
    BY <2>1 DEF IInv, TypeOK, Query
  <2> QED
    BY <2>1, <2>2 DEF Url
<1> QED
  BY <1>1, Invariance, PTL

\* FileViewer's frame: renewals, focus, and the owner's renames and moves leave
\* a document where its reader is.
THEOREM ReadersKeepTheirPlace == Spec => ReaderKeepsPlace
<1>1. IInv /\ [Next]_vars =>
        [page = "document" /\ ~(page' = "document" /\ frame' = frame)
           => \/ nonce' # nonce \/ view' = "left"
              \/ detail'.error = "missing" \/ content'.error # "none"]_vars
  BY PlaceStep DEF PlaceKept, PlaceGivenUp
<1> QED
  BY <1>1, Invariance, PTL DEF Spec, ReaderKeepsPlace

\* FileViewer's header, useRenameFile and useMoveFile: once the tab's renames
\* and moves are answered and read again, the header has the name and the place
\* the API has, unless an answer was lost, the last read failed, or a read that
\* a rename overtook came after its answer; for all names and all folders.
THEOREM HeaderIsRight == Spec => []HeaderFollows
<1>1. TypeOK /\ HeaderInv => HeaderFollows
  <2> SUFFICES ASSUME TypeOK, HeaderInv, Shown \in {"error", "loading", "frame"}, file # None,
                      detail.call = "idle", write.call # "found", behind # "shown"
               PROVE  detail.data = file
    BY DEF HeaderFollows
  <2>1. view = "open" /\ detail.data # None
    BY ShownHeader
  <2> QED
    BY <2>1 DEF HeaderInv, ReadIsTrue, Trails
<1> QED
  BY <1>1, HeaderInvariance, PTL

HIDE ViewerAssumption

-----------------------------------------------------------------------------
(* FolderView.  Cursors: the order of the rows.                            *)

Rows == [Nodes -> RowNames \cup {NoName}]

\* What orders a row, when the rows are named as r says; a cursor is one row's.
KeyOf(r, n) == [kind |-> Kind[n], name |-> r[n], id |-> n]

Before(c, d) ==
    \/ c.kind < d.kind
    \/ c.kind = d.kind /\ (c.name < d.name \/ (c.name = d.name /\ c.id < d.id))

LEMMA KeyIsCursor ==
  ASSUME NEW r \in Rows, NEW n \in Nodes, r[n] # NoName
  PROVE  KeyOf(r, n) \in Cursor
BY ViewAssumption DEF KeyOf, Rows, Cursor

LEMMA CursorNumbers ==
  ASSUME NEW c \in Cursor
  PROVE  c.kind \in Nat /\ c.name \in Nat /\ c.id \in Nat
<1>1. c.kind \in Nat
  BY DEF Cursor
<1>2. c.name \in Nat
  BY ViewAssumption DEF Cursor
<1>3. c.id \in Nat
  BY ViewAssumption DEF Cursor
<1> QED
  BY <1>1, <1>2, <1>3

LEMMA BeforeIsAnOrder ==
  ASSUME NEW a \in Cursor, NEW b \in Cursor, NEW c \in Cursor
  PROVE  /\ ~Before(a, a)
         /\ Before(a, b) => ~Before(b, a)
         /\ Before(a, b) /\ Before(b, c) => Before(a, c)
         /\ a # b => Before(a, b) \/ Before(b, a)
<1>1. /\ a = [kind |-> a.kind, name |-> a.name, id |-> a.id]
      /\ b = [kind |-> b.kind, name |-> b.name, id |-> b.id]
  BY DEF Cursor
<1>2. /\ a.kind \in Nat /\ a.name \in Nat /\ a.id \in Nat
      /\ b.kind \in Nat /\ b.name \in Nat /\ b.id \in Nat
      /\ c.kind \in Nat /\ c.name \in Nat /\ c.id \in Nat
  BY CursorNumbers
<1>3. ~Before(a, a) /\ (Before(a, b) => ~Before(b, a))
  BY <1>2 DEF Before
<1>4. Before(a, b) /\ Before(b, c) => Before(a, c)
  BY <1>2 DEF Before
<1>5. a # b => Before(a, b) \/ Before(b, a)
  BY <1>1, <1>2 DEF Before
<1> QED
  BY <1>3, <1>4, <1>5

\* orderBy and afterChildCursor follow that order.
LEMMA ListingOrder ==
  ASSUME NEW n \in Nodes
  PROVE  /\ CursorOf(n) = KeyOf(row, n)
         /\ \A m \in Nodes : Precedes(m, n) <=> Before(KeyOf(row, m), KeyOf(row, n))
         /\ \A c \in Cursor : After(c, n) <=> Before(c, KeyOf(row, n))
<1>1. CursorOf(n) = KeyOf(row, n)
  BY DEF CursorOf, KeyOf
<1>2. \A m \in Nodes : Precedes(m, n) <=> Before(KeyOf(row, m), KeyOf(row, n))
  BY DEF Precedes, Before, KeyOf
<1>3. ASSUME NEW c \in Cursor PROVE After(c, n) <=> Before(c, KeyOf(row, n))
  BY DEF After, Before, KeyOf, Cursor
<1> QED
  BY <1>1, <1>2, <1>3

-----------------------------------------------------------------------------
(* A page: the first rows after a cursor.                                  *)

LEMMA LeastNatural ==
  ASSUME NEW T, T \subseteq Nat, T # {}
  PROVE  \E x \in T : \A y \in T : x <= y
<1>1. \E x \in T : \A y \in T : ~(<<y, x>> \in OpToRel(<, Nat))
  BY NatLessThanWellFounded, WFMin, Zenon
<1>2. \A x, y \in T : ~(<<y, x>> \in OpToRel(<, Nat)) => x <= y
  BY DEF OpToRel
<1> QED
  BY <1>1, <1>2

\* The rows of S that come before n.
Ahead(S, r, n) == {m \in S : Before(KeyOf(r, m), KeyOf(r, n))}

Named(S, r) == S \subseteq Nodes /\ \A n \in S : r[n] # NoName

LEMMA AheadCounts ==
  ASSUME NEW r \in Rows, NEW S, Named(S, r), NEW n \in S
  PROVE  /\ IsFiniteSet(S) /\ Cardinality(S) \in Nat
         /\ IsFiniteSet(Ahead(S, r, n)) /\ Cardinality(Ahead(S, r, n)) \in Nat
         /\ Cardinality(Ahead(S, r, n)) <= Cardinality(S)
<1>1. IsFiniteSet(S)
  <2>1. IsFiniteSet(Nodes)
    BY ViewAssumption
  <2> QED
    BY <2>1, FS_Subset DEF Named
<1>2. Ahead(S, r, n) \subseteq S
  BY DEF Ahead
<1> QED
  BY <1>1, <1>2, FS_Subset, FS_CardinalityType

LEMMA AheadGrows ==
  ASSUME NEW r \in Rows, NEW S, Named(S, r), NEW m \in S, NEW n \in S,
         Before(KeyOf(r, m), KeyOf(r, n))
  PROVE  Cardinality(Ahead(S, r, m)) < Cardinality(Ahead(S, r, n))
<1> DEFINE A == Ahead(S, r, m)
           B == Ahead(S, r, n)
<1>1. \A x \in S : KeyOf(r, x) \in Cursor
  BY KeyIsCursor DEF Named
<1>2. m \in B /\ m \notin A /\ A \subseteq B
  BY <1>1, BeforeIsAnOrder DEF Ahead
<1>3. IsFiniteSet(B) /\ Cardinality(A) \in Nat /\ Cardinality(B) \in Nat
  BY AheadCounts
<1>4. A \subseteq B \ {m}
  BY <1>2
<1>5. IsFiniteSet(B \ {m}) /\ Cardinality(B \ {m}) = Cardinality(B) - 1
  BY <1>2, <1>3, FS_RemoveElement
<1>6. Cardinality(A) <= Cardinality(B \ {m})
  BY <1>4, <1>5, FS_Subset
<1> QED
  BY <1>3, <1>5, <1>6

\* Some rows have a first and a last.
LEMMA FirstRow ==
  ASSUME NEW r \in Rows, NEW S, Named(S, r), S # {}
  PROVE  \E n \in S : Ahead(S, r, n) = {}
<1> DEFINE T == {Cardinality(Ahead(S, r, n)) : n \in S}
<1>1. T \subseteq Nat /\ T # {}
  BY AheadCounts
<1>2. PICK x \in T : \A y \in T : x <= y
  BY <1>1, LeastNatural
<1>3. PICK n \in S : x = Cardinality(Ahead(S, r, n))
  OBVIOUS
<1>4. ASSUME NEW m \in Ahead(S, r, n) PROVE FALSE
  <2>1. m \in S /\ Before(KeyOf(r, m), KeyOf(r, n))
    BY DEF Ahead
  <2>2. Cardinality(Ahead(S, r, m)) < x
    BY <1>3, <2>1, AheadGrows
  <2>3. Cardinality(Ahead(S, r, m)) \in T
    BY <2>1
  <2> QED
    BY <1>1, <1>2, <2>2, <2>3
<1> QED
  BY <1>4

LEMMA LastRow ==
  ASSUME NEW r \in Rows, NEW S, Named(S, r), S # {}
  PROVE  \E n \in S : Ahead(S, r, n) = S \ {n}
<1> DEFINE size(n) == Cardinality(Ahead(S, r, n))
           T == {Cardinality(S) - size(n) : n \in S}
<1>1. \A n \in S : size(n) \in Nat /\ Cardinality(S) \in Nat /\ size(n) <= Cardinality(S)
  BY AheadCounts
<1>2. T \subseteq Nat /\ T # {}
  BY <1>1
<1>3. PICK x \in T : \A y \in T : x <= y
  BY <1>2, LeastNatural
<1>4. PICK n \in S : x = Cardinality(S) - size(n)
  OBVIOUS
<1>5. ASSUME NEW m \in S \ {n} PROVE m \in Ahead(S, r, n)
  <2>1. SUFFICES ASSUME Before(KeyOf(r, n), KeyOf(r, m)) PROVE FALSE
    <3>1. KeyOf(r, m) \in Cursor /\ KeyOf(r, n) \in Cursor
      BY KeyIsCursor DEF Named
    <3>2. KeyOf(r, m) # KeyOf(r, n)
      BY DEF KeyOf
    <3> QED
      BY <3>1, <3>2, BeforeIsAnOrder DEF Ahead
  <2>2. size(n) < size(m)
    BY <2>1, AheadGrows
  <2>3. x <= Cardinality(S) - size(m)
    BY <1>3
  <2> QED
    BY <1>1, <1>4, <2>2, <2>3
<1>6. n \notin Ahead(S, r, n) /\ Ahead(S, r, n) \subseteq S
  <2>1. KeyOf(r, n) \in Cursor
    BY KeyIsCursor DEF Named
  <2> QED
    BY <2>1, BeforeIsAnOrder DEF Ahead
<1> QED
  BY <1>5, <1>6

\* Which rows come after c, and which of them fill the page.
Rest(r, c) == {n \in Nodes : r[n] # NoName /\ (c = NoCursor \/ Before(c, KeyOf(r, n)))}
Front(r, c) == {n \in Rest(r, c) : Cardinality(Ahead(Rest(r, c), r, n)) < PageLimit}

Has(p, n) == \E it \in p.items : it.id = n

LEMMA PageIsFront ==
  ASSUME NEW c \in Cursor \cup {NoCursor}
  PROVE  /\ Page(c).items = {[id |-> n, name |-> row[n]] : n \in Front(row, c)}
         /\ Page(c).next = IF Front(row, c) = Rest(row, c) THEN NoCursor
                           ELSE KeyOf(row, CHOOSE n \in Front(row, c) :
                                    Ahead(Rest(row, c), row, n) = Front(row, c) \ {n})
<1> DEFINE rest == {n \in Nodes : row[n] # NoName /\ (c = NoCursor \/ After(c, n))}
           before(n) == {m \in rest : Precedes(m, n)}
           shown == {n \in rest : Cardinality(before(n)) < PageLimit}
           last == CHOOSE n \in shown : before(n) = shown \ {n}
<1>1. rest = Rest(row, c)
  BY ListingOrder DEF Rest
<1>2. \A n \in rest : before(n) = Ahead(Rest(row, c), row, n)
  BY <1>1, ListingOrder DEF Ahead
<1>3. shown = Front(row, c)
  BY <1>1, <1>2 DEF Front
<1>4. last = CHOOSE n \in Front(row, c) : Ahead(Rest(row, c), row, n) = Front(row, c) \ {n}
  <2>1. \A n : (n \in shown /\ before(n) = shown \ {n})
           <=> (n \in Front(row, c) /\ Ahead(Rest(row, c), row, n) = Front(row, c) \ {n})
    BY <1>2, <1>3
  <2> HIDE DEF before, shown
  <2> QED
    BY <2>1, Zenon
<1>5. Page(c) = [items |-> {[id |-> n, name |-> row[n]] : n \in shown},
                 next |-> IF shown = rest THEN NoCursor ELSE CursorOf(last)]
  BY DEF Page
<1>6. Page(c).items = {[id |-> n, name |-> row[n]] : n \in shown}
      /\ Page(c).next = IF shown = rest THEN NoCursor ELSE CursorOf(last)
  BY <1>5
<1>7. CursorOf(last) = KeyOf(row, last)
  BY DEF CursorOf, KeyOf
<1> HIDE DEF rest, before, shown, last
<1> QED
  BY <1>1, <1>3, <1>4, <1>6, <1>7

\* The page is a first part of the rest, and ends with its last row.
LEMMA FrontIsInitial ==
  ASSUME NEW r \in Rows, NEW c \in Cursor \cup {NoCursor},
         NEW n \in Front(r, c), NEW m \in Rest(r, c), Before(KeyOf(r, m), KeyOf(r, n))
  PROVE  m \in Front(r, c)
<1> DEFINE S == Rest(r, c)
<1>1. Named(S, r) /\ n \in S
  BY DEF Named, Rest, Front
<1>2. Cardinality(Ahead(S, r, m)) < Cardinality(Ahead(S, r, n))
  BY <1>1, AheadGrows
<1>3. Cardinality(Ahead(S, r, m)) \in Nat /\ Cardinality(Ahead(S, r, n)) \in Nat
  BY <1>1, AheadCounts
<1> QED
  BY ViewAssumption, <1>2, <1>3 DEF Front

LEMMA FrontHasLast ==
  ASSUME NEW r \in Rows, NEW c \in Cursor \cup {NoCursor}, Front(r, c) # Rest(r, c)
  PROVE  \E n \in Front(r, c) : Ahead(Rest(r, c), r, n) = Front(r, c) \ {n}
<1> DEFINE S == Rest(r, c)
           F == Front(r, c)
<1>1. Named(S, r) /\ F \subseteq S /\ S # {} /\ Named(F, r)
  BY DEF Named, Rest, Front
<1>2. PICK f \in S : Ahead(S, r, f) = {}
  BY <1>1, FirstRow
<1>3. f \in F
  <2>1. PageLimit > 0
    BY ViewAssumption
  <2>2. Cardinality(Ahead(S, r, f)) = 0
    BY <1>2, FS_EmptySet
  <2> QED
    BY <2>1, <2>2 DEF Front
<1>4. PICK n \in F : Ahead(F, r, n) = F \ {n}
  BY <1>1, <1>3, LastRow
<1>5. Ahead(S, r, n) = Ahead(F, r, n)
  <2>1. Ahead(F, r, n) \subseteq Ahead(S, r, n)
    BY <1>1 DEF Ahead
  <2>2. \A m \in Ahead(S, r, n) : m \in F
    BY FrontIsInitial DEF Ahead
  <2> QED
    BY <2>1, <2>2 DEF Ahead
<1> QED
  BY <1>4, <1>5

LEMMA PageFacts ==
  ASSUME row \in Rows, NEW c \in Cursor \cup {NoCursor}
  PROVE  /\ Page(c) \in PageOf
         /\ \A it \in Page(c).items : it.name = row[it.id]
         /\ \A n \in Nodes : Has(Page(c), n) <=>
               /\ row[n] # NoName
               /\ c # NoCursor => Before(c, KeyOf(row, n))
               /\ Page(c).next # NoCursor => ~Before(Page(c).next, KeyOf(row, n))
         /\ c # NoCursor /\ Page(c).next # NoCursor => Before(c, Page(c).next)
<1> DEFINE S == Rest(row, c)
           F == Front(row, c)
           last == CHOOSE n \in F : Ahead(S, row, n) = F \ {n}
<1>1. Page(c).items = {[id |-> n, name |-> row[n]] : n \in F}
      /\ Page(c).next = IF F = S THEN NoCursor ELSE KeyOf(row, last)
  BY PageIsFront
<1>2. F # S => last \in F /\ Ahead(S, row, last) = F \ {last}
  BY FrontHasLast
<1>3. F \subseteq S /\ S \subseteq Nodes /\ \A n \in S : KeyOf(row, n) \in Cursor
  BY KeyIsCursor DEF Front, Rest
<1>4. \A n \in Nodes : Has(Page(c), n) <=> n \in F
  <2>1. Page(c).items = {[id |-> n, name |-> row[n]] : n \in F}
    BY <1>1
  <2> HIDE DEF F, S, last
  <2>2. \A n \in F : [id |-> n, name |-> row[n]] \in Page(c).items
    BY <2>1
  <2>3. \A it \in Page(c).items : it.id \in F
    BY <2>1
  <2> QED
    BY <2>2, <2>3 DEF Has
<1>5. F # S => /\ KeyOf(row, last) \in Cursor
               /\ KeyOf(row, last) # NoCursor
  BY ViewAssumption, <1>2, <1>3 DEF Cursor
<1>6. F # S => \A n \in F : ~Before(KeyOf(row, last), KeyOf(row, n))
  <2> SUFFICES ASSUME F # S, NEW n \in F PROVE ~Before(KeyOf(row, last), KeyOf(row, n))
    OBVIOUS
  <2>1. KeyOf(row, n) \in Cursor /\ KeyOf(row, last) \in Cursor
    BY <1>3, <1>5
  <2>2. n # last => Before(KeyOf(row, n), KeyOf(row, last))
    BY <1>2 DEF Ahead
  <2> QED
    BY <2>1, <2>2, BeforeIsAnOrder
<1>7. F # S => \A n \in S \ F : Before(KeyOf(row, last), KeyOf(row, n))
  <2> SUFFICES ASSUME F # S, NEW n \in S \ F PROVE Before(KeyOf(row, last), KeyOf(row, n))
    OBVIOUS
  <2>1. KeyOf(row, n) \in Cursor /\ KeyOf(row, last) \in Cursor
    BY <1>3, <1>5
  <2>2. ~Before(KeyOf(row, n), KeyOf(row, last))
    BY <1>2, FrontIsInitial
  <2>3. KeyOf(row, n) # KeyOf(row, last)
    BY <1>2 DEF KeyOf
  <2> QED
    BY <2>1, <2>2, <2>3, BeforeIsAnOrder
<1>8. \A n \in Nodes : n \in S <=> row[n] # NoName /\ (c # NoCursor => Before(c, KeyOf(row, n)))
  BY DEF Rest
<1>9. \A n \in Nodes : n \in F <=>
         n \in S /\ (Page(c).next # NoCursor => ~Before(Page(c).next, KeyOf(row, n)))
  <2> HIDE DEF S, F, last
  <2> QED
    BY <1>1, <1>3, <1>5, <1>6, <1>7
<1>10. Page(c) \in PageOf
  <2>1. Page(c).items \subseteq Item
    <3>1. \A n \in F : row[n] \in RowNames
      BY <1>3 DEF Rest, Rows
    <3> QED
      BY <1>1, <1>3, <3>1 DEF Item
  <2>2. Page(c).next \in Cursor \cup {NoCursor}
    BY <1>1, <1>5
  <2>3. Page(c) = [items |-> Page(c).items, next |-> Page(c).next]
    BY DEF Page
  <2> QED
    BY <2>1, <2>2, <2>3 DEF PageOf
<1>11. c # NoCursor /\ Page(c).next # NoCursor => Before(c, Page(c).next)
  BY <1>1, <1>2, <1>3, <1>8
<1> HIDE DEF last
<1> QED
  BY <1>1, <1>4, <1>8, <1>9, <1>10, <1>11

-----------------------------------------------------------------------------
(* The pages of a list follow each other, and a row that was not written   *)
(* since is on the page whose cursors enclose it.                          *)

Chained(p) ==
    \A i, j \in 1 .. Len(p) : i < j =>
        /\ p[i].next # NoCursor
        /\ p[j].next # NoCursor => Before(p[i].next, p[j].next)

OneItemEach(p) == \A i \in 1 .. Len(p) : \A a, b \in p[i].items : a.id = b.id => a = b

Within(r, p, i, n) ==
    /\ r[n] # NoName
    /\ i > 1 => Before(p[i - 1].next, KeyOf(r, n))
    /\ p[i].next # NoCursor => ~Before(p[i].next, KeyOf(r, n))

Covers(r, l) ==
    \A n \in Nodes \ l.written : \A i \in 1 .. Len(l.pages) :
        Has(l.pages[i], n) <=> Within(r, l.pages, i, n)

Good(r, l) == l \in Listing /\ Chained(l.pages) /\ OneItemEach(l.pages) /\ Covers(r, l)

\* What the list is asked for next, and what comes.
Extended(l) == [l EXCEPT !.pages = Append(@, Page(NextCursor(l)))]

GoesOn(l) == l.pages # << >> => NextCursor(l) # NoCursor

LEMMA UnloadedIsGood ==
  ASSUME NEW r
  PROVE  Good(r, Unloaded)
<1>1. Unloaded.pages = << >> /\ Unloaded.written = {} /\ Len(<< >>) = 0
  BY DEF Unloaded
<1>2. Unloaded \in Listing
  BY DEF Unloaded, Listing
<1> QED
  BY <1>1, <1>2 DEF Good, Chained, OneItemEach, Covers

LEMMA NextIsCursor ==
  ASSUME NEW l \in Listing
  PROVE  /\ NextCursor(l) \in Cursor \cup {NoCursor}
         /\ l.pages # << >> =>
               Len(l.pages) \in Nat \ {0} /\ NextCursor(l) = l.pages[Len(l.pages)].next
<1>1. l.pages \in Seq(PageOf)
  BY DEF Listing
<1>2. l.pages # << >> => Len(l.pages) \in Nat \ {0} /\ l.pages[Len(l.pages)] \in PageOf
  BY <1>1
<1>3. \A p \in PageOf : p.next \in Cursor \cup {NoCursor}
  BY DEF PageOf
<1> QED
  BY <1>2, <1>3 DEF NextCursor

\* The items of a list stay, and the page that was read comes after them.
LEMMA ExtendedPages ==
  ASSUME row \in Rows, NEW l \in Listing
  PROVE  /\ Extended(l) \in Listing
         /\ Extended(l).written = l.written
         /\ Len(Extended(l).pages) = Len(l.pages) + 1 /\ Len(l.pages) \in Nat
         /\ \A i \in 1 .. Len(l.pages) : Extended(l).pages[i] = l.pages[i]
         /\ Extended(l).pages[Len(l.pages) + 1] = Page(NextCursor(l))
<1> DEFINE fresh == Page(NextCursor(l))
<1>1. fresh \in PageOf
  BY NextIsCursor, PageFacts
<1>2. l.pages \in Seq(PageOf) /\ l.written \subseteq Nodes
  BY DEF Listing
<1>3. Extended(l).pages = Append(l.pages, fresh) /\ Extended(l).written = l.written
  BY DEF Extended, Listing
<1>4. Extended(l) = [pages |-> Append(l.pages, fresh), written |-> l.written]
  <2>1. l = [pages |-> l.pages, written |-> l.written]
    BY DEF Listing
  <2>2. Extended(l) = [l EXCEPT !.pages = Append(l.pages, fresh)]
    BY DEF Extended
  <2> HIDE DEF fresh
  <2> QED
    BY <2>1, <2>2
<1> HIDE DEF fresh
<1>5. Append(l.pages, fresh) \in Seq(PageOf)
  BY <1>1, <1>2
<1>6. Extended(l) \in Listing
  BY <1>2, <1>4, <1>5 DEF Listing
<1> QED
  BY <1>1, <1>2, <1>3, <1>6 DEF fresh

LEMMA ExtendedIsGood ==
  ASSUME row \in Rows, NEW l, Good(row, l), GoesOn(l)
  PROVE  Good(row, Extended(l))
<1> DEFINE g == Extended(l)
           k == Len(l.pages)
           c == NextCursor(l)
<1>1. l \in Listing /\ c \in Cursor \cup {NoCursor}
  BY NextIsCursor DEF Good
<1>2. /\ g \in Listing /\ g.written = l.written
      /\ Len(g.pages) = k + 1 /\ k \in Nat
      /\ \A i \in 1 .. k : g.pages[i] = l.pages[i]
      /\ g.pages[k + 1] = Page(c)
  BY <1>1, ExtendedPages
<1>3. /\ \A n \in Nodes : Has(Page(c), n) <=>
               /\ row[n] # NoName
               /\ c # NoCursor => Before(c, KeyOf(row, n))
               /\ Page(c).next # NoCursor => ~Before(Page(c).next, KeyOf(row, n))
      /\ c # NoCursor /\ Page(c).next # NoCursor => Before(c, Page(c).next)
      /\ Page(c) \in PageOf
      /\ \A it \in Page(c).items : it.name = row[it.id]
  BY <1>1, PageFacts
<1>4. k > 0 => c = l.pages[k].next /\ c # NoCursor
  BY <1>1, NextIsCursor DEF GoesOn, Listing
<1>5. k = 0 => c = NoCursor
  BY <1>1 DEF NextCursor, Listing
<1>6. \A i \in 1 .. k : l.pages[i].next \in Cursor \cup {NoCursor}
  <2>1. l.pages \in Seq(PageOf)
    BY <1>1 DEF Listing
  <2>2. \A i \in 1 .. k : l.pages[i] \in PageOf
    BY <2>1
  <2>3. \A p \in PageOf : p.next \in Cursor \cup {NoCursor}
    BY DEF PageOf
  <2> QED
    BY <2>2, <2>3
<1>7. Chained(l.pages) /\ OneItemEach(l.pages) /\ Covers(row, l)
  BY DEF Good
<1> HIDE DEF g, c
<1>8. Chained(g.pages)
  <2> SUFFICES ASSUME NEW i \in 1 .. k + 1, NEW j \in 1 .. k + 1, i < j
               PROVE  /\ g.pages[i].next # NoCursor
                      /\ g.pages[j].next # NoCursor => Before(g.pages[i].next, g.pages[j].next)
    BY <1>2 DEF Chained
  <2>1. i \in 1 .. k /\ g.pages[i] = l.pages[i] /\ l.pages[i].next \in Cursor \cup {NoCursor}
    BY <1>2, <1>6
  <2>2. l.pages[i].next # NoCursor
    BY <2>1, <1>2, <1>4, <1>7 DEF Chained
  <2>3. CASE j \in 1 .. k
    BY <2>1, <2>2, <2>3, <1>2, <1>7 DEF Chained
  <2>4. CASE j = k + 1
    <3>1. g.pages[j] = Page(c) /\ (Page(c).next \in Cursor \cup {NoCursor})
      BY <2>4, <1>2, <1>3 DEF PageOf
    <3>2. c \in Cursor /\ (i = k \/ Before(l.pages[i].next, c))
      <4>1. k \in 1 .. k /\ c = l.pages[k].next /\ c # NoCursor
        BY <2>1, <1>2, <1>4
      <4>2. i < k => Before(l.pages[i].next, c)
        BY <2>1, <4>1, <1>7 DEF Chained
      <4> QED
        BY <2>1, <4>1, <4>2, <1>1, <1>2
    <3>3. Page(c).next # NoCursor => Before(c, Page(c).next)
      BY ViewAssumption, <1>3, <3>2 DEF Cursor
    <3>4. Page(c).next # NoCursor => Before(l.pages[i].next, Page(c).next)
      BY <2>1, <2>2, <3>1, <3>2, <3>3, <1>4, BeforeIsAnOrder
    <3> QED
      BY <2>1, <2>2, <3>1, <3>4
  <2> QED
    BY <2>3, <2>4, <1>2
<1>9. OneItemEach(g.pages)
  <2> SUFFICES ASSUME NEW i \in 1 .. k + 1, NEW a \in g.pages[i].items, NEW b \in g.pages[i].items,
                      a.id = b.id
               PROVE  a = b
    BY <1>2 DEF OneItemEach
  <2>1. CASE i \in 1 .. k
    BY <2>1, <1>2, <1>7 DEF OneItemEach
  <2>2. CASE i = k + 1
    <3>1. a \in Item /\ b \in Item /\ a.name = b.name
      BY <2>2, <1>2, <1>3 DEF PageOf
    <3> QED
      BY <3>1 DEF Item
  <2> QED
    BY <2>1, <2>2, <1>2
<1>10. Covers(row, g)
  <2> SUFFICES ASSUME NEW n \in Nodes \ l.written, NEW i \in 1 .. k + 1
               PROVE  Has(g.pages[i], n) <=> Within(row, g.pages, i, n)
    BY <1>2 DEF Covers
  <2>1. CASE i \in 1 .. k
    <3>1. g.pages[i] = l.pages[i] /\ (i > 1 => g.pages[i - 1] = l.pages[i - 1])
      BY <2>1, <1>2
    <3>2. Has(l.pages[i], n) <=> Within(row, l.pages, i, n)
      BY <2>1, <1>7 DEF Covers
    <3> QED
      BY <3>1, <3>2 DEF Within
  <2>2. CASE i = k + 1
    <3>1. g.pages[i] = Page(c)
      BY <2>2, <1>2
    <3>2. IF i > 1 THEN c = g.pages[i - 1].next /\ c # NoCursor ELSE c = NoCursor
      BY <2>2, <1>2, <1>4, <1>5
    <3> QED
      BY <3>1, <3>2, <1>3 DEF Within
  <2> QED
    BY <2>1, <2>2, <1>2
<1> QED
  BY <1>2, <1>8, <1>9, <1>10 DEF Good, g

\* A name shown before the answer moves no item.
LEMMA RenamedPages ==
  ASSUME NEW l \in Listing, NEW n \in Nodes, NEW nm \in RowNames
  PROVE  /\ Renamed(l, n, nm) \in Listing
         /\ Renamed(l, n, nm).written = l.written
         /\ Len(Renamed(l, n, nm).pages) = Len(l.pages)
         /\ \A i \in 1 .. Len(l.pages) :
               /\ Renamed(l, n, nm).pages[i].next = l.pages[i].next
               /\ Renamed(l, n, nm).pages[i].items =
                     {IF it.id = n THEN [it EXCEPT !.name = nm] ELSE it : it \in l.pages[i].items}
<1> DEFINE items(i) == {IF it.id = n THEN [it EXCEPT !.name = nm] ELSE it : it \in l.pages[i].items}
           pages == [i \in 1 .. Len(l.pages) |-> [l.pages[i] EXCEPT !.items = items(i)]]
<1>1. l.pages \in Seq(PageOf) /\ l.written \subseteq Nodes
      /\ l = [pages |-> l.pages, written |-> l.written]
  BY DEF Listing
<1>2. \A i \in 1 .. Len(l.pages) : l.pages[i] \in PageOf
  BY <1>1
<1>3. ASSUME NEW i \in 1 .. Len(l.pages)
      PROVE  /\ pages[i] \in PageOf
             /\ pages[i].next = l.pages[i].next
             /\ pages[i].items = items(i)
  <2>1. l.pages[i].items \subseteq Item /\ l.pages[i].next \in Cursor \cup {NoCursor}
        /\ l.pages[i] = [items |-> l.pages[i].items, next |-> l.pages[i].next]
    BY <1>2 DEF PageOf
  <2>2. items(i) \subseteq Item
    <3>1. \A it \in Item : (IF it.id = n THEN [it EXCEPT !.name = nm] ELSE it) \in Item
      BY DEF Item
    <3> QED
      BY <2>1, <3>1
  <2>3. pages[i] = [l.pages[i] EXCEPT !.items = items(i)]
    OBVIOUS
  <2> HIDE DEF items, pages
  <2>4. pages[i] = [items |-> items(i), next |-> l.pages[i].next]
    BY <2>1, <2>3
  <2> QED
    BY <2>1, <2>2, <2>4 DEF PageOf
<1>4. Renamed(l, n, nm) = [l EXCEPT !.pages = pages]
  BY DEF Renamed
<1>5. pages \in [1 .. Len(l.pages) -> PageOf]
  BY <1>3
<1> HIDE DEF pages
<1>6. pages \in Seq(PageOf) /\ Len(pages) = Len(l.pages)
  BY <1>1, <1>5
<1>7. Renamed(l, n, nm) = [pages |-> pages, written |-> l.written]
  BY <1>1, <1>4
<1> QED
  BY <1>1, <1>3, <1>6, <1>7 DEF Listing

LEMMA RenamedIsGood ==
  ASSUME NEW r, NEW l, Good(r, l), NEW n \in Nodes, NEW nm \in RowNames
  PROVE  Good(r, Renamed(l, n, nm))
<1> DEFINE g == Renamed(l, n, nm)
           new(it) == IF it.id = n THEN [it EXCEPT !.name = nm] ELSE it
<1>1. l \in Listing /\ Chained(l.pages) /\ OneItemEach(l.pages) /\ Covers(r, l)
  BY DEF Good
<1>2. /\ g \in Listing
      /\ g.written = l.written
      /\ Len(g.pages) = Len(l.pages)
      /\ \A i \in 1 .. Len(l.pages) : g.pages[i].next = l.pages[i].next
                                      /\ g.pages[i].items = {new(it) : it \in l.pages[i].items}
  BY <1>1, RenamedPages
<1>3. \A i \in 1 .. Len(l.pages) : \A it \in l.pages[i].items : it \in Item
  <2>1. l.pages \in Seq(PageOf)
    BY <1>1 DEF Listing
  <2>2. \A i \in 1 .. Len(l.pages) : l.pages[i] \in PageOf
    BY <2>1
  <2>3. \A p \in PageOf : p.items \subseteq Item
    BY DEF PageOf
  <2> QED
    BY <2>2, <2>3
<1>4. \A it \in Item : new(it).id = it.id /\ (it.id = n => new(it).name = nm)
                       /\ (it.id # n => new(it) = it) /\ new(it) \in Item
  BY DEF Item
<1> HIDE DEF g, new
<1>5. Chained(g.pages)
  BY <1>1, <1>2 DEF Chained
<1>6. OneItemEach(g.pages)
  <2> SUFFICES ASSUME NEW i \in 1 .. Len(l.pages), NEW a \in l.pages[i].items,
                      NEW b \in l.pages[i].items, new(a).id = new(b).id
               PROVE  new(a) = new(b)
    BY <1>2 DEF OneItemEach
  <2>1. a \in Item /\ b \in Item
    BY <1>3
  <2>2. a = b
    BY <2>1, <1>1, <1>4 DEF OneItemEach
  <2> QED
    BY <2>2
<1>7. Covers(r, g)
  <2> SUFFICES ASSUME NEW m \in Nodes \ l.written, NEW i \in 1 .. Len(l.pages)
               PROVE  Has(g.pages[i], m) <=> Within(r, g.pages, i, m)
    BY <1>2 DEF Covers
  <2>1. Has(g.pages[i], m) <=> Has(l.pages[i], m)
    BY <1>2, <1>3, <1>4 DEF Has
  <2>2. i > 1 => i - 1 \in 1 .. Len(l.pages)
    BY <1>1 DEF Listing
  <2>3. Within(r, g.pages, i, m) <=> Within(r, l.pages, i, m)
    BY <1>2, <2>2 DEF Within
  <2> QED
    BY <2>1, <2>3, <1>1 DEF Covers
<1> QED
  BY <1>2, <1>5, <1>6, <1>7 DEF Good, g

\* When row n is written, the lists that have a page take note.
LEMMA NotedPages ==
  ASSUME NEW l \in Listing, NEW n \in Nodes
  PROVE  /\ Noted(l, n) \in Listing
         /\ Noted(l, n).pages = l.pages
         /\ Noted(l, n).written = IF l.pages = << >> THEN l.written ELSE l.written \cup {n}
BY DEF Noted, Listing

LEMMA NotedIsGood ==
  ASSUME NEW r, NEW s, NEW l, Good(r, l), NEW n \in Nodes, \A m \in Nodes \ {n} : s[m] = r[m]
  PROVE  Good(s, Noted(l, n))
<1> DEFINE g == Noted(l, n)
<1>1. l \in Listing /\ Chained(l.pages) /\ OneItemEach(l.pages) /\ Covers(r, l)
  BY DEF Good
<1>2. /\ g \in Listing /\ g.pages = l.pages
      /\ g.written = IF l.pages = << >> THEN l.written ELSE l.written \cup {n}
  BY <1>1, NotedPages
<1> HIDE DEF g
<1>3. Covers(s, g)
  <2> SUFFICES ASSUME NEW m \in Nodes \ g.written, NEW i \in 1 .. Len(l.pages)
               PROVE  Has(l.pages[i], m) <=> Within(s, l.pages, i, m)
    BY <1>2 DEF Covers
  <2>1. l.pages # << >>
    <3>1. l.pages = << >> => 1 .. Len(l.pages) = {}
      OBVIOUS
    <3> QED
      BY <3>1
  <2>2. m \in Nodes \ l.written /\ m # n /\ s[m] = r[m]
    BY <1>2, <2>1
  <2>3. Within(s, l.pages, i, m) <=> Within(r, l.pages, i, m)
    BY <2>2 DEF Within, KeyOf
  <2> QED
    BY <2>2, <2>3, <1>1 DEF Covers
<1> QED
  BY <1>1, <1>2, <1>3 DEF Good, g

-----------------------------------------------------------------------------
(* The lists, the fetch and the writes stay sound.                         *)

FetchOf == [kind : {"none", "all", "next"}, size : Nat, got : Listing, back : Listing,
            invalid : BOOLEAN]
WriteOf == [pc : {"idle", "sent", "ok", "refused", "done", "lost"}, op : Op,
            id : Nodes \cup {0}, name : RowNames \cup {NoName}, snapshot : Listing]

ListPart ==
    /\ mounted \in BOOLEAN /\ invalid \in BOOLEAN /\ dropped \in BOOLEAN
    /\ Good(row, list)
    /\ fetch \in FetchOf
    /\ Good(row, fetch.got) /\ Good(row, fetch.back)
    /\ fetch.kind # "none" => mounted /\ GoesOn(fetch.got)

WritePart ==
    /\ listWrite \in [Writes -> WriteOf]
    /\ \A w \in Writes :
          /\ Good(row, listWrite[w].snapshot)
          /\ listWrite[w].pc # "idle" => listWrite[w].id \in Nodes

LoadedSoundly == row \in Rows /\ ListPart /\ WritePart

LEMMA GoodIsListing ==
  ASSUME NEW r, NEW l, Good(r, l)
  PROVE  l \in Listing /\ Len(l.pages) \in Nat /\ (l.pages # << >> => Len(l.pages) > 0)
BY DEF Good, Listing

LEMMA NoFetchIsSound ==
  ASSUME NEW r
  PROVE  /\ NoFetch \in FetchOf /\ NoFetch.kind = "none"
         /\ Good(r, NoFetch.got) /\ Good(r, NoFetch.back)
<1>1. NoFetch.kind = "none" /\ NoFetch.got = Unloaded /\ NoFetch.back = Unloaded
  BY DEF NoFetch
<1>2. Unloaded \in Listing
  BY UnloadedIsGood, GoodIsListing
<1>3. NoFetch \in FetchOf
  BY <1>2 DEF NoFetch, FetchOf
<1> QED
  BY <1>1, <1>3, UnloadedIsGood

LEMMA FetchAllIsSound ==
  ASSUME NEW r, NEW l, Good(r, l), NEW inv \in BOOLEAN
  PROVE  /\ FetchAll(l, inv) \in FetchOf
         /\ FetchAll(l, inv).kind = "all" /\ FetchAll(l, inv).got = Unloaded
         /\ FetchAll(l, inv).back = l /\ FetchAll(l, inv).invalid = inv
         /\ Good(r, FetchAll(l, inv).got) /\ Good(r, FetchAll(l, inv).back)
         /\ GoesOn(FetchAll(l, inv).got)
<1>1. /\ FetchAll(l, inv).kind = "all" /\ FetchAll(l, inv).got = Unloaded
      /\ FetchAll(l, inv).back = l /\ FetchAll(l, inv).invalid = inv
  BY DEF FetchAll
<1>2. Unloaded \in Listing /\ l \in Listing /\ Len(l.pages) \in Nat
  BY UnloadedIsGood, GoodIsListing
<1>3. FetchAll(l, inv) \in FetchOf
  BY <1>2 DEF FetchAll, FetchOf
<1>4. GoesOn(Unloaded)
  BY DEF GoesOn, Unloaded
<1> QED
  BY <1>1, <1>3, <1>4, UnloadedIsGood

LEMMA InvalidateSound ==
  ASSUME ListPart, row' = row, NEW l, Good(row, l), Invalidate(l)
  PROVE  ListPart'
<1>1. list' = l /\ invalid' = TRUE /\ mounted' = mounted /\ dropped' = dropped
      /\ fetch' = IF mounted THEN FetchAll(l, TRUE) ELSE fetch
  BY DEF Invalidate
<1>2. CASE mounted
  <2>1. fetch' = FetchAll(l, TRUE)
    BY <1>1, <1>2
  <2>2. /\ fetch' \in FetchOf /\ Good(row, fetch'.got) /\ Good(row, fetch'.back) /\ GoesOn(fetch'.got)
    BY <2>1, FetchAllIsSound
  <2> QED
    BY <1>1, <1>2, <2>2 DEF ListPart, GoesOn, NextCursor
<1>3. CASE ~mounted
  BY <1>1, <1>3 DEF ListPart, GoesOn, NextCursor
<1> QED
  BY <1>2, <1>3 DEF ListPart

LEMMA UnfetchedSound ==
  ASSUME ListPart, row' = row, Unfetched
  PROVE  ListPart'
BY DEF ListPart, Unfetched, GoesOn, NextCursor

LEMMA RevertedIsGood ==
  ASSUME ListPart
  PROVE  Good(row, Reverted)
BY DEF ListPart, Reverted

\* One write changes, and the rows do not.
LEMMA OneWriteSound ==
  ASSUME WritePart, row' = row, NEW w \in Writes, NEW x \in WriteOf, Good(row, x.snapshot),
         x.pc # "idle" => x.id \in Nodes, listWrite' = [listWrite EXCEPT ![w] = x]
  PROVE  WritePart'
<1>1. listWrite' \in [Writes -> WriteOf]
  BY DEF WritePart
<1>2. ASSUME NEW v \in Writes
      PROVE  Good(row, listWrite'[v].snapshot) /\ (listWrite'[v].pc # "idle" => listWrite'[v].id \in Nodes)
  <2>1. CASE v = w
    <3>1. listWrite'[v] = x
      BY <2>1 DEF WritePart
    <3> QED
      BY <3>1
  <2>2. CASE v # w
    <3>1. listWrite'[v] = listWrite[v]
      BY <2>2 DEF WritePart
    <3> QED
      BY <3>1 DEF WritePart
  <2> QED
    BY <2>1, <2>2
<1> QED
  BY <1>1, <1>2 DEF WritePart

LEMMA SettledSound ==
  ASSUME WritePart, row' = row, NEW w \in Writes, listWrite[w].pc # "idle",
         NEW pc \in {"done", "lost"}, Settled(w, pc)
  PROVE  /\ WritePart'
         /\ listWrite' = [listWrite EXCEPT ![w] =
               [listWrite[w] EXCEPT !.pc = pc, !.snapshot = Unloaded]]
<1> DEFINE x == [listWrite[w] EXCEPT !.pc = pc, !.snapshot = Unloaded]
<1>1. listWrite' = [listWrite EXCEPT ![w] = x]
  <2>1. listWrite = [v \in Writes |-> listWrite[v]]
    BY DEF WritePart
  <2>2. listWrite' = [listWrite EXCEPT ![w].pc = pc, ![w].snapshot = Unloaded]
    BY DEF Settled
  <2>3. [listWrite EXCEPT ![w].pc = pc, ![w].snapshot = Unloaded]
           = [v \in Writes |-> IF v = w THEN x ELSE listWrite[v]]
    BY <2>1
  <2> QED
    BY <2>1, <2>2, <2>3
<1>2. listWrite[w] \in WriteOf /\ listWrite[w].id \in Nodes
  BY DEF WritePart
<1>3. Unloaded \in Listing /\ Good(row, Unloaded)
  BY UnloadedIsGood, GoodIsListing
<1>4. x \in WriteOf /\ x.snapshot = Unloaded /\ x.id \in Nodes
  BY <1>2, <1>3 DEF WriteOf
<1> HIDE DEF x
<1> QED
  BY <1>1, <1>3, <1>4, OneWriteSound DEF x

-----------------------------------------------------------------------------
(* Every step keeps them so.                                               *)

LEMMA EnterSound ==
  ASSUME ListPart, EnterFolder
  PROVE  ListPart'
<1>1. /\ mounted' = TRUE /\ row' = row /\ list' = list /\ invalid' = invalid /\ dropped' = dropped
      /\ fetch' = FetchAll(list, invalid) \/ fetch' = fetch
  BY DEF EnterFolder
<1>2. CASE fetch' = FetchAll(list, invalid)
  <2>1. /\ fetch' \in FetchOf /\ Good(row, fetch'.got) /\ Good(row, fetch'.back) /\ GoesOn(fetch'.got)
    BY <1>2, FetchAllIsSound DEF ListPart
  <2> QED
    BY <1>1, <2>1 DEF ListPart, GoesOn, NextCursor
<1>3. CASE fetch' = fetch
  BY <1>1, <1>3 DEF ListPart, GoesOn, NextCursor
<1> QED
  BY <1>1, <1>2, <1>3

LEMMA LeaveSound ==
  ASSUME ListPart, LeaveFolder
  PROVE  ListPart'
<1>1. /\ mounted' = FALSE /\ row' = row /\ list' = Reverted /\ fetch' = NoFetch
      /\ invalid' = IF fetch.kind = "none" THEN invalid ELSE fetch.invalid
      /\ dropped' = dropped
  BY DEF LeaveFolder
<1>2. Good(row, Reverted) /\ NoFetch \in FetchOf /\ NoFetch.kind = "none"
      /\ Good(row, NoFetch.got) /\ Good(row, NoFetch.back)
  BY RevertedIsGood, NoFetchIsSound
<1>3. fetch.invalid \in BOOLEAN /\ invalid \in BOOLEAN
  BY DEF ListPart, FetchOf
<1> QED
  BY <1>1, <1>2, <1>3 DEF ListPart

LEMMA RefetchSound ==
  ASSUME ListPart, RefetchList
  PROVE  ListPart'
<1>1. /\ mounted /\ mounted' = mounted /\ row' = row /\ list' = list /\ invalid' = invalid
      /\ dropped' = dropped /\ fetch' = FetchAll(list, invalid)
  BY DEF RefetchList
<1>2. /\ fetch' \in FetchOf /\ Good(row, fetch'.got) /\ Good(row, fetch'.back) /\ GoesOn(fetch'.got)
  BY <1>1, FetchAllIsSound DEF ListPart
<1> QED
  BY <1>1, <1>2 DEF ListPart, GoesOn, NextCursor

LEMMA LoadMoreSound ==
  ASSUME ListPart, LoadMore
  PROVE  ListPart'
<1>1. /\ mounted /\ mounted' = mounted /\ row' = row /\ list' = list /\ invalid' = invalid
      /\ dropped' = (dropped \/ invalid)
      /\ NextCursor(list) # NoCursor
      /\ fetch' = [kind |-> "next", size |-> Len(list.pages) + 1,
                   got |-> list, back |-> list, invalid |-> invalid]
  BY DEF LoadMore
<1>2. list \in Listing /\ Len(list.pages) \in Nat
  BY GoodIsListing DEF ListPart
<1>3. invalid \in BOOLEAN /\ dropped' \in BOOLEAN
  BY <1>1 DEF ListPart
<1>4. fetch' \in FetchOf /\ fetch'.got = list /\ fetch'.back = list
  BY <1>1, <1>2, <1>3 DEF FetchOf
<1>5. GoesOn(fetch'.got)
  BY <1>1, <1>4 DEF GoesOn
<1> QED
  BY <1>1, <1>3, <1>4, <1>5 DEF ListPart, GoesOn, NextCursor

LEMMA ReadPageSound ==
  ASSUME row \in Rows, ListPart, ReadPage
  PROVE  ListPart'
<1> DEFINE fresh == Page(NextCursor(fetch.got))
           got == Extended(fetch.got)
           over == fresh.next = NoCursor \/ Len(got.pages) = fetch.size
<1>1. /\ fetch.kind # "none" /\ row' = row /\ mounted' = mounted
      /\ IF over
           THEN /\ list' = got /\ invalid' = FALSE /\ fetch' = NoFetch
                /\ dropped' = (dropped /\ fetch.kind = "next")
           ELSE /\ fetch' = [fetch EXCEPT !.got = got]
                /\ list' = list /\ invalid' = invalid /\ dropped' = dropped
  BY DEF ReadPage, Extended
<1>2. fetch \in FetchOf /\ Good(row, fetch.got) /\ GoesOn(fetch.got) /\ mounted
  BY <1>1 DEF ListPart
<1>3. Good(row, got) /\ got \in Listing
  BY <1>2, ExtendedIsGood, GoodIsListing
<1>4. NextCursor(got) = fresh.next
  <2>1. fetch.got \in Listing
    BY <1>2, GoodIsListing
  <2>2. /\ Len(got.pages) = Len(fetch.got.pages) + 1 /\ Len(fetch.got.pages) \in Nat
        /\ got.pages[Len(fetch.got.pages) + 1] = fresh
    BY <2>1, ExtendedPages
  <2>3. got.pages # << >>
    BY <2>2
  <2> HIDE DEF got, fresh
  <2> QED
    BY <2>2, <2>3 DEF NextCursor
<1> HIDE DEF got, fresh
<1>5. CASE over
  <2>1. dropped' \in BOOLEAN
    BY <1>1, <1>5 DEF ListPart
  <2>2. NoFetch \in FetchOf /\ NoFetch.kind = "none" /\ Good(row, NoFetch.got) /\ Good(row, NoFetch.back)
    BY NoFetchIsSound
  <2> QED
    BY <1>1, <1>3, <1>5, <2>1, <2>2 DEF ListPart
<1>6. CASE ~over
  <2>1. fetch' = [fetch EXCEPT !.got = got] /\ GoesOn(got)
    BY <1>1, <1>4, <1>6 DEF GoesOn
  <2>2. fetch' \in FetchOf /\ fetch'.got = got /\ fetch'.back = fetch.back /\ fetch'.kind = fetch.kind
    BY <1>2, <1>3, <2>1 DEF FetchOf
  <2>3. /\ mounted' /\ row' = row /\ list' = list /\ invalid' = invalid /\ dropped' = dropped
    BY <1>1, <1>2, <1>6
  <2> QED
    BY <1>3, <2>1, <2>2, <2>3 DEF ListPart, GoesOn, NextCursor
<1> QED
  BY <1>5, <1>6

LEMMA FetchFailsSound ==
  ASSUME ListPart, FetchFails
  PROVE  ListPart'
<1>1. NoFetch \in FetchOf /\ NoFetch.kind = "none" /\ Good(row, NoFetch.got) /\ Good(row, NoFetch.back)
  BY NoFetchIsSound
<1> QED
  BY <1>1 DEF ListPart, FetchFails

LEMMA UnwrittenSound ==
  ASSUME WritePart, row' = row, listWrite' = listWrite
  PROVE  WritePart'
BY DEF WritePart

LEMMA StartWriteSound ==
  ASSUME WritePart, ListPart, NEW w \in Writes, NEW op \in Op, NEW n \in Nodes,
         NEW nm \in Wanted, StartListWrite(w, op, n, nm)
  PROVE  ListPart' /\ WritePart'
<1> DEFINE x == Sent(op, n, IF op = "delete" THEN NoName ELSE nm, Unloaded)
<1>1. listWrite' = [listWrite EXCEPT ![w] = x] /\ Unfetched /\ row' = row
  BY DEF StartListWrite
<1>2. nm \in RowNames
  BY ViewAssumption
<1>3. Unloaded \in Listing /\ Good(row, Unloaded)
  BY UnloadedIsGood, GoodIsListing
<1>4. x \in WriteOf /\ x.snapshot = Unloaded /\ x.id = n
  BY <1>2, <1>3 DEF Sent, WriteOf
<1> HIDE DEF x
<1>5. WritePart'
  BY <1>1, <1>3, <1>4, OneWriteSound
<1> QED
  BY <1>1, <1>5, UnfetchedSound

LEMMA RenameFolderSound ==
  ASSUME WritePart, ListPart, NEW w \in Writes, NEW n \in Nodes,
         NEW nm \in Wanted, RenameFolder(w, n, nm)
  PROVE  ListPart' /\ WritePart'
<1> DEFINE x == Sent("renameFolder", n, nm, Reverted)
<1>1. /\ listWrite' = [listWrite EXCEPT ![w] = x] /\ row' = row /\ mounted' = mounted
      /\ list' = Renamed(Reverted, n, nm) /\ invalid' = FALSE /\ fetch' = NoFetch
      /\ dropped' = dropped
  BY DEF RenameFolder
<1>2. nm \in RowNames
  BY ViewAssumption
<1>3. Reverted \in Listing /\ Good(row, Reverted)
  BY RevertedIsGood, GoodIsListing
<1>4. x \in WriteOf /\ x.snapshot = Reverted /\ x.id = n
  BY <1>2, <1>3 DEF Sent, WriteOf, Op
<1> HIDE DEF x
<1>5. WritePart'
  BY <1>1, <1>3, <1>4, OneWriteSound
<1>6. Good(row, Renamed(Reverted, n, nm))
  BY <1>2, <1>3, RenamedIsGood
<1>7. NoFetch \in FetchOf /\ NoFetch.kind = "none" /\ Good(row, NoFetch.got) /\ Good(row, NoFetch.back)
  BY NoFetchIsSound
<1> QED
  BY <1>1, <1>5, <1>6, <1>7 DEF ListPart

\* What the API does when it can serve w, and when it cannot.
Served(w) ==
    LET n == listWrite[w].id IN
    /\ \E new \in RowNames \cup {NoName} : row' = [row EXCEPT ![n] = new]
    /\ listWrite' = [v \in Writes |->
          [listWrite[v] EXCEPT !.pc = IF v = w THEN "ok" ELSE @, !.snapshot = Noted(@, n)]]
    /\ list' = Noted(list, n)
    /\ fetch' = [fetch EXCEPT !.got = Noted(@, n), !.back = Noted(@, n)]
    /\ UNCHANGED <<mounted, invalid, dropped>>

Refused(w) ==
    /\ listWrite' = [listWrite EXCEPT ![w].pc = "refused"]
    /\ UNCHANGED <<row, list, fetch, mounted, invalid, dropped>>

LEMMA ApplyCases ==
  ASSUME WritePart, NEW w \in Writes, Apply(w)
  PROVE  listWrite[w].pc = "sent" /\ (Served(w) \/ Refused(w))
<1>1. ASSUME listWrite[w].name \in RowNames \cup {NoName}
      PROVE  Given(listWrite[w].id, listWrite[w].name) \subseteq RowNames \cup {NoName}
  BY <1>1 DEF Given
<1> QED
  BY <1>1 DEF Apply, Served, Refused, WritePart, WriteOf

LEMMA ServedSound ==
  ASSUME LoadedSoundly, NEW w \in Writes, listWrite[w].pc = "sent", Served(w)
  PROVE  /\ LoadedSoundly'
         /\ \A m \in Nodes \ {listWrite[w].id} : row'[m] = row[m]
         /\ fetch'.got = Noted(fetch.got, listWrite[w].id)
         /\ fetch'.back = Noted(fetch.back, listWrite[w].id)
         /\ fetch'.kind = fetch.kind /\ fetch'.invalid = fetch.invalid
         /\ \A v \in Writes :
               /\ listWrite'[v].id = listWrite[v].id /\ listWrite'[v].op = listWrite[v].op
               /\ listWrite'[v].pc = IF v = w THEN "ok" ELSE listWrite[v].pc
<1> DEFINE n == listWrite[w].id
<1>1. row \in Rows /\ listWrite \in [Writes -> WriteOf] /\ fetch \in FetchOf /\ n \in Nodes
  BY DEF LoadedSoundly, WritePart, ListPart
<1>2. PICK new \in RowNames \cup {NoName} : row' = [row EXCEPT ![n] = new]
  BY DEF Served
<1>4. row' \in Rows /\ \A m \in Nodes \ {n} : row'[m] = row[m]
  BY <1>1, <1>2 DEF Rows
<1>5. \A l : Good(row, l) => Good(row', Noted(l, n)) /\ Noted(l, n).pages = l.pages
  <2> SUFFICES ASSUME NEW l, Good(row, l)
               PROVE  Good(row', Noted(l, n)) /\ Noted(l, n).pages = l.pages
    OBVIOUS
  <2> HIDE DEF n
  <2>1. PICK s, k : s = row' /\ k = n
    OBVIOUS
  <2>2. k \in Nodes /\ \A m \in Nodes \ {k} : s[m] = row[m]
    BY <1>1, <1>4, <2>1
  <2>3. Good(s, Noted(l, k))
    BY <2>2, NotedIsGood
  <2>4. Noted(l, k).pages = l.pages
    BY <2>2, NotedPages, GoodIsListing
  <2> QED
    BY <2>1, <2>3, <2>4
<1>6. \A l : Good(row, l) => Noted(l, n) \in Listing
  BY <1>5, GoodIsListing
<1>7. Good(row, list) /\ Good(row, fetch.got) /\ Good(row, fetch.back)
  BY DEF LoadedSoundly, ListPart
<1>8. fetch' = [fetch EXCEPT !.got = Noted(fetch.got, n), !.back = Noted(fetch.back, n)]
  BY DEF Served
<1> HIDE DEF n
<1>9. /\ fetch' \in FetchOf
      /\ fetch'.got = Noted(fetch.got, n) /\ fetch'.back = Noted(fetch.back, n)
      /\ fetch'.kind = fetch.kind /\ fetch'.invalid = fetch.invalid
  BY <1>1, <1>6, <1>7, <1>8 DEF FetchOf
<1>10. GoesOn(fetch.got) => GoesOn(fetch'.got)
  BY <1>5, <1>7, <1>9 DEF GoesOn, NextCursor
<1>11. ListPart'
  <2>1. list' = Noted(list, n) /\ mounted' = mounted /\ invalid' = invalid /\ dropped' = dropped
    BY DEF Served, n
  <2>2. GoesOn(fetch.got)' <=> GoesOn(fetch'.got)
    BY DEF GoesOn, NextCursor
  <2>3. /\ mounted \in BOOLEAN /\ invalid \in BOOLEAN /\ dropped \in BOOLEAN
        /\ fetch.kind # "none" => mounted /\ GoesOn(fetch.got)
    BY DEF LoadedSoundly, ListPart
  <2> QED
    BY <1>5, <1>7, <1>9, <1>10, <2>1, <2>2, <2>3 DEF ListPart
<1>12. ASSUME NEW v \in Writes
       PROVE  /\ listWrite'[v] \in WriteOf
              /\ listWrite'[v].id = listWrite[v].id /\ listWrite'[v].op = listWrite[v].op
              /\ listWrite'[v].pc = IF v = w THEN "ok" ELSE listWrite[v].pc
              /\ listWrite'[v].snapshot = Noted(listWrite[v].snapshot, n)
              /\ Good(row', listWrite'[v].snapshot)
  <2>1. listWrite'[v] = [listWrite[v] EXCEPT !.pc = IF v = w THEN "ok" ELSE listWrite[v].pc,
                                     !.snapshot = Noted(listWrite[v].snapshot, n)]
    BY DEF Served, n
  <2>2. listWrite[v] \in WriteOf /\ Good(row, listWrite[v].snapshot)
    BY <1>1 DEF LoadedSoundly, WritePart
  <2>3. Good(row', Noted(listWrite[v].snapshot, n)) /\ Noted(listWrite[v].snapshot, n) \in Listing
    BY <1>5, <1>6, <2>2
  <2> QED
    BY <2>1, <2>2, <2>3 DEF WriteOf
<1>13. WritePart'
  <2>1. listWrite' \in [Writes -> WriteOf]
    <3>1. listWrite' = [v \in Writes |-> listWrite'[v]]
      BY DEF Served
    <3> QED
      BY <3>1, <1>12
  <2>2. \A v \in Writes : listWrite'[v].pc # "idle" => listWrite'[v].id \in Nodes
    <3>1. \A v \in Writes : listWrite[v].pc # "idle" => listWrite[v].id \in Nodes
      BY DEF LoadedSoundly, WritePart
    <3> QED
      BY <1>12, <3>1
  <2> QED
    BY <1>12, <2>1, <2>2 DEF WritePart
<1> QED
  BY <1>4, <1>9, <1>11, <1>12, <1>13 DEF LoadedSoundly, n

LEMMA RefusedSound ==
  ASSUME LoadedSoundly, NEW w \in Writes, listWrite[w].pc = "sent", Refused(w)
  PROVE  LoadedSoundly'
<1> DEFINE x == [listWrite[w] EXCEPT !.pc = "refused"]
<1>1. listWrite \in [Writes -> WriteOf] /\ listWrite[w] \in WriteOf /\ listWrite[w].id \in Nodes
      /\ Good(row, listWrite[w].snapshot) /\ WritePart
  BY DEF LoadedSoundly, WritePart
<1>2. listWrite' = [listWrite EXCEPT ![w] = x] /\ row' = row
  BY DEF Refused
<1>3. x \in WriteOf /\ x.snapshot = listWrite[w].snapshot /\ x.id = listWrite[w].id
  BY <1>1 DEF WriteOf
<1> HIDE DEF x
<1>4. WritePart'
  BY <1>1, <1>2, <1>3, OneWriteSound
<1>5. ListPart'
  BY DEF LoadedSoundly, ListPart, Refused, GoesOn, NextCursor
<1> QED
  BY <1>2, <1>4, <1>5 DEF LoadedSoundly

LEMMA AnswerSound ==
  ASSUME LoadedSoundly, NEW w \in Writes, Succeed(w) \/ Fail(w) \/ Lose(w)
  PROVE  LoadedSoundly'
<1>1. row' = row /\ row' \in Rows
  BY DEF Succeed, Fail, Lose, LoadedSoundly
<1>2. PICK pc \in {"done", "lost"} : Settled(w, pc) /\ listWrite[w].pc # "idle"
  BY DEF Succeed, Fail, Lose
<1>3. WritePart'
  BY <1>1, <1>2, SettledSound DEF LoadedSoundly
<1>4. Unfetched \/ Invalidate(list) \/ Invalidate(listWrite[w].snapshot)
  BY DEF Succeed, Fail, Lose, Hear, RollBack
<1>5. Good(row, list) /\ Good(row, listWrite[w].snapshot) /\ ListPart
  BY DEF LoadedSoundly, ListPart, WritePart
<1>6. ListPart'
  BY <1>1, <1>4, <1>5, InvalidateSound, UnfetchedSound
<1> QED
  BY <1>1, <1>3, <1>6 DEF LoadedSoundly

LEMMA LoadedInit ==
  ASSUME FolderInit
  PROVE  LoadedSoundly
<1>1. row \in Rows
  BY ViewAssumption DEF FolderInit, Rows
<1>2. /\ Good(row, Unloaded) /\ Unloaded \in Listing
      /\ NoFetch \in FetchOf /\ NoFetch.kind = "none"
      /\ Good(row, NoFetch.got) /\ Good(row, NoFetch.back)
  BY UnloadedIsGood, GoodIsListing, NoFetchIsSound
<1>3. ListPart
  BY <1>2 DEF FolderInit, ListPart
<1>4. NoListWrite \in WriteOf /\ NoListWrite.pc = "idle" /\ NoListWrite.snapshot = Unloaded
  BY <1>2 DEF NoListWrite, WriteOf, Op
<1>5. WritePart
  BY <1>2, <1>4 DEF FolderInit, WritePart
<1> QED
  BY <1>1, <1>3, <1>5 DEF LoadedSoundly

LEMMA LoadedStep ==
  ASSUME LoadedSoundly, [FolderNext]_folderVars
  PROVE  LoadedSoundly'
<1>0. row \in Rows /\ ListPart /\ WritePart
  BY DEF LoadedSoundly
<1>1. CASE UNCHANGED folderVars
  BY <1>0, <1>1 DEF folderVars, LoadedSoundly, ListPart, WritePart, GoesOn, NextCursor
<1>2. CASE EnterFolder \/ LeaveFolder \/ RefetchList \/ LoadMore \/ ReadPage \/ FetchFails
  <2>1. row' = row /\ listWrite' = listWrite
    BY <1>2 DEF EnterFolder, LeaveFolder, RefetchList, LoadMore, ReadPage, FetchFails
  <2>2. WritePart'
    BY <1>0, <2>1, UnwrittenSound
  <2>3. ListPart'
    BY <1>0, <1>2, EnterSound, LeaveSound, RefetchSound, LoadMoreSound, ReadPageSound,
       FetchFailsSound
  <2> QED
    BY <1>0, <2>1, <2>2, <2>3 DEF LoadedSoundly
<1>3. ASSUME NEW w \in Writes, NEW op \in Op, NEW n \in Nodes, NEW nm \in Wanted,
             StartListWrite(w, op, n, nm) \/ RenameFolder(w, n, nm)
      PROVE  LoadedSoundly'
  <2>1. row' = row
    BY <1>3 DEF StartListWrite, RenameFolder
  <2>2. ListPart' /\ WritePart'
    BY <1>0, <1>3, StartWriteSound, RenameFolderSound
  <2> QED
    BY <1>0, <2>1, <2>2 DEF LoadedSoundly
<1>4. ASSUME NEW w \in Writes, Apply(w) PROVE LoadedSoundly'
  BY <1>4, ApplyCases, ServedSound, RefusedSound DEF LoadedSoundly
<1>5. ASSUME NEW w \in Writes, Succeed(w) \/ Fail(w) \/ Lose(w) PROVE LoadedSoundly'
  BY <1>5, AnswerSound
<1>6. ASSUME NEW w \in Writes, NEW n \in Nodes, NEW nm \in Wanted, RenameFolder(w, n, nm)
      PROVE  LoadedSoundly'
  BY <1>3, <1>6 DEF Op
<1>7. CASE \E w \in Writes :
              \/ \E op \in Op, n \in Nodes, nm \in Wanted : StartListWrite(w, op, n, nm)
              \/ \E n \in Nodes, nm \in Wanted : RenameFolder(w, n, nm)
              \/ Apply(w) \/ Succeed(w) \/ Fail(w) \/ Lose(w)
  BY <1>3, <1>4, <1>5, <1>6, <1>7
<1> QED
  BY <1>1, <1>2, <1>7 DEF FolderNext

\* The listing keeps its pages together: once loaded, each page but the last
\* has a cursor, and cursors only go forward.
LEMMA LoadedAlways == FolderSpec => []LoadedSoundly
<1>1. FolderInit => LoadedSoundly
  BY LoadedInit
<1>2. LoadedSoundly /\ [FolderNext]_folderVars => LoadedSoundly'
  BY LoadedStep
<1> QED
  BY <1>1, <1>2, PTL DEF FolderSpec

\* Rows, lists, the fetch and the writes stay within their types, and only
\* the last page of a list ends it (FolderTypeOK).
THEOREM ListTyped == FolderSpec => []FolderTypeOK
<1>1. LoadedSoundly => FolderTypeOK
  <2> SUFFICES ASSUME LoadedSoundly PROVE FolderTypeOK
    OBVIOUS
  <2>1. list \in Listing /\ Chained(list.pages) /\ Len(list.pages) \in Nat
    BY GoodIsListing DEF LoadedSoundly, ListPart, Good
  <2>2. \A i \in 1 .. Len(list.pages) : list.pages[i].next = NoCursor => i = Len(list.pages)
    <3> SUFFICES ASSUME NEW i \in 1 .. Len(list.pages), i # Len(list.pages)
                 PROVE  list.pages[i].next # NoCursor
      OBVIOUS
    <3>1. Len(list.pages) \in 1 .. Len(list.pages) /\ i < Len(list.pages)
      BY <2>1
    <3> QED
      BY <2>1, <3>1 DEF Chained
  <2>3. row \in [Nodes -> RowNames \cup {NoName}]
    BY DEF LoadedSoundly, Rows
  <2>4. listWrite \in [Writes -> WriteOf] /\ fetch \in FetchOf
    BY DEF LoadedSoundly, ListPart, WritePart
  <2>5. mounted \in BOOLEAN /\ invalid \in BOOLEAN /\ dropped \in BOOLEAN
    BY DEF LoadedSoundly, ListPart
  <2> QED
    BY <2>1, <2>2, <2>3, <2>4, <2>5 DEF FolderTypeOK, WriteOf, FetchOf
<1> QED
  BY <1>1, LoadedAlways, PTL

\* A row that was not written is on one page at most.
LEMMA OnOnePage ==
  ASSUME row \in Rows, Good(row, list), NEW n \in Nodes \ list.written,
         NEW i \in 1 .. Len(list.pages), NEW j \in 1 .. Len(list.pages),
         Within(row, list.pages, i, n), Within(row, list.pages, j, n)
  PROVE  ~(i < j)
<1> DEFINE p == list.pages
           k == KeyOf(row, n)
<1>1. SUFFICES ASSUME i < j PROVE FALSE
  OBVIOUS
<1>2. Chained(p) /\ Len(p) \in Nat /\ p \in Seq(PageOf)
  BY GoodIsListing DEF Good, Listing
<1>3. k \in Cursor
  BY KeyIsCursor DEF Within
<1>4. j - 1 \in 1 .. Len(p) /\ j - 1 < j /\ i <= j - 1
  BY <1>1, <1>2
<1>5. p[i].next # NoCursor /\ ~Before(p[i].next, k)
  BY <1>1, <1>2 DEF Chained, Within
<1>6. p[j - 1].next # NoCursor /\ Before(p[j - 1].next, k)
  BY <1>1, <1>2, <1>4 DEF Chained, Within
<1>7. i < j - 1 => Before(p[i].next, p[j - 1].next)
  BY <1>2, <1>4, <1>6 DEF Chained
<1>8. p[i].next \in Cursor /\ p[j - 1].next \in Cursor
  <2>1. p[i] \in PageOf /\ p[j - 1] \in PageOf
    BY <1>2, <1>4
  <2> QED
    BY <2>1, <1>5, <1>6 DEF PageOf
<1>9. i = j - 1 \/ i < j - 1
  BY <1>2, <1>4
<1> HIDE DEF p, k
<1> QED
  BY <1>3, <1>5, <1>6, <1>7, <1>8, <1>9, BeforeIsAnOrder

LEMMA AtMostOnce ==
  ASSUME row \in Rows, Good(row, list), NEW n \in Nodes \ list.written
  PROVE  /\ \A o \in Occurrences(n) : Within(row, list.pages, o[1], n)
         /\ \A a, b \in Occurrences(n) : a = b
<1>1. Covers(row, list) /\ OneItemEach(list.pages) /\ Len(list.pages) \in Nat
  BY GoodIsListing DEF Good
<1>2. ASSUME NEW o \in Occurrences(n)
      PROVE  /\ o[1] \in 1 .. Len(list.pages) /\ o = <<o[1], o[2]>>
             /\ [id |-> n, name |-> o[2]] \in list.pages[o[1]].items
             /\ Within(row, list.pages, o[1], n)
  <2>1. /\ o[1] \in 1 .. Len(list.pages) /\ o = <<o[1], o[2]>>
        /\ [id |-> n, name |-> o[2]] \in list.pages[o[1]].items
    BY DEF Occurrences
  <2>2. Has(list.pages[o[1]], n)
    BY <2>1 DEF Has
  <2> QED
    BY <2>1, <2>2, <1>1 DEF Covers
<1>3. ASSUME NEW a \in Occurrences(n), NEW b \in Occurrences(n) PROVE a = b
  <2>1. a[1] = b[1]
    <3>1. ~(a[1] < b[1]) /\ ~(b[1] < a[1])
      BY <1>2, OnOnePage
    <3>2. a[1] \in 1 .. Len(list.pages) /\ b[1] \in 1 .. Len(list.pages)
      BY <1>2
    <3> QED
      BY <1>1, <3>1, <3>2
  <2>2. [id |-> n, name |-> a[2]] = [id |-> n, name |-> b[2]]
    BY <1>1, <1>2, <2>1 DEF OneItemEach
  <2>3. a[2] = b[2]
    BY <2>2
  <2> QED
    BY <2>1, <2>3, <1>2
<1> QED
  BY <1>2, <1>3

\* With the list complete, a row that exists and was not written is on a page.
LEMMA OnSomePage ==
  ASSUME row \in Rows, Good(row, list), Complete,
         NEW n \in Nodes \ list.written, row[n] # NoName
  PROVE  Occurrences(n) # {}
<1> DEFINE p == list.pages
           k == KeyOf(row, n)
           T == {i \in 1 .. Len(p) : p[i].next # NoCursor => ~Before(p[i].next, k)}
<1>1. /\ Covers(row, list) /\ Len(p) \in Nat /\ p \in Seq(PageOf) /\ Len(p) > 0
      /\ p[Len(p)].next = NoCursor
  BY GoodIsListing DEF Good, Listing, Complete, Loaded, NextCursor
<1>2. T \subseteq Nat /\ T # {}
  <2>1. Len(p) \in T
    BY <1>1
  <2> QED
    BY <2>1
<1>3. PICK i \in T : \A j \in T : i <= j
  BY <1>2, LeastNatural
<1>4. i > 1 => Before(p[i - 1].next, k)
  <2>1. i > 1 => i - 1 \in 1 .. Len(p) /\ i - 1 \notin T
    BY <1>1, <1>3
  <2> QED
    BY <2>1
<1>5. Within(row, p, i, n)
  BY <1>3, <1>4 DEF Within
<1>6. PICK it \in p[i].items : it.id = n
  BY <1>1, <1>5 DEF Covers, Has
<1>7. it \in Item
  <2>1. p[i] \in PageOf
    BY <1>1
  <2> QED
    BY <2>1 DEF PageOf
<1>8. it = [id |-> n, name |-> it.name] /\ it.name \in RowNames
  BY <1>6, <1>7 DEF Item
<1>9. <<i, it.name>> \in Occurrences(n)
  <2> DEFINE o == <<i, it.name>>
  <2>1. o \in (1 .. Len(p)) \X RowNames /\ o[1] = i /\ o[2] = it.name
    BY <1>8
  <2> HIDE DEF o
  <2> QED
    BY <1>6, <1>8, <2>1 DEF Occurrences, o
<1> QED
  BY <1>9

\* A row that nobody writes while the list is loaded is in it once and not
\* twice (UnwrittenRowsListedOnce).
THEOREM RowsListedOnce == FolderSpec => []UnwrittenRowsListedOnce
<1>1. LoadedSoundly => UnwrittenRowsListedOnce
  <2> SUFFICES ASSUME LoadedSoundly, NEW n \in Nodes \ list.written
               PROVE  /\ Cardinality(Occurrences(n)) <= 1
                      /\ Complete => Cardinality(Occurrences(n)) = IF row[n] = NoName THEN 0 ELSE 1
    BY DEF UnwrittenRowsListedOnce
  <2>1. row \in Rows /\ Good(row, list)
    BY DEF LoadedSoundly, ListPart
  <2>2. /\ \A o \in Occurrences(n) : Within(row, list.pages, o[1], n)
        /\ \A a, b \in Occurrences(n) : a = b
    BY <2>1, AtMostOnce
  <2>3. CASE Occurrences(n) = {}
    <3>1. Cardinality(Occurrences(n)) = 0
      BY <2>3, FS_EmptySet
    <3>2. Complete => row[n] = NoName
      BY <2>1, <2>3, OnSomePage
    <3> QED
      BY <3>1, <3>2
  <2>4. CASE Occurrences(n) # {}
    <3>1. PICK o : Occurrences(n) = {o}
      BY <2>2, <2>4
    <3>2. Cardinality(Occurrences(n)) = 1
      BY <3>1, FS_Singleton
    <3>3. row[n] # NoName
      BY <2>2, <3>1 DEF Within
    <3> QED
      BY <3>2, <3>3
  <2> QED
    BY <2>3, <2>4
<1> QED
  BY <1>1, LoadedAlways, PTL

-----------------------------------------------------------------------------
(* What a list shows is true, or the cache knows better, or a rename that  *)
(* is shown before its answer is on its way.                               *)

Counts(w, x) == (w \in Others /\ x.pc # "idle") \/ x.pc = "lost" \/ x.pc = "ok"

Faithful(r, l, ws) ==
    /\ \A i \in 1 .. Len(l.pages) : \A it \in l.pages[i].items :
          it.id \in Nodes \ l.written => it.name = r[it.id]
    /\ \A n \in l.written : \E w \in Writes : ws[w].id = n /\ Counts(w, ws[w])

Shows(x) == x.op = "renameFolder" /\ x.pc \in {"sent", "ok", "refused"}

Excused(d, ws) == d \/ \E w \in Own : Shows(ws[w])

ListsFaithful ==
    /\ Faithful(row, list, listWrite) \/ invalid \/ Excused(dropped, listWrite)
    /\ fetch.kind = "all" => Faithful(row, fetch.got, listWrite)
    /\ fetch.kind = "next" => Faithful(row, fetch.got, listWrite) \/ Excused(dropped, listWrite)
    /\ fetch.kind # "none" =>
          Faithful(row, fetch.back, listWrite) \/ fetch.invalid \/ Excused(dropped, listWrite)

\* A list stays faithful while the writes that count go on counting, and an
\* excuse while the rename is on its way.
Carries(ws, vs) ==
    \A v \in Writes : Counts(v, ws[v]) => vs[v].id = ws[v].id /\ Counts(v, vs[v])

Excuses(ws, vs) == \A v \in Own : Shows(ws[v]) => Shows(vs[v])

LEMMA UnloadedIsFaithful ==
  ASSUME NEW r, NEW ws
  PROVE  Faithful(r, Unloaded, ws)
<1>1. Unloaded.pages = << >> /\ Unloaded.written = {} /\ Len(<< >>) = 0
  BY DEF Unloaded
<1> QED
  BY <1>1 DEF Faithful

LEMMA CarriedFaithful ==
  ASSUME NEW r, NEW l, NEW ws, NEW vs, Faithful(r, l, ws), Carries(ws, vs)
  PROVE  Faithful(r, l, vs)
<1>1. ASSUME NEW n \in l.written PROVE \E w \in Writes : vs[w].id = n /\ Counts(w, vs[w])
  <2>1. PICK w \in Writes : ws[w].id = n /\ Counts(w, ws[w])
    BY DEF Faithful
  <2> QED
    BY <2>1 DEF Carries
<1> QED
  BY <1>1 DEF Faithful

LEMMA CarriedExcuse ==
  ASSUME NEW d, NEW ws, NEW vs, Excused(d, ws), Excuses(ws, vs)
  PROVE  Excused(d, vs)
BY DEF Excused, Excuses

\* The page that is read shows what the rows are.
LEMMA ExtendedIsFaithful ==
  ASSUME row \in Rows, NEW l, Good(row, l), NEW ws, Faithful(row, l, ws)
  PROVE  Faithful(row, Extended(l), ws)
<1> DEFINE g == Extended(l)
<1>1. l \in Listing
  BY DEF Good
<1>2. /\ g.written = l.written
      /\ Len(g.pages) = Len(l.pages) + 1 /\ Len(l.pages) \in Nat
      /\ \A i \in 1 .. Len(l.pages) : g.pages[i] = l.pages[i]
      /\ g.pages[Len(l.pages) + 1] = Page(NextCursor(l))
  BY <1>1, ExtendedPages
<1>3. \A it \in Page(NextCursor(l)).items : it.name = row[it.id]
  BY <1>1, NextIsCursor, PageFacts
<1> HIDE DEF g
<1>4. ASSUME NEW i \in 1 .. Len(g.pages), NEW it \in g.pages[i].items, it.id \in Nodes \ g.written
      PROVE  it.name = row[it.id]
  <2>1. CASE i \in 1 .. Len(l.pages)
    BY <1>2, <1>4, <2>1 DEF Faithful
  <2>2. CASE i = Len(l.pages) + 1
    BY <1>2, <1>3, <1>4, <2>2
  <2> QED
    BY <1>2, <2>1, <2>2
<1> QED
  BY <1>2, <1>4 DEF Faithful, g

\* A write of row n that the API has served counts for it.
LEMMA NotedIsFaithful ==
  ASSUME NEW r, NEW s, NEW l \in Listing, NEW ws, NEW vs, Faithful(r, l, ws), NEW n \in Nodes,
         \A m \in Nodes \ {n} : s[m] = r[m],
         \E w \in Writes : vs[w].id = n /\ Counts(w, vs[w]),
         Carries(ws, vs)
  PROVE  Faithful(s, Noted(l, n), vs)
<1> DEFINE g == Noted(l, n)
<1>1. /\ g.pages = l.pages
      /\ g.written = IF l.pages = << >> THEN l.written ELSE l.written \cup {n}
  BY NotedPages
<1> HIDE DEF g
<1>2. Faithful(r, l, vs)
  BY CarriedFaithful
<1>3. ASSUME NEW i \in 1 .. Len(l.pages), NEW it \in l.pages[i].items, it.id \in Nodes \ g.written
      PROVE  it.name = s[it.id]
  <2>1. l.pages # << >>
    <3>1. l.pages = << >> => 1 .. Len(l.pages) = {}
      OBVIOUS
    <3> QED
      BY <3>1
  <2>2. it.id \in Nodes \ l.written /\ it.id # n
    BY <1>1, <1>3, <2>1
  <2> QED
    BY <1>2, <2>2 DEF Faithful
<1>4. \A m \in g.written : \E w \in Writes : vs[w].id = m /\ Counts(w, vs[w])
  BY <1>1, <1>2 DEF Faithful
<1> QED
  BY <1>1, <1>3, <1>4 DEF Faithful, g

\* Nothing but the writes changes, and those that count go on counting.
LEMMA CarriedLists ==
  ASSUME ListsFaithful, row' = row, Unfetched, Carries(listWrite, listWrite'),
         Excuses(listWrite, listWrite')
  PROVE  ListsFaithful'
<1>1. PICK ws : ws = listWrite'
  OBVIOUS
<1>2. \A l : Faithful(row, l, listWrite) => Faithful(row, l, ws)
  BY <1>1, CarriedFaithful
<1>3. Excused(dropped, listWrite) => Excused(dropped, ws)
  BY <1>1, CarriedExcuse
<1>4. list' = list /\ invalid' = invalid /\ fetch' = fetch /\ dropped' = dropped
  BY DEF Unfetched
<1> QED
  BY <1>1, <1>2, <1>3, <1>4 DEF ListsFaithful

\* An invalidation is its own excuse.
LEMMA InvalidateFaithful ==
  ASSUME ListPart, NEW l, Good(row, l), Invalidate(l)
  PROVE  ListsFaithful'
<1>1. list' = l /\ invalid' = TRUE /\ fetch' = IF mounted THEN FetchAll(l, TRUE) ELSE fetch
  BY DEF Invalidate
<1>2. CASE mounted
  <2>1. fetch'.kind = "all" /\ fetch'.got = Unloaded /\ fetch'.invalid = TRUE
    BY <1>1, <1>2, FetchAllIsSound
  <2>2. Faithful(row', Unloaded, listWrite')
    BY UnloadedIsFaithful
  <2> QED
    BY <1>1, <2>1, <2>2 DEF ListsFaithful
<1>3. CASE ~mounted
  <2>1. fetch'.kind = "none"
    BY <1>1, <1>3 DEF ListPart, FetchOf
  <2> QED
    BY <1>1, <2>1 DEF ListsFaithful
<1> QED
  BY <1>2, <1>3

\* One write changes.
LEMMA OneWriteCarries ==
  ASSUME NEW w \in Writes, NEW x, listWrite \in [Writes -> WriteOf],
         listWrite' = [listWrite EXCEPT ![w] = x],
         Counts(w, listWrite[w]) => x.id = listWrite[w].id /\ Counts(w, x),
         w \in Own /\ Shows(listWrite[w]) => Shows(x)
  PROVE  Carries(listWrite, listWrite') /\ Excuses(listWrite, listWrite')
<1>1. \A v \in Writes : listWrite'[v] = IF v = w THEN x ELSE listWrite[v]
  OBVIOUS
<1>2. \A v \in Own : v \in Writes
  BY DEF Writes
<1> QED
  BY <1>1, <1>2 DEF Carries, Excuses

LEMMA ReadingFaithful ==
  ASSUME LoadedSoundly, ListsFaithful, ReadPage
  PROVE  ListsFaithful'
<1> DEFINE got == Extended(fetch.got)
           over == Page(NextCursor(fetch.got)).next = NoCursor \/ Len(got.pages) = fetch.size
<1>1. /\ fetch.kind # "none" /\ row' = row /\ listWrite' = listWrite
      /\ IF over
           THEN /\ list' = got /\ invalid' = FALSE /\ fetch' = NoFetch
                /\ dropped' = (dropped /\ fetch.kind = "next")
           ELSE /\ fetch' = [fetch EXCEPT !.got = got]
                /\ list' = list /\ invalid' = invalid /\ dropped' = dropped
  BY DEF ReadPage, Extended
<1>2. row \in Rows /\ Good(row, fetch.got) /\ fetch \in FetchOf
  BY DEF LoadedSoundly, ListPart
<1>3. Faithful(row, fetch.got, listWrite) => Faithful(row, got, listWrite)
  BY <1>2, ExtendedIsFaithful
<1>4. fetch.kind \in {"all", "next"} /\ dropped \in BOOLEAN
  BY <1>1, <1>2 DEF FetchOf, LoadedSoundly, ListPart
<1>5. /\ fetch.kind = "all" => Faithful(row, got, listWrite)
      /\ fetch.kind = "next" => Faithful(row, got, listWrite) \/ Excused(dropped, listWrite)
  BY <1>3 DEF ListsFaithful
<1> HIDE DEF got
<1>6. CASE over
  <2>1. list' = got /\ fetch'.kind = "none" /\ dropped' = (dropped /\ fetch.kind = "next")
    BY <1>1, <1>6, NoFetchIsSound
  <2>2. fetch.kind = "next" => Excused(dropped', listWrite) = Excused(dropped, listWrite)
    BY <1>4, <2>1 DEF Excused
  <2> QED
    BY <1>1, <1>4, <1>5, <2>1, <2>2 DEF ListsFaithful
<1>7. CASE ~over
  <2>1. /\ fetch'.got = got /\ fetch'.kind = fetch.kind
        /\ fetch'.back = fetch.back /\ fetch'.invalid = fetch.invalid
    BY <1>1, <1>2, <1>7 DEF FetchOf
  <2> QED
    BY <1>1, <1>5, <1>7, <2>1 DEF ListsFaithful
<1> QED
  BY <1>6, <1>7

LEMMA ViewingFaithful ==
  ASSUME LoadedSoundly, ListsFaithful,
         EnterFolder \/ LeaveFolder \/ RefetchList \/ LoadMore \/ FetchFails
  PROVE  ListsFaithful'
<1>1. row' = row /\ listWrite' = listWrite /\ Good(row, list) /\ invalid \in BOOLEAN /\ dropped \in BOOLEAN
  BY DEF EnterFolder, LeaveFolder, RefetchList, LoadMore, FetchFails, LoadedSoundly, ListPart
<1>2. CASE fetch' = FetchAll(list, invalid) /\ list' = list /\ invalid' = invalid /\ dropped' = dropped
  <2>1. fetch'.kind = "all" /\ fetch'.got = Unloaded /\ fetch'.back = list /\ fetch'.invalid = invalid
    BY <1>1, <1>2, FetchAllIsSound
  <2>2. Faithful(row, Unloaded, listWrite)
    BY UnloadedIsFaithful
  <2> QED
    BY <1>1, <1>2, <2>1, <2>2 DEF ListsFaithful
<1>3. CASE EnterFolder
  <2>1. list' = list /\ invalid' = invalid /\ dropped' = dropped
        /\ (fetch' = FetchAll(list, invalid) \/ fetch' = fetch)
    BY <1>3 DEF EnterFolder
  <2> QED
    BY <1>1, <1>2, <2>1 DEF ListsFaithful
<1>4. CASE LeaveFolder
  <2>1. /\ list' = Reverted /\ fetch' = NoFetch /\ dropped' = dropped
        /\ invalid' = IF fetch.kind = "none" THEN invalid ELSE fetch.invalid
    BY <1>4 DEF LeaveFolder
  <2>2. fetch'.kind = "none"
    BY <2>1, NoFetchIsSound
  <2>3. Faithful(row, Reverted, listWrite) \/ invalid' \/ Excused(dropped, listWrite)
    BY <2>1 DEF ListsFaithful, Reverted
  <2> QED
    BY <1>1, <2>1, <2>2, <2>3 DEF ListsFaithful
<1>5. CASE RefetchList
  BY <1>2, <1>5 DEF RefetchList
<1>6. CASE LoadMore
  <2>1. /\ list' = list /\ invalid' = invalid /\ dropped' = (dropped \/ invalid)
        /\ fetch'.kind = "next" /\ fetch'.got = list /\ fetch'.back = list
        /\ fetch'.invalid = invalid
    BY <1>6 DEF LoadMore
  <2>2. (invalid \/ Excused(dropped, listWrite)) => Excused(dropped', listWrite)
    BY <1>1, <2>1 DEF Excused
  <2> QED
    BY <1>1, <2>1, <2>2 DEF ListsFaithful
<1>7. CASE FetchFails
  <2>1. list' = list /\ invalid' = invalid /\ dropped' = dropped /\ fetch'.kind = "none"
    BY <1>7, NoFetchIsSound DEF FetchFails
  <2> QED
    BY <1>1, <2>1 DEF ListsFaithful
<1> QED
  BY <1>3, <1>4, <1>5, <1>6, <1>7

LEMMA StartingFaithful ==
  ASSUME LoadedSoundly, ListsFaithful, NEW w \in Writes, NEW op \in Op, NEW n \in Nodes,
         NEW nm \in Wanted, StartListWrite(w, op, n, nm)
  PROVE  ListsFaithful'
<1> DEFINE x == Sent(op, n, IF op = "delete" THEN NoName ELSE nm, Unloaded)
<1>1. listWrite' = [listWrite EXCEPT ![w] = x] /\ Unfetched /\ row' = row /\ listWrite[w].pc = "idle"
  BY DEF StartListWrite
<1>2. listWrite \in [Writes -> WriteOf]
  BY DEF LoadedSoundly, WritePart
<1>3. ~Counts(w, listWrite[w]) /\ ~Shows(listWrite[w])
  BY <1>1 DEF Counts, Shows
<1>4. Carries(listWrite, listWrite') /\ Excuses(listWrite, listWrite')
  BY <1>1, <1>2, <1>3, OneWriteCarries
<1> QED
  BY <1>1, <1>4, CarriedLists

LEMMA RenamingFaithful ==
  ASSUME LoadedSoundly, NEW w \in Writes, NEW n \in Nodes, NEW nm \in Wanted,
         RenameFolder(w, n, nm)
  PROVE  ListsFaithful'
<1>1. w \in Own /\ fetch' = NoFetch
      /\ listWrite' = [listWrite EXCEPT ![w] = Sent("renameFolder", n, nm, Reverted)]
  BY DEF RenameFolder
<1>2. listWrite'[w].op = "renameFolder" /\ listWrite'[w].pc = "sent"
  BY <1>1 DEF LoadedSoundly, WritePart, Sent
<1>3. Excused(dropped', listWrite') /\ fetch'.kind = "none"
  BY <1>1, <1>2, NoFetchIsSound DEF Excused, Shows
<1> QED
  BY <1>3 DEF ListsFaithful

LEMMA ServingFaithful ==
  ASSUME LoadedSoundly, ListsFaithful, NEW w \in Writes, listWrite[w].pc = "sent", Served(w)
  PROVE  ListsFaithful'
<1>1. PICK s, vs, n : s = row' /\ vs = listWrite' /\ n = listWrite[w].id
  OBVIOUS
<1>2. /\ n \in Nodes
      /\ \A m \in Nodes \ {n} : s[m] = row[m]
      /\ fetch'.got = Noted(fetch.got, n) /\ fetch'.back = Noted(fetch.back, n)
      /\ fetch'.kind = fetch.kind /\ fetch'.invalid = fetch.invalid
  BY <1>1, ServedSound DEF LoadedSoundly, WritePart
<1>3. \A v \in Writes :
         /\ vs[v].id = listWrite[v].id /\ vs[v].op = listWrite[v].op
         /\ vs[v].pc = IF v = w THEN "ok" ELSE listWrite[v].pc
  BY <1>1, ServedSound
<1>4. list' = Noted(list, n) /\ invalid' = invalid /\ dropped' = dropped
  BY <1>1 DEF Served
<1>5. Carries(listWrite, vs) /\ Excuses(listWrite, vs)
  BY <1>3 DEF Carries, Excuses, Counts, Shows, Writes
<1>6. \E v \in Writes : vs[v].id = n /\ Counts(v, vs[v])
  BY <1>1, <1>3 DEF Counts
<1>7. list \in Listing /\ fetch.got \in Listing /\ fetch.back \in Listing
  BY GoodIsListing DEF LoadedSoundly, ListPart
<1>8. \A l \in Listing : Faithful(row, l, listWrite) => Faithful(s, Noted(l, n), vs)
  BY <1>2, <1>5, <1>6, NotedIsFaithful
<1>9. Excused(dropped, listWrite) => Excused(dropped, vs)
  BY <1>5, CarriedExcuse
<1> QED
  BY <1>1, <1>2, <1>4, <1>7, <1>8, <1>9 DEF ListsFaithful

LEMMA RefusingFaithful ==
  ASSUME LoadedSoundly, ListsFaithful, NEW w \in Writes, listWrite[w].pc = "sent", Refused(w)
  PROVE  ListsFaithful'
<1> DEFINE x == [listWrite[w] EXCEPT !.pc = "refused"]
<1>1. listWrite' = [listWrite EXCEPT ![w] = x] /\ row' = row /\ Unfetched
  BY DEF Refused, Unfetched
<1>2. listWrite \in [Writes -> WriteOf] /\ listWrite[w] \in WriteOf
  BY DEF LoadedSoundly, WritePart
<1>3. x.pc = "refused" /\ x.op = listWrite[w].op /\ x.id = listWrite[w].id
  BY <1>2 DEF WriteOf
<1> HIDE DEF x
<1>4. Carries(listWrite, listWrite') /\ Excuses(listWrite, listWrite')
  BY <1>1, <1>2, <1>3, OneWriteCarries DEF Counts, Shows
<1> QED
  BY <1>1, <1>4, CarriedLists

LEMMA AnsweringFaithful ==
  ASSUME LoadedSoundly, ListsFaithful, NEW w \in Writes, Succeed(w) \/ Fail(w) \/ Lose(w)
  PROVE  ListsFaithful'
<1>1. PICK pc \in {"done", "lost"} :
         /\ Settled(w, pc) /\ listWrite[w].pc # "idle"
         /\ \/ pc = "done" /\ listWrite[w].pc = "ok" /\ Hear(w)
            \/ listWrite[w].pc = "refused" /\ (IF Optimistic(w) THEN RollBack(w) ELSE Unfetched)
            \/ pc = "lost" /\ (IF Optimistic(w) THEN RollBack(w) ELSE Unfetched)
  BY DEF Succeed, Fail, Lose
<1>2. CASE Invalidate(list) \/ Invalidate(listWrite[w].snapshot)
  <2>1. ListPart /\ Good(row, list) /\ Good(row, listWrite[w].snapshot)
    BY DEF LoadedSoundly, ListPart, WritePart
  <2> QED
    BY <1>2, <2>1, InvalidateFaithful
<1>3. CASE Unfetched /\ ((listWrite[w].pc = "ok" /\ pc = "done" /\ w \notin Own)
                          \/ (listWrite[w].pc = "refused" /\ ~Optimistic(w))
                          \/ (pc = "lost" /\ ~Optimistic(w)))
  <2> DEFINE x == [listWrite[w] EXCEPT !.pc = pc, !.snapshot = Unloaded]
  <2>1. row' = row /\ WritePart /\ listWrite[w] \in WriteOf /\ listWrite \in [Writes -> WriteOf]
    BY DEF LoadedSoundly, WritePart, Succeed, Fail, Lose
  <2>2. listWrite' = [listWrite EXCEPT ![w] = x]
    BY <1>1, <2>1, SettledSound
  <2>3. x.pc = pc /\ x.id = listWrite[w].id
    BY <2>1 DEF WriteOf
  <2>4. w \in Own => ~Shows(listWrite[w])
    BY <1>3 DEF Optimistic, Shows
  <2>5. w \in Own \cup Others
    BY DEF Writes
  <2> HIDE DEF x
  <2>6. Counts(w, listWrite[w]) => x.id = listWrite[w].id /\ Counts(w, x)
    BY <1>3, <2>3, <2>5 DEF Counts
  <2>7. Carries(listWrite, listWrite') /\ Excuses(listWrite, listWrite')
    BY <2>1, <2>2, <2>4, <2>6, OneWriteCarries
  <2> QED
    BY <1>3, <2>1, <2>7, CarriedLists
<1> QED
  BY <1>1, <1>2, <1>3 DEF Hear, RollBack

LEMMA FaithfulInit ==
  ASSUME FolderInit
  PROVE  ListsFaithful
<1>1. list = Unloaded /\ fetch.kind = "none"
  BY NoFetchIsSound DEF FolderInit
<1> QED
  BY <1>1, UnloadedIsFaithful DEF ListsFaithful

LEMMA FaithfulStep ==
  ASSUME LoadedSoundly, ListsFaithful, [FolderNext]_folderVars
  PROVE  ListsFaithful'
<1>1. CASE UNCHANGED folderVars
  BY <1>1 DEF folderVars, ListsFaithful
<1>2. CASE EnterFolder \/ LeaveFolder \/ RefetchList \/ LoadMore \/ ReadPage \/ FetchFails
  BY <1>2, ReadingFaithful, ViewingFaithful
<1>3. ASSUME NEW w \in Writes, NEW op \in Op, NEW n \in Nodes, NEW nm \in Wanted,
             StartListWrite(w, op, n, nm)
      PROVE  ListsFaithful'
  BY <1>3, StartingFaithful
<1>4. ASSUME NEW w \in Writes, NEW n \in Nodes, NEW nm \in Wanted, RenameFolder(w, n, nm)
      PROVE  ListsFaithful'
  BY <1>4, RenamingFaithful
<1>5. ASSUME NEW w \in Writes, Apply(w) PROVE ListsFaithful'
  BY <1>5, ApplyCases, ServingFaithful, RefusingFaithful DEF LoadedSoundly
<1>6. ASSUME NEW w \in Writes, Succeed(w) \/ Fail(w) \/ Lose(w) PROVE ListsFaithful'
  BY <1>6, AnsweringFaithful
<1>7. CASE \E w \in Writes :
              \/ \E op \in Op, n \in Nodes, nm \in Wanted : StartListWrite(w, op, n, nm)
              \/ \E n \in Nodes, nm \in Wanted : RenameFolder(w, n, nm)
              \/ Apply(w) \/ Succeed(w) \/ Fail(w) \/ Lose(w)
  BY <1>3, <1>4, <1>5, <1>6, <1>7
<1> QED
  BY <1>1, <1>2, <1>7 DEF FolderNext

LEMMA FaithfulAlways == FolderSpec => []ListsFaithful
<1>1. FolderInit => ListsFaithful
  BY FaithfulInit
<1>2. LoadedSoundly /\ ListsFaithful /\ [FolderNext]_folderVars => ListsFaithful'
  BY FaithfulStep
<1> QED
  BY <1>1, <1>2, LoadedAlways, PTL DEF FolderSpec

\* When all is quiet nothing excuses the list.
LEMMA QuietIsFaithful ==
  ASSUME ListsFaithful, Quiet, ~dropped
  PROVE  Faithful(row, list, listWrite)
<1>1. ~invalid /\ \A w \in Own : ~Shows(listWrite[w])
  BY DEF Quiet, Pending, Shows
<1> QED
  BY <1>1 DEF ListsFaithful, Excused

\* When everything has settled, a row that was not written since shows the
\* name it has (ShownNamesAreReal).
THEOREM NamesAreReal == FolderSpec => []ShownNamesAreReal
<1>1. ListsFaithful => ShownNamesAreReal
  <2> SUFFICES ASSUME ListsFaithful, Quiet, ~dropped, NEW n \in Nodes \ list.written,
                      NEW o \in Occurrences(n)
               PROVE  o[2] = row[n]
    BY DEF ShownNamesAreReal
  <2>1. Faithful(row, list, listWrite)
    BY QuietIsFaithful
  <2>2. o[1] \in 1 .. Len(list.pages) /\ [id |-> n, name |-> o[2]] \in list.pages[o[1]].items
    BY DEF Occurrences
  <2> QED
    BY <2>1, <2>2 DEF Faithful
<1> QED
  BY <1>1, FaithfulAlways, PTL

\* When everything has settled, a row the list is behind on was written by
\* another tab, or the answer was lost (AnsweredWritesShow).
THEOREM AnswersAreShown == FolderSpec => []AnsweredWritesShow
<1>1. ListsFaithful => AnsweredWritesShow
  <2> SUFFICES ASSUME ListsFaithful, Quiet, ~dropped, NEW n \in list.written
               PROVE  Unheard(n)
    BY DEF AnsweredWritesShow
  <2>1. PICK w \in Writes : listWrite[w].id = n /\ Counts(w, listWrite[w])
    BY QuietIsFaithful DEF Faithful
  <2>2. w \in Own => listWrite[w].pc # "ok"
    BY DEF Quiet, Pending
  <2>3. w \in Own \/ w \in Others
    BY DEF Writes
  <2> QED
    BY <2>1, <2>2, <2>3 DEF Unheard, Counts
<1> QED
  BY <1>1, FaithfulAlways, PTL


=============================================================================
