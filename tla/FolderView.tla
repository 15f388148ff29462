------------------------------ MODULE FolderView ------------------------------
(***************************************************************************)
(* The list of one folder in a browser tab: what the API has, the pages    *)
(* the tab holds in its query cache, the fetch that is running, and the    *)
(* writes that are on their way, the tab's own and those of other tabs.    *)
(*                                                                         *)
(* The API answers one page at a time, after a cursor made from the last   *)
(* row of the page before.  The query cache (TanStack Query) runs one      *)
(* fetch at a time: one that reads every loaded page again and shows them  *)
(* when the last one is there, or one that appends the next page.          *)
(***************************************************************************)
EXTENDS Naturals, Sequences, FiniteSets

CONSTANTS
    Nodes,       \* row ids, ordered as the database orders them
    Kind,        \* Kind[n]: 1 for a folder, 2 for a file, as listings order them
    RowNames,    \* names, as the database orders them
    Wanted,      \* bound: the names writes ask for
    InitNames,   \* InitNames[n]: a row's name at the start, or NoName
    NoName,      \* no row
    PageLimit,   \* CHILDREN_PER_PAGE
    Own, Others, \* writes of this tab and of other tabs, each started once
    NoCursor     \* null: no page after this one

ASSUME ViewAssumption ==
    /\ Nodes \subseteq Nat /\ IsFiniteSet(Nodes)
    /\ RowNames \subseteq Nat /\ NoName \notin RowNames
    /\ Wanted \subseteq RowNames
    /\ Kind \in [Nodes -> {1, 2}]
    /\ InitNames \in [Nodes -> RowNames \cup {NoName}]
    /\ \A m, n \in Nodes : m # n /\ InitNames[m] # NoName => InitNames[m] # InitNames[n]
    /\ PageLimit \in Nat \ {0}
    /\ Own \cap Others = {}
    /\ NoCursor \notin [kind : {1, 2}, name : RowNames, id : Nodes]

Writes == Own \cup Others

VARIABLES
    row,       \* row[n]: the name of row n in the API's database, or NoName
    mounted,   \* the folder is on the screen
    list,      \* the pages in the cache, and as history the rows written since
               \*   the first of them was read
    invalid,   \* isInvalidated: the cache knows the list to be out of date
    fetch,     \* the fetch that is running
    listWrite, \* listWrite[w]: where it stands; snapshot: what a rename puts back
    dropped    \* history: LoadMore appended to a list that was out of date

folderVars == <<row, mounted, list, invalid, fetch, listWrite, dropped>>

Item == [id : Nodes, name : RowNames]
Cursor == [kind : {1, 2}, name : RowNames, id : Nodes]
PageOf == [items : SUBSET Item, next : Cursor \cup {NoCursor}]
Listing == [pages : Seq(PageOf), written : SUBSET Nodes]

Unloaded == [pages |-> << >>, written |-> {}]
NoFetch == [kind |-> "none", size |-> 0, got |-> Unloaded, back |-> Unloaded, invalid |-> FALSE]
NoListWrite == [pc |-> "idle", op |-> "create", id |-> 0, name |-> NoName, snapshot |-> Unloaded]

Op == {"create", "delete", "renameFile", "renameFolder"}

FolderTypeOK ==
    /\ row \in [Nodes -> RowNames \cup {NoName}]
    /\ mounted \in BOOLEAN /\ invalid \in BOOLEAN /\ dropped \in BOOLEAN
    /\ list \in Listing
    /\ \A i \in 1 .. Len(list.pages) : list.pages[i].next = NoCursor => i = Len(list.pages)
    /\ fetch \in [kind : {"none", "all", "next"}, size : Nat, got : Listing, back : Listing,
                  invalid : BOOLEAN]
    /\ listWrite \in [Writes -> [pc : {"idle", "sent", "ok", "refused", "done", "lost"}, op : Op,
                                 id : Nodes \cup {0}, name : RowNames \cup {NoName}, snapshot : Listing]]

FolderInit ==
    /\ row = InitNames
    /\ mounted = FALSE
    /\ list = Unloaded
    /\ invalid = FALSE
    /\ fetch = NoFetch
    /\ listWrite = [w \in Writes |-> NoListWrite]
    /\ dropped = FALSE

----------------------------------------------------------------------------
(* The API's listing.                                                      *)

\* orderBy: type, name, id.
Precedes(m, n) ==
    \/ Kind[m] < Kind[n]
    \/ Kind[m] = Kind[n] /\ (row[m] < row[n] \/ (row[m] = row[n] /\ m < n))

\* Mutant: the rows after the cursor's name, whatever their type.
AfterByName(c, n) == row[n] > c.name \/ (row[n] = c.name /\ n > c.id)

\* afterChildCursor.
After(c, n) ==
    \/ Kind[n] > c.kind
    \/ Kind[n] = c.kind /\ (row[n] > c.name \/ (row[n] = c.name /\ n > c.id))

CursorOf(n) == [kind |-> Kind[n], name |-> row[n], id |-> n]

\* listChildren and toPage: the first rows after c, and the cursor of the
\* last of them if there are more.
Page(c) ==
    LET rest == {n \in Nodes : row[n] # NoName /\ (c = NoCursor \/ After(c, n))}
        before(n) == {m \in rest : Precedes(m, n)}
        shown == {n \in rest : Cardinality(before(n)) < PageLimit}
        last == CHOOSE n \in shown : before(n) = shown \ {n}
    IN [items |-> {[id |-> n, name |-> row[n]] : n \in shown},
        next |-> IF shown = rest THEN NoCursor ELSE CursorOf(last)]

----------------------------------------------------------------------------
(* The query cache.                                                        *)

NextCursor(l) == IF l.pages = << >> THEN NoCursor ELSE l.pages[Len(l.pages)].next

Loaded == list.pages # << >>

\* fetch: what is running is cancelled without a trace.
FetchAll(l, inv) ==
    [kind |-> "all", size |-> IF l.pages = << >> THEN 1 ELSE Len(l.pages),
     got |-> Unloaded, back |-> l, invalid |-> inv]

\* invalidateQueries, on the list l: a mounted query is fetched at once, and
\* what is running starts over.
Invalidate(l) ==
    /\ list' = l
    /\ invalid' = TRUE
    /\ fetch' = IF mounted THEN FetchAll(l, TRUE) ELSE fetch
    /\ UNCHANGED <<mounted, dropped>>

\* cancelQueries puts back what there was when the fetch started.
Reverted == IF fetch.kind = "none" THEN list ELSE fetch.back

Unfetched == UNCHANGED <<mounted, list, invalid, fetch, dropped>>

EnterFolder ==
    /\ ~mounted
    /\ mounted' = TRUE
    /\ \/ fetch' = FetchAll(list, invalid)
       \/ Loaded /\ ~invalid /\ UNCHANGED fetch
    /\ UNCHANGED <<row, list, invalid, listWrite, dropped>>

\* The query function uses the signal: leaving cancels the fetch.
LeaveFolder ==
    /\ mounted
    /\ mounted' = FALSE
    /\ list' = Reverted
    /\ invalid' = IF fetch.kind = "none" THEN invalid ELSE fetch.invalid
    /\ fetch' = NoFetch
    /\ UNCHANGED <<row, listWrite, dropped>>

\* The window is focused, or the reader retries.
RefetchList ==
    /\ mounted /\ fetch.kind = "none"
    /\ fetch' = FetchAll(list, invalid)
    /\ UNCHANGED <<row, mounted, list, invalid, listWrite, dropped>>

\* The button, or the observer on it: only a fetch of the next page holds it
\* back, a refetch is cancelled.
LoadMore ==
    /\ mounted /\ Loaded /\ fetch.kind # "next"
    /\ NextCursor(list) # NoCursor
    /\ fetch' = [kind |-> "next", size |-> Len(list.pages) + 1,
                 got |-> list, back |-> list, invalid |-> invalid]
    /\ dropped' = (dropped \/ invalid)
    /\ UNCHANGED <<row, mounted, list, invalid, listWrite>>

\* Mutant: the loop goes on after a page without a cursor.
ReadPageUnending ==
    LET page == Page(NextCursor(fetch.got))
        got == [fetch.got EXCEPT !.pages = Append(@, page)]
        over == Len(got.pages) = fetch.size
    IN /\ fetch.kind # "none"
       /\ IF over
            THEN /\ list' = got /\ invalid' = FALSE /\ fetch' = NoFetch
                 /\ dropped' = (dropped /\ fetch.kind = "next")
            ELSE /\ fetch' = [fetch EXCEPT !.got = got]
                 /\ UNCHANGED <<list, invalid, dropped>>
       /\ UNCHANGED <<row, mounted, listWrite>>

\* One page; with the last one the fetch is over and its pages are the list.
ReadPage ==
    LET page == Page(NextCursor(fetch.got))
        got == [fetch.got EXCEPT !.pages = Append(@, page)]
        over == page.next = NoCursor \/ Len(got.pages) = fetch.size
    IN /\ fetch.kind # "none"
       /\ IF over
            THEN /\ list' = got /\ invalid' = FALSE /\ fetch' = NoFetch
                 /\ dropped' = (dropped /\ fetch.kind = "next")
            ELSE /\ fetch' = [fetch EXCEPT !.got = got]
                 /\ UNCHANGED <<list, invalid, dropped>>
       /\ UNCHANGED <<row, mounted, listWrite>>

\* For good, after the retries.
FetchFails ==
    /\ fetch.kind # "none"
    /\ fetch' = NoFetch
    /\ UNCHANGED <<row, mounted, list, invalid, listWrite, dropped>>

----------------------------------------------------------------------------
(* Writes.                                                                 *)

Listed(n) == \E i \in 1 .. Len(list.pages) : \E it \in list.pages[i].items : it.id = n

Sent(op, n, nm, snapshot) ==
    [pc |-> "sent", op |-> op, id |-> n, name |-> nm, snapshot |-> snapshot]

\* A folder created, a file uploaded or moved in; a row deleted or moved
\* out; a file renamed: nothing is shown before the answer.
StartListWrite(w, op, n, nm) ==
    /\ listWrite[w].pc = "idle" /\ op # "renameFolder"
    /\ IF op = "create" THEN row[n] = NoName /\ InitNames[n] = NoName ELSE row[n] # NoName
    /\ op = "renameFile" => Kind[n] = 2
    /\ w \in Own => mounted /\ Loaded /\ (op # "create" => Listed(n))
    /\ listWrite' = [listWrite EXCEPT ![w] = Sent(op, n, IF op = "delete" THEN NoName ELSE nm, Unloaded)]
    /\ Unfetched /\ UNCHANGED row

\* withRenamedChild.
Renamed(l, n, nm) ==
    [l EXCEPT !.pages =
        [i \in 1 .. Len(l.pages) |->
            [l.pages[i] EXCEPT !.items = {IF it.id = n THEN [it EXCEPT !.name = nm] ELSE it : it \in @}]]]

\* useRenameNode.onMutate: cancel, remember, patch; patching makes the list valid.
RenameFolder(w, n, nm) ==
    /\ listWrite[w].pc = "idle" /\ w \in Own
    /\ mounted /\ Listed(n) /\ Kind[n] = 1
    /\ listWrite' = [listWrite EXCEPT ![w] = Sent("renameFolder", n, nm, Reverted)]
    /\ list' = Renamed(Reverted, n, nm) /\ invalid' = FALSE /\ fetch' = NoFetch
    /\ UNCHANGED <<row, mounted, dropped>>

Noted(l, n) == [l EXCEPT !.written = IF l.pages = << >> THEN @ ELSE @ \cup {n}]

Taken(n, nm) == \E m \in Nodes \ {n} : row[m] = nm

\* The name the API gives row n: the one asked for, if it is free; another one,
\* suffixed, for a file.
Given(n, nm) ==
    IF nm = NoName \/ ~Taken(n, nm) THEN {nm}
    ELSE IF Kind[n] = 2 THEN {new \in RowNames : ~Taken(n, new)}
    ELSE {}

\* The API serves w: the row is written, or it has gone or the name is taken
\* (by then also a file's, when its retries are used up).
Apply(w) ==
    LET n == listWrite[w].id
        nm == listWrite[w].name
        there == row[n] # NoName <=> listWrite[w].op # "create"
    IN /\ listWrite[w].pc = "sent"
       /\ \/ /\ there
             /\ \E new \in Given(n, nm) : row' = [row EXCEPT ![n] = new]
             /\ listWrite' = [v \in Writes |->
                   [listWrite[v] EXCEPT !.pc = IF v = w THEN "ok" ELSE @, !.snapshot = Noted(@, n)]]
             /\ list' = Noted(list, n)
             /\ fetch' = [fetch EXCEPT !.got = Noted(@, n), !.back = Noted(@, n)]
          \/ /\ ~there \/ (nm # NoName /\ Taken(n, nm))
             /\ listWrite' = [listWrite EXCEPT ![w].pc = "refused"]
             /\ UNCHANGED <<row, list, fetch>>
       /\ UNCHANGED <<mounted, invalid, dropped>>

Settled(w, pc) == listWrite' = [listWrite EXCEPT ![w].pc = pc, ![w].snapshot = Unloaded]

Optimistic(w) == w \in Own /\ listWrite[w].op = "renameFolder"

\* Mutant: only a success invalidates.
RollBackQuietly(w) ==
    /\ list' = listWrite[w].snapshot /\ invalid' = FALSE
    /\ UNCHANGED <<mounted, fetch, dropped>>

\* onError puts the snapshot back, onSettled invalidates.
RollBack(w) == Invalidate(listWrite[w].snapshot)

\* Mutant: the answer invalidates nothing.
SucceedQuietly(w) ==
    /\ listWrite[w].pc = "ok"
    /\ Settled(w, "done")
    /\ Unfetched
    /\ UNCHANGED row

\* A tab hears of its own writes, an upload's commit among them.
Hear(w) == IF w \in Own THEN Invalidate(list) ELSE Unfetched

\* onSuccess, or onSettled of a folder's rename.
Succeed(w) ==
    /\ listWrite[w].pc = "ok"
    /\ Settled(w, "done")
    /\ Hear(w)
    /\ UNCHANGED row

Fail(w) ==
    /\ listWrite[w].pc = "refused"
    /\ Settled(w, "done")
    /\ IF Optimistic(w) THEN RollBack(w) ELSE Unfetched
    /\ UNCHANGED row

\* The request, or its answer, gets lost.
Lose(w) ==
    /\ listWrite[w].pc \in {"sent", "ok", "refused"}
    /\ w \in Own
    /\ Settled(w, "lost")
    /\ IF Optimistic(w) THEN RollBack(w) ELSE Unfetched
    /\ UNCHANGED row

----------------------------------------------------------------------------

FolderNext ==
    \/ EnterFolder \/ LeaveFolder \/ RefetchList \/ LoadMore \/ ReadPage \/ FetchFails
    \/ \E w \in Writes :
          \/ \E op \in Op, n \in Nodes, nm \in Wanted : StartListWrite(w, op, n, nm)
          \/ \E n \in Nodes, nm \in Wanted : RenameFolder(w, n, nm)
          \/ Apply(w) \/ Succeed(w) \/ Fail(w) \/ Lose(w)

FolderSpec == FolderInit /\ [][FolderNext]_folderVars

----------------------------------------------------------------------------
(* Properties.                                                             *)

Occurrences(n) == {o \in (1 .. Len(list.pages)) \X RowNames :
                      [id |-> n, name |-> o[2]] \in list.pages[o[1]].items}

Complete == Loaded /\ NextCursor(list) = NoCursor

Pending(w) == listWrite[w].pc \in {"sent", "ok", "refused"}

\* Nothing is on its way and the cache takes its list to be up to date.
Quiet == Loaded /\ ~invalid /\ fetch.kind = "none" /\ \A w \in Own : ~Pending(w)

\* A row that nobody writes while the list is loaded page by page, from its
\* first page on, is in it once and not twice, whatever happens to the rows
\* around it and to the row the cursor was made from.
UnwrittenRowsListedOnce ==
    \A n \in Nodes \ list.written :
        /\ Cardinality(Occurrences(n)) <= 1
        /\ Complete => Cardinality(Occurrences(n)) = (IF row[n] = NoName THEN 0 ELSE 1)

\* When everything has settled, a row that was not written since shows the
\* name it has: no optimistic name outlives its rename, whichever of several
\* renames is refused first (LoadMore as below).
ShownNamesAreReal ==
    Quiet /\ ~dropped => \A n \in Nodes \ list.written : \A o \in Occurrences(n) : o[2] = row[n]

Unheard(n) == \E w \in Writes : listWrite[w].id = n /\ (w \in Others \/ listWrite[w].pc = "lost")

\* When everything has settled, a row the list is behind on was written by
\* another tab or by a write of this tab whose answer was lost: no answer is
\* followed by a list from before it, unless LoadMore appended to that list.
AnsweredWritesShow == Quiet /\ ~dropped => \A n \in list.written : Unheard(n)

=============================================================================
