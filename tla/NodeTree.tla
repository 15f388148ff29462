------------------------------ MODULE NodeTree ------------------------------
(***************************************************************************)
(* The tree of one Data Room as the folders and files modules write it:    *)
(* folders and files are rows of one table, siblings have different names  *)
(* after normalisation, and a row's path lists its ancestors.              *)
(*                                                                         *)
(* A request reads what it works on, asks for a free name (files only) and *)
(* writes; anything may happen in between.  The unique index on            *)
(* (parent_id, normalized_name) and the foreign key on parent_id decide at *)
(* the write.                                                              *)
(*                                                                         *)
(* A folder's path never changes once it is inserted (only files move), so *)
(* a path derived from a parent read earlier is the parent's path still.   *)
(***************************************************************************)
EXTENDS Naturals, Sequences, FiniteSets

CONSTANTS
    Folders, Files,  \* the node ids there are, used or not
    Root,            \* the room's root folder
    InitNodes,       \* the nodes that exist at the start, all directly below Root
    InitNames,       \* bound: the names they may have
    Stems,           \* spellings of names
    Asked,           \* bound: the spellings requests ask for
    Fold,            \* normalizeNodeName, on a spelling
    Requests,        \* HTTP requests; each is served once
    None,            \* no node
    MaxDepth,        \* MAX_FOLDER_DEPTH
    ProbeBatch,      \* NAME_PROBE_BATCH
    ProbeLimit,      \* NAME_PROBE_LIMIT
    Retries,         \* CONFLICT_RETRIES
    MaxSuffixes      \* bound: suffixes a file's name may have when it is moved

Nodes == Folders \cup Files

ASSUME TreeAssumption ==
    /\ Root \in Folders
    /\ InitNodes \subseteq Nodes \ {Root}
    /\ Folders \cap Files = {}
    /\ None \notin Folders \cup Files

\* A name is a spelling and the numbers of its " (n)" suffixes: "report (1)
\* (2).pdf" is <<report, 1, 2>>.  The extension is the same for every file.
Name == {n \in Seq(Nat) : n # << >> /\ n[1] \in Stems}

ASSUME NamesAssumption ==
    /\ Stems \subseteq Nat /\ Asked \subseteq Stems
    /\ Fold \in [Stems -> Stems]
    /\ InitNames \subseteq Name

ASSUME BoundsAssumption ==
    /\ MaxDepth \in Nat \ {0}
    /\ ProbeBatch \in Nat \ {0}
    /\ ProbeLimit \in Nat \ {0}
    /\ Retries \in Nat \ {0}
    /\ MaxSuffixes \in Nat

VARIABLES
    state,     \* state[n]: "unused", "PENDING", "READY" (a folder: null) or "gone"
    parent,    \* parent[n]: parentId; None for the root
    path,      \* path[n]: the ancestors' ids, root first
    depth,     \* depth[n]
    name,      \* name[n], the root's left out; normalizedName is Normalize(name[n])
    req        \* req[r]: where request r stands, what it has read, and as history
               \*   rivals: the names others took in its folder since it started
               \*   outdated: what others did to its file since it read it

treeVars == <<state, parent, path, depth, name>>
vars == <<treeVars, req>>

Op == {"createFolder", "renameNode", "reserveFile", "renameFile", "moveFile"}

Normalize(n) == <<Fold[n[1]]>> \o Tail(n)

Idle == [pc |-> "idle", op |-> "createFolder", id |-> None, dir |-> Root,
         want |-> << >>, cand |-> << >>, from |-> 0, tries |-> 0, rivals |-> 0, outdated |-> {}]

HasRow(n) == state[n] \in {"PENDING", "READY"}

Request ==
    [pc : {"idle", "target", "probe", "write", "answered", "refused"}, op : Op,
     id : Nodes \cup {None}, dir : Folders, want : Seq(Nat), cand : Seq(Nat),
     from : Nat, tries : Nat, rivals : 0 .. Retries, outdated : SUBSET {"renamed", "moved"}]

\* A request in progress asks for a name and knows what it works on.
RequestOK(q) ==
    /\ q.pc \in {"target", "probe", "write"} => q.want \in Name
    /\ q.pc = "write" => q.cand \in Name
    /\ q.pc \in {"target", "probe", "write"} =>
         /\ q.op = "renameNode" => q.id \in Folders \ {Root}
         /\ q.op \in {"renameFile", "moveFile"} => q.id \in Files
         /\ q.op \in {"createFolder", "reserveFile"} => q.id = None
    /\ q.pc \in {"target", "probe"} => q.op \in {"reserveFile", "renameFile", "moveFile"}

TypeOK ==
    /\ state \in [Nodes -> {"unused", "PENDING", "READY", "gone"}]
    /\ parent \in [Nodes -> Folders \cup {None}]
    /\ path \in [Nodes -> Seq(Folders)]
    /\ depth \in [Nodes -> Nat]
    /\ name \in [Nodes -> Seq(Nat)]
    /\ \A n \in Nodes \ {Root} : HasRow(n) => name[n] \in Name
    /\ req \in [Requests -> Request]
    /\ \A r \in Requests : RequestOK(req[r])

Init ==
    /\ state = [n \in Nodes |-> IF n \in InitNodes \cup {Root} THEN "READY" ELSE "unused"]
    /\ parent = [n \in Nodes |-> IF n \in InitNodes THEN Root ELSE None]
    /\ path = [n \in Nodes |-> IF n \in InitNodes THEN <<Root>> ELSE << >>]
    /\ depth = [n \in Nodes |-> IF n \in InitNodes THEN 1 ELSE 0]
    /\ \E given \in [InitNodes -> InitNames] :
          /\ \A a, b \in InitNodes : a # b => Normalize(given[a]) # Normalize(given[b])
          /\ name = [n \in Nodes |-> IF n \in InitNodes THEN given[n] ELSE << >>]
    /\ req = [r \in Requests |-> Idle]

----------------------------------------------------------------------------
(* Names and positions.                                                    *)

nthCandidateName(n, i) == IF i = 0 THEN n ELSE Append(n, i)

Children(d) == {n \in Nodes : HasRow(n) /\ parent[n] = d}

\* Mutant: the index is on the name as it is written.
TakenAsWritten(d, nm, n) == \E m \in Children(d) \ {n} : name[m] = nm

\* The unique index: n may not be given this name under d.
Taken(d, nm, n) == \E m \in Children(d) \ {n} : Normalize(name[m]) = Normalize(nm)

subtreePrefixOf(d) == Append(path[d], d)

\* path LIKE prefix%.
Below(d) == {n \in Nodes : /\ HasRow(n)
                           /\ Len(path[n]) > Len(path[d])
                           /\ SubSeq(path[n], 1, Len(path[d]) + 1) = subtreePrefixOf(d)}

----------------------------------------------------------------------------
(* How a request goes on.                                                  *)

Begin(r, step, op, id, d, nm) ==
    /\ req[r].pc = "idle"
    /\ req' = [req EXCEPT ![r] = [Idle EXCEPT !.pc = step, !.op = op, !.id = id, !.dir = d,
                                              !.want = nm,
                                              !.cand = IF step = "write" THEN nm ELSE << >>]]
    /\ UNCHANGED treeVars

Answered == [Idle EXCEPT !.pc = "answered"]

Answer(r) == req' = [req EXCEPT ![r] = Answered]

\* Request r is answered after it has written a name under d, and done what
\* `how` says to the file f.
AnswerWritten(r, d, f, how) ==
    req' = [q \in Requests |->
              IF q = r THEN Answered
              ELSE [req[q] EXCEPT
                      !.rivals = IF /\ req[q].dir = d /\ req[q].pc \in {"probe", "write"}
                                    /\ @ < Retries
                                 THEN @ + 1 ELSE @,
                      !.outdated = IF f # None /\ req[q].id = f THEN @ \cup how ELSE @]]

\* 409 NAME_CONFLICT.
Refuse(r) == req' = [req EXCEPT ![r].pc = "refused"]

\* Mutant: the loop gives up after the first lost write.
RefuseAtOnce(r) == Refuse(r)

\* The index arbitrated against r: a file probes once more, a folder is refused.
LoseRace(r) ==
    IF req[r].op \in {"createFolder", "renameNode"} \/ req[r].tries + 1 = Retries
    THEN Refuse(r)
    ELSE req' = [req EXCEPT ![r] = [@ EXCEPT !.pc = "probe", !.from = 0,
                                             !.tries = req[r].tries + 1]]

----------------------------------------------------------------------------
(* The reads every operation starts with.                                  *)

StartCreateFolder(r, d, nm) ==
    /\ HasRow(d)
    /\ depth[d] + 1 <= MaxDepth
    /\ Begin(r, "write", "createFolder", None, d, nm)

\* renameFolder: the root is renamed through the Data Room.
StartRenameFolder(r, d, nm) ==
    /\ HasRow(d) /\ d # Root
    /\ Begin(r, "write", "renameNode", d, parent[d], nm)

StartReserveFile(r, d, nm) ==
    /\ HasRow(d)
    /\ Begin(r, "probe", "reserveFile", None, d, nm)

StartRenameFile(r, f, nm) ==
    /\ state[f] = "READY"
    /\ Begin(r, "probe", "renameFile", f, parent[f], nm)

\* The file is read first, the destination after it.
StartMoveFile(r, f, d) ==
    /\ state[f] = "READY"
    /\ Len(name[f]) <= MaxSuffixes + 1
    /\ Begin(r, "target", "moveFile", f, d, name[f])

ReadTarget(r) ==
    /\ req[r].pc = "target"
    /\ IF HasRow(req[r].dir)
         THEN req' = [req EXCEPT ![r].pc = "probe"]
         ELSE Answer(r)
    /\ UNCHANGED treeVars

----------------------------------------------------------------------------
(* findAvailableName, one batch of candidates per query.                   *)

Candidates(r) == req[r].from .. (req[r].from + ProbeBatch - 1)

\* Mutant: a file collides with itself.
FreeIndicesOwnTaken(r) ==
    {i \in Candidates(r) : ~Taken(req[r].dir, nthCandidateName(req[r].want, i), None)}

FreeIndices(r) ==
    {i \in Candidates(r) : ~Taken(req[r].dir, nthCandidateName(req[r].want, i), req[r].id)}

FindAvailableName(r) ==
    /\ req[r].pc = "probe"
    /\ \/ \E i \in FreeIndices(r) :
             /\ \A j \in FreeIndices(r) : i <= j
             /\ req' = [req EXCEPT ![r] = [@ EXCEPT
                          !.pc = "write", !.cand = nthCandidateName(req[r].want, i)]]
       \/ /\ FreeIndices(r) = {}
          /\ IF req[r].from + ProbeBatch < ProbeLimit
               THEN req' = [req EXCEPT ![r].from = @ + ProbeBatch]
               ELSE Refuse(r)
    /\ UNCHANGED treeVars

----------------------------------------------------------------------------
(* The writes.                                                             *)

\* createFolder, reserveFile.  A parent deleted meanwhile is a 500: the
\* foreign key's violation is not the one that is caught.
Insert(r) ==
    LET d == req[r].dir
        ids == IF req[r].op = "createFolder" THEN Folders ELSE Files
    IN /\ req[r].pc = "write"
       /\ req[r].op \in {"createFolder", "reserveFile"}
       /\ \/ ~HasRow(d) /\ Answer(r) /\ UNCHANGED treeVars
          \/ HasRow(d) /\ Taken(d, req[r].cand, None) /\ LoseRace(r) /\ UNCHANGED treeVars
          \/ \E n \in ids :
             /\ HasRow(d) /\ ~Taken(d, req[r].cand, None)
             /\ state[n] = "unused"
             /\ state' = [state EXCEPT ![n] = IF n \in Folders THEN "READY" ELSE "PENDING"]
             /\ parent' = [parent EXCEPT ![n] = d]
             /\ path' = [path EXCEPT ![n] = subtreePrefixOf(d)]
             /\ depth' = [depth EXCEPT ![n] = depth[d] + 1]
             /\ name' = [name EXCEPT ![n] = req[r].cand]
             /\ AnswerWritten(r, d, None, {})

\* renameNode, renameFile: by id, wherever the row is by now.
UpdateName(r) ==
    LET n == req[r].id IN
       /\ req[r].pc = "write"
       /\ req[r].op \in {"renameNode", "renameFile"}
       /\ UNCHANGED <<state, parent, path, depth>>
       /\ \/ ~HasRow(n) /\ Answer(r) /\ UNCHANGED name
          \/ HasRow(n) /\ Taken(parent[n], req[r].cand, n) /\ LoseRace(r) /\ UNCHANGED name
          \/ /\ HasRow(n) /\ ~Taken(parent[n], req[r].cand, n)
             /\ name' = [name EXCEPT ![n] = req[r].cand]
             /\ AnswerWritten(r, parent[n], n, {"renamed"})

\* Mutant: the path is left as it was.
PositionWithoutPath(f, d, nm) ==
    /\ parent' = [parent EXCEPT ![f] = d]
    /\ path' = path
    /\ depth' = [depth EXCEPT ![f] = depth[d] + 1]
    /\ name' = [name EXCEPT ![f] = nm]

\* The name, the parent and what follows from the parent, in one statement.
PositionAt(f, d, nm) ==
    /\ parent' = [parent EXCEPT ![f] = d]
    /\ path' = [path EXCEPT ![f] = subtreePrefixOf(d)]
    /\ depth' = [depth EXCEPT ![f] = depth[d] + 1]
    /\ name' = [name EXCEPT ![f] = nm]

\* moveFile.  The rewrite of the descendants' paths matches no row: a file
\* has no descendants.
UpdatePosition(r) ==
    LET f == req[r].id
        d == req[r].dir
    IN /\ req[r].pc = "write"
       /\ req[r].op = "moveFile"
       /\ UNCHANGED state
       /\ \/ ~(HasRow(f) /\ HasRow(d)) /\ Answer(r) /\ UNCHANGED treeVars
          \/ HasRow(f) /\ HasRow(d) /\ Taken(d, req[r].cand, f) /\ LoseRace(r) /\ UNCHANGED treeVars
          \/ /\ HasRow(f) /\ HasRow(d) /\ ~Taken(d, req[r].cand, f)
             /\ PositionAt(f, d, req[r].cand)
             /\ AnswerWritten(r, d, f, {"moved"} \cup {h \in {"renamed"} : name[f] # req[r].cand})

----------------------------------------------------------------------------
(* The other operations on rows: commit, abort or sweep, deletion.         *)

\* markReady.
MarkReady(f) ==
    /\ state[f] = "PENDING"
    /\ state' = [state EXCEPT ![f] = "READY"]
    /\ UNCHANGED <<parent, path, depth, name, req>>

Remove(S) ==
    /\ state' = [n \in Nodes |-> IF n \in S THEN "gone" ELSE state[n]]
    /\ parent' = [n \in Nodes |-> IF n \in S THEN None ELSE parent[n]]
    /\ path' = [n \in Nodes |-> IF n \in S THEN << >> ELSE path[n]]
    /\ depth' = [n \in Nodes |-> IF n \in S THEN 0 ELSE depth[n]]
    /\ name' = [n \in Nodes |-> IF n \in S THEN << >> ELSE name[n]]
    /\ UNCHANGED req

\* deleteReservation, for a sweep and for an abort.
DropReservation(f) == state[f] = "PENDING" /\ Remove({f})

DeleteFile(f) == state[f] = "READY" /\ Remove({f})

\* deleteSubtree: the rows the path names.  The foreign key would cascade
\* to the children of every row deleted; PathsAgree leaves it nothing to do.
DeleteSubtree(d) ==
    /\ HasRow(d) /\ d # Root
    /\ Remove({d} \cup Below(d))

----------------------------------------------------------------------------

\* A request, from its first read to its answer.
RequestStep(r) ==
    \/ \E d \in Folders, s \in Asked : \/ StartCreateFolder(r, d, <<s>>)
                                      \/ StartRenameFolder(r, d, <<s>>)
                                      \/ StartReserveFile(r, d, <<s>>)
    \/ \E f \in Files, s \in Asked : StartRenameFile(r, f, <<s>>)
    \/ \E f \in Files, d \in Folders : StartMoveFile(r, f, d)
    \/ ReadTarget(r)
    \/ FindAvailableName(r)
    \/ Insert(r)
    \/ UpdateName(r)
    \/ UpdatePosition(r)

Next ==
    \/ \E r \in Requests : RequestStep(r)
    \/ \E f \in Files : MarkReady(f) \/ DropReservation(f) \/ DeleteFile(f)
    \/ \E d \in Folders : DeleteSubtree(d)

Spec == Init /\ [][Next]_vars

----------------------------------------------------------------------------
(* Properties.                                                             *)

\* Two rows of one folder never have the same name after normalisation,
\* reservations included, whatever requests create, rename and move at once.
SiblingNamesUnique ==
    \A m, n \in Nodes :
        /\ HasRow(m) /\ HasRow(n) /\ m # n
        /\ parent[m] = parent[n]
        => Normalize(name[m]) # Normalize(name[n])

\* A row's path is its parent's path and its parent, its depth the length of
\* that, its parent is there, and no folder is deeper than MAX_FOLDER_DEPTH:
\* a row written from a parent read earlier, or left behind by a deletion
\* that goes by paths, would break it.
PathsAgree ==
    /\ HasRow(Root) /\ parent[Root] = None /\ path[Root] = << >>
    /\ \A n \in Nodes \ {Root} :
          HasRow(n) => /\ parent[n] # None
                       /\ HasRow(parent[n])
                       /\ path[n] = subtreePrefixOf(parent[n])
    /\ \A n \in Nodes : HasRow(n) => depth[n] = Len(path[n])
    /\ \A d \in Folders : HasRow(d) => depth[d] <= MaxDepth

\* The operations that look for another name when they lose one.
Arbitrated == {"reserveFile", "renameFile", "moveFile"}

\* An upload, rename or move of a file is refused for its name only when the
\* whole family of names is taken or others took CONFLICT_RETRIES names in
\* the folder under it, or the file was moved away meanwhile.
RefusedOnlyAfterLosing ==
    \A r \in Requests :
        req[r].pc = "refused" /\ req[r].op \in Arbitrated
        => \/ req[r].rivals = Retries
           \/ req[r].from + ProbeBatch >= ProbeLimit
           \/ "moved" \in req[r].outdated

\* The depth a new folder was checked for is still its depth: folders do not move.
CreationsFit ==
    \A r \in Requests :
        req[r].pc = "write" /\ req[r].op = "createFolder" /\ HasRow(req[r].dir)
        => depth[req[r].dir] + 1 <= MaxDepth

\* A write that is about to lose, and every write that has lost, has a rival.
LossesHaveRivals ==
    \A r \in Requests :
        /\ req[r].pc \in {"target", "probe", "write"}
        /\ req[r].op \in Arbitrated /\ "moved" \notin req[r].outdated
        => /\ req[r].tries < Retries /\ req[r].tries <= req[r].rivals
           /\ req[r].pc = "write" /\ Taken(req[r].dir, req[r].cand, req[r].id)
                => req[r].tries < req[r].rivals
           /\ req[r].op = "renameFile" /\ HasRow(req[r].id)
                => parent[req[r].id] = req[r].dir

\* A request works on rows that were there when it read them.
RowsWereRead ==
    \A r \in Requests :
        /\ req[r].pc \in {"probe", "write"} => state[req[r].dir] # "unused"
        /\ req[r].pc \in {"target", "probe", "write"} /\ req[r].id # None
             => state[req[r].id] # "unused"

IInv ==
    /\ TypeOK
    /\ SiblingNamesUnique
    /\ PathsAgree
    /\ RowsWereRead
    /\ CreationsFit
    /\ LossesHaveRivals
    /\ RefusedOnlyAfterLosing

\* A file that nobody else renames or moves meanwhile keeps its name when it
\* is moved to the folder it is in, and gets that name or a suffixed form of
\* it in another.  The last batch of candidates may go past ProbeLimit.
MoveOnlyMoves ==
    [][\A r \in Requests, f \in Files :
          /\ req[r].pc = "write" /\ req[r].op = "moveFile" /\ req[r].id = f
          /\ req'[r].pc = "answered" /\ req[r].outdated = {}
          /\ HasRow(f) /\ HasRow(req[r].dir)
          => IF req[r].dir = parent[f]
               THEN name'[f] = name[f]
               ELSE name'[f] \in {nthCandidateName(name[f], i) : i \in 0 .. ProbeLimit + ProbeBatch}]_vars

=============================================================================
