------------------------------- MODULE RawDir -------------------------------
(***************************************************************************)
(* RawDir, the directory tree of ir/src/fs.rs: set_file, get_file and      *)
(* materialize.  A tree is a function from the paths it contains, as       *)
(* sequences of names, to Dir or to a file's contents; the BTreeMap of the *)
(* directory at p holds the names n with p \o <<n>> in that function's     *)
(* domain.  A path given to a method is the sequence of its                *)
(* Path::components, which drops repeated and trailing separators and      *)
(* every "." but a leading one.                                            *)
(***************************************************************************)
EXTENDS Naturals, SequencesExt

CONSTANTS
    Names,      \* file names; numbers, in the order of the BTreeMap's keys
    Contents,   \* file contents
    Dir,        \* RawEntry::Dir
    Partial,    \* contents of a file whose write failed half way
    CurDir, ParentDir, RootDir, \* the other components of a path
    MaxLen,     \* bound: components of a path
    MaxFiles,   \* bound: set_file is called on trees with fewer files
    Loaded      \* trees that populate_from may have read from disk

Paths == UNION {[1 .. n -> Names] : n \in 1 .. MaxLen}

(* The ancestors of path p below the root: the directories on the way. *)
Parents(p) == {SubSeq(p, 1, n) : n \in 1 .. Len(p) - 1}

(* A tree is closed under taking parents, and the parents are directories. *)
IsTree(t) ==
    \A p \in DOMAIN t : \A q \in Parents(p) : q \in DOMAIN t /\ t[q] = Dir

IsFile(t, p) == p \in DOMAIN t /\ t[p] # Dir

Files(t) == {p \in DOMAIN t : t[p] # Dir}
FileMapOf(t) == [p \in Files(t) |-> t[p]]

Root == [p \in {} |-> Dir]

(* t with directories at those places of S where nothing stands. *)
WithDirs(t, S) ==
    [p \in DOMAIN t \cup S |-> IF p \in DOMAIN t THEN t[p] ELSE Dir]

(* t with the file p, replacing what stands there. *)
WithFile(t, p, c) == [q \in DOMAIN t \cup {p} |-> IF q = p THEN c ELSE t[q]]

(* The components of a path are told apart by their kind, and an entry of a
   tree is a directory or a file.  What is read from disk is finite. *)
ASSUME RawDirAssumption ==
    /\ Names \subseteq Nat
    /\ MaxLen \in Nat
    /\ {CurDir, ParentDir, RootDir} \cap Names = {}
    /\ CurDir # ParentDir /\ CurDir # RootDir /\ ParentDir # RootDir
    /\ Dir \notin Contents \cup {Partial}
    /\ \A t \in Loaded :
        /\ t \in [DOMAIN t -> Contents \cup {Dir}]
        /\ DOMAIN t \subseteq Paths
        /\ IsTree(t)
        /\ IsFiniteSet(Files(t))

VARIABLES
    tree,       \* the RawDir
    disk,       \* what materialize made below base_path
    todo,       \* the files that materialize's loop has not written yet
    stage       \* "idle", in materialize "mkdir" or "write", "done", "failed"

vars == <<tree, disk, todo, stage>>

TypeOK ==
    /\ DOMAIN tree \subseteq Paths
    /\ tree \in [DOMAIN tree -> Contents \cup {Dir}]
    /\ IsTree(tree)
    /\ IsTree(disk)
    /\ todo \subseteq Files(tree)
    /\ stage \in {"idle", "mkdir", "write", "done", "failed"}

(* RawDir::default or populate_from, empty directories included. *)
Init ==
    /\ tree \in {Root} \cup Loaded
    /\ disk = Root
    /\ todo = {}
    /\ stage = "idle"

----------------------------------------------------------------------------
(* Paths. *)

Components == Names \cup {CurDir, ParentDir, RootDir}

Requests ==
    LET Rests == UNION {[1 .. n -> Names \cup {ParentDir}] : n \in 0 .. MaxLen - 1}
    IN  {<<>>} \cup UNION {{<<first>> \o rest : rest \in Rests} : first \in Components}

(* Where a loop over the components stands: the segments so far, whether the
   last component can be a file, and the error that ended the loop.  get_file
   and set_file each have a loop of their own, and so they do here. *)
Start == [segments |-> <<>>, canBeFile |-> TRUE, error |-> "none"]

(* The Directory error comes after the loop. *)
Checked(w) ==
    IF w.error = "none" /\ ~w.canBeFile THEN [w EXCEPT !.error = "Directory"] ELSE w

----------------------------------------------------------------------------
(* get_file *)

(* One component. *)
GetDescend(w, component) ==
    IF w.error # "none" THEN w ELSE
    CASE component = CurDir -> [w EXCEPT !.canBeFile = FALSE]
      [] component \in Names ->
            [w EXCEPT !.segments = Append(@, component), !.canBeFile = TRUE]
      [] component = ParentDir /\ w.segments = <<>> ->
            [w EXCEPT !.error = "OutsideDir"]
      [] component = ParentDir /\ w.segments # <<>> ->
            [w EXCEPT !.segments = Front(@), !.canBeFile = FALSE]
      [] component = RootDir -> [w EXCEPT !.error = "AbsolutePath"]

GetWalk[r \in Requests] ==
    IF r = <<>> THEN Start ELSE GetDescend(GetWalk[Front(r)], Last(r))

GetWalked == [r \in Requests |-> Checked(GetWalk[r])]

(* The error, or "Ok" with the contents that stand at the path. *)
GetFile(t, r) ==
    LET w == GetWalked[r]
        p == w.segments
    IN  CASE w.error # "none" -> w.error
          [] w.error = "none" /\ p = <<>> -> "DoesNotExist"
          [] OTHER ->
               IF \E q \in Parents(p) : IsFile(t, q) THEN "UnderFile"
               ELSE IF p \notin DOMAIN t THEN "DoesNotExist"
               ELSE IF t[p] = Dir THEN "Directory"
               ELSE "Ok"

----------------------------------------------------------------------------
(* set_file *)

BadSetDescend(w, component) ==      \* a path may end in ".."
    IF w.error # "none" THEN w ELSE
    CASE component = CurDir -> [w EXCEPT !.canBeFile = FALSE]
      [] component \in Names ->
            [w EXCEPT !.segments = Append(@, component), !.canBeFile = TRUE]
      [] component = ParentDir /\ w.segments = <<>> ->
            [w EXCEPT !.error = "OutsideDir"]
      [] component = ParentDir /\ w.segments # <<>> ->
            [w EXCEPT !.segments = Front(@)]
      [] component = RootDir -> [w EXCEPT !.error = "AbsolutePath"]

(* One component. *)
SetDescend(w, component) ==
    IF w.error # "none" THEN w ELSE
    CASE component = CurDir -> [w EXCEPT !.canBeFile = FALSE]
      [] component \in Names ->
            [w EXCEPT !.segments = Append(@, component), !.canBeFile = TRUE]
      [] component = ParentDir /\ w.segments = <<>> ->
            [w EXCEPT !.error = "OutsideDir"]
      [] component = ParentDir /\ w.segments # <<>> ->
            [w EXCEPT !.segments = Front(@), !.canBeFile = FALSE]
      [] component = RootDir -> [w EXCEPT !.error = "AbsolutePath"]

SetWalk[r \in Requests] ==
    IF r = <<>> THEN Start ELSE SetDescend(SetWalk[Front(r)], Last(r))

SetWalked == [r \in Requests |-> Checked(SetWalk[r])]

Segments(r) == SetWalked[r].segments

(* The or_insert_with of every segment up to the first one that is a file;
   a directory that is there stays. *)
BadNoParents(t, p) == t
BadWithParents(t, p) == [q \in Parents(p) |-> Dir] @@ t
WithParents(t, p) ==
    WithDirs(t, {q \in Parents(p) : ~ \E a \in Parents(q) \cup {q} : IsFile(t, a)})

(* Entry::Vacant *)
BadVacant(t, p) == ~IsFile(t, p)
Vacant(t, p) == p \notin DOMAIN t

SetOutcome(t, r) ==
    LET p == Segments(r)
    IN  CASE SetWalked[r].error # "none" -> SetWalked[r].error
          [] SetWalked[r].error = "none" /\ p = <<>> -> "EmptyFileName"
          [] OTHER ->
               IF \E q \in Parents(p) : IsFile(t, q) THEN "UnderFile"
               ELSE IF ~Vacant(t, p) THEN "AlreadyExists"
               ELSE "Ok"

(* A call whose path is accepted by the walk changes the tree, even when it
   ends in an error, as far as it gets. *)
SetFile(r, c) ==
    LET p == Segments(r)
    IN  /\ stage = "idle"
        /\ Cardinality(Files(tree)) < MaxFiles
        /\ SetWalked[r].error = "none" /\ p # <<>>
        /\ tree' = IF SetOutcome(tree, r) = "Ok"
                   THEN WithFile(WithParents(tree, p), p, c)
                   ELSE WithParents(tree, p)
        /\ UNCHANGED <<disk, todo, stage>>

----------------------------------------------------------------------------
(* materialize, into an empty directory: for each file create_dir_all, then
   write.  Both may fail, and leave what they did so far. *)

(* files_recursive visits the entries of a directory in key order. *)
Before(p, q) ==
    \E n \in 1 .. MaxLen :
        /\ n <= Len(p) /\ n <= Len(q) /\ p[n] < q[n]
        /\ SubSeq(p, 1, n - 1) = SubSeq(q, 1, n - 1)

BadFilesRecursive(t) == {p \in Files(t) : Len(p) = 1}
FilesRecursive(t) == Files(t)

First(S) == CHOOSE p \in S : \A q \in S \ {p} : Before(p, q)

Materialize ==
    /\ stage = "idle"
    /\ todo' = FilesRecursive(tree)
    /\ stage' = IF todo' = {} THEN "done" ELSE "mkdir"
    /\ UNCHANGED <<tree, disk>>

CreateDirAll ==
    /\ stage = "mkdir"
    /\ disk' = WithDirs(disk, Parents(First(todo)))
    /\ stage' = "write"
    /\ UNCHANGED <<tree, todo>>

(* create_dir_all makes the directories from the top. *)
CreateDirAllFails ==
    /\ stage = "mkdir"
    /\ \E made \in SUBSET Parents(First(todo)) :
        /\ \A q \in made : Parents(q) \subseteq made
        /\ disk' = WithDirs(disk, made)
    /\ stage' = "failed"
    /\ UNCHANGED <<tree, todo>>

Write ==
    /\ stage = "write"
    /\ disk' = WithFile(disk, First(todo), tree[First(todo)])
    /\ todo' = todo \ {First(todo)}
    /\ stage' = IF todo' # {} THEN "mkdir" ELSE "done"
    /\ UNCHANGED tree

WriteFails ==
    /\ stage = "write"
    /\ \/ disk' = WithFile(disk, First(todo), Partial)
       \/ UNCHANGED disk
    /\ stage' = "failed"
    /\ UNCHANGED <<tree, todo>>

Next ==
    \/ \E r \in Requests, c \in Contents : SetFile(r, c)
    \/ Materialize
    \/ CreateDirAll
    \/ CreateDirAllFails
    \/ Write
    \/ WriteFails

Spec == Init /\ [][Next]_vars

----------------------------------------------------------------------------
(* Properties *)

(* set_file walks down making directories as it goes, and may still fail:
   whatever the path, a call that changes the tree has added one file and
   the directories above it, and left every entry that was there alone.  A
   call that returns an error therefore changes nothing. *)
SetIsAllOrNothing ==
    [][tree' # tree =>
         \E p \in Files(tree') :
            /\ DOMAIN tree' \ DOMAIN tree \subseteq Parents(p) \cup {p}
            /\ p \notin DOMAIN tree
            /\ \A q \in DOMAIN tree : q \in DOMAIN tree' /\ tree'[q] = tree[q]]_vars

(* get_file and set_file, each with a loop of its own over the components,
   take every path to the same place and refuse the same ones: what set_file
   would create does not exist for get_file, what get_file finds set_file
   refuses, a path that one finds malformed is so for the other, both stop at
   the same file in the way; and get_file finds every file that
   files_recursive lists. *)
LookupsAgree ==
    /\ \A r \in Requests :
        LET set == SetOutcome(tree, r)
            get == GetFile(tree, r)
        IN  /\ set = "Ok" => get = "DoesNotExist"
            /\ get = "DoesNotExist" => set \in {"Ok", "EmptyFileName"}
            /\ set = "UnderFile" <=> get = "UnderFile"
            /\ \A error \in {"AbsolutePath", "OutsideDir"} : set = error <=> get = error
            /\ set = "AlreadyExists" => get \in {"Ok", "Directory"}
            /\ set = "Directory" => get = "Directory"
            /\ get = "Directory" => set \in {"Directory", "AlreadyExists"}
    /\ \A p \in Files(tree) : GetFile(tree, p) = "Ok"

(* When materialize returns Ok, the disk holds the tree's files and the
   directories above them and nothing else; until then, and when it fails,
   every file on disk but the one being written is whole, and none is a
   stranger. *)
MaterializesFiles ==
    /\ stage = "done" =>
        /\ FileMapOf(disk) = FileMapOf(tree)
        /\ DOMAIN disk = UNION {Parents(p) \cup {p} : p \in Files(tree)}
    /\ \A p \in Files(disk) :
        /\ p \in Files(tree)
        /\ disk[p] = tree[p] \/ (stage = "failed" /\ p = First(todo))

(* RawDir implements the map of files, whatever happens to directories. *)
Promised == INSTANCE FileMap WITH files <- FileMapOf(tree)
ImplementsFileMap == Promised!Spec
=============================================================================
