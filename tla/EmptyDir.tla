------------------------------ MODULE EmptyDir ------------------------------
(***************************************************************************)
(* empty_writable_dir (translate/src/util.rs): makes the output and the    *)
(* diagnostics directory empty, or refuses to.  It works entry by entry,   *)
(* and every call into the file system may fail.                           *)
(***************************************************************************)
EXTENDS Naturals

CONSTANTS
    Dirs,       \* paths it is called with
    Leftovers   \* entries an earlier run may have left in a directory

VARIABLES
    force,      \* the argument delete_contents, Config.force
    place,      \* what stands at a path: "nothing", "file", "directory"
    entries,    \* of a directory
    readonly,   \* the directories whose permissions let nobody write
    unread,     \* entries that read_dir has not yielded yet
    verdict     \* "none", "reading", then the result of the call

emptyDirVars == <<force, place, entries, readonly, unread, verdict>>

EmptyDirTypeOK ==
    /\ force \in BOOLEAN
    /\ place \in [Dirs -> {"nothing", "file", "directory"}]
    /\ \A d \in Dirs : place[d] # "directory" => entries[d] = {}
    /\ readonly \subseteq Dirs
    /\ \A d \in Dirs : unread[d] \subseteq entries[d]
    /\ verdict \in [Dirs -> {"none", "reading", "Ok", "NonEmpty", "NotWritable",
                             "IoError"}]

(* The paths may hold anything. *)
EmptyDirInit ==
    /\ force \in BOOLEAN
    /\ place \in [Dirs -> {"nothing", "file", "directory"}]
    /\ entries \in [Dirs -> SUBSET Leftovers]
    /\ readonly \in SUBSET Dirs
    /\ \A d \in Dirs : place[d] # "directory" => entries[d] = {} /\ d \notin readonly
    /\ unread = [d \in Dirs |-> {}]
    /\ verdict = [d \in Dirs |-> "none"]

Answer(d, result) == verdict' = [verdict EXCEPT ![d] = result]

(* read_dir: NotFound, so the directory is created; nothing more is checked. *)
CreateMissing(d) ==
    /\ verdict[d] = "none"
    /\ place[d] = "nothing"
    /\ place' = [place EXCEPT ![d] = "directory"]
    /\ Answer(d, "Ok")
    /\ UNCHANGED <<force, entries, readonly, unread>>

(* read_dir fails, as it does for a file; or create_dir does. *)
ReadDirFails(d) ==
    /\ verdict[d] = "none"
    /\ Answer(d, "IoError")
    /\ UNCHANGED <<force, place, entries, readonly, unread>>

ReadDir(d) ==
    /\ verdict[d] = "none"
    /\ place[d] = "directory"
    /\ unread' = [unread EXCEPT ![d] = entries[d]]
    /\ Answer(d, "reading")
    /\ UNCHANGED <<force, place, entries, readonly>>

(* One round of the loop. *)
InLoop(d) == verdict[d] = "reading" /\ unread[d] # {}

Refuse(d) ==
    /\ InLoop(d)
    /\ ~force
    /\ Answer(d, "NonEmpty")
    /\ UNCHANGED <<force, place, entries, readonly, unread>>

BadMayRemove == TRUE        \* the refusal comes too late
MayRemove == force

(* remove_file or remove_dir_all; no entry of a read-only directory goes
   unless root runs this, which is left open. *)
Remove(d) ==
    /\ InLoop(d)
    /\ MayRemove
    /\ \E e \in unread[d] :
        /\ unread' = [unread EXCEPT ![d] = @ \ {e}]
        /\ entries' = [entries EXCEPT ![d] = @ \ {e}]
    /\ UNCHANGED <<force, place, readonly, verdict>>

(* The entry stays, a directory perhaps without some of its contents. *)
RemoveFails(d) ==
    /\ InLoop(d)
    /\ force
    /\ Answer(d, "IoError")
    /\ UNCHANGED <<force, place, entries, readonly, unread>>

BadLoopIsOver(d) == TRUE    \* an entry ends the loop
LoopIsOver(d) == unread[d] = {}

CheckWritable(d) ==
    /\ verdict[d] = "reading"
    /\ LoopIsOver(d)
    /\ Answer(d, IF d \in readonly THEN "NotWritable" ELSE "Ok")
    /\ UNCHANGED <<force, place, entries, readonly, unread>>

(* metadata fails, with the directory already empty. *)
MetadataFails(d) ==
    /\ verdict[d] = "reading"
    /\ LoopIsOver(d)
    /\ Answer(d, "IoError")
    /\ UNCHANGED <<force, place, entries, readonly, unread>>

EmptyWritableDir(d) ==
    \/ CreateMissing(d)
    \/ ReadDirFails(d)
    \/ ReadDir(d)
    \/ Refuse(d)
    \/ Remove(d)
    \/ RemoveFails(d)
    \/ CheckWritable(d)
    \/ MetadataFails(d)

----------------------------------------------------------------------------
(* Without force nothing that an earlier run has left is ever deleted; with
   it, a file that stands at the path itself is not ("the user probably
   didn't intend to point the output to that path", util.rs:121). *)
KeptWithoutForce ==
    [][\A d \in Dirs :
        /\ ~force => entries[d] \cap Leftovers \subseteq entries'[d]
        /\ place[d] = "file" => place'[d] = "file"]_emptyDirVars
=============================================================================
