------------------------------ MODULE Archives ------------------------------
(***************************************************************************)
(* The files of a mission.  A backup writes its tree object by object to a *)
(* working directory, packs it twice, as json and as yaml, and uploads the *)
(* two archives; a restore downloads and unpacks the json archive and      *)
(* works on what it finds in it.  Each mission keeps its log in a second   *)
(* directory, packs and uploads it.  The directories have random names and *)
(* are deleted by deferred functions, which run when the function that     *)
(* deferred them returns, in whatever way.                                 *)
(*                                                                         *)
(* Module Trees, whose steps are steps of this module, says what is in the *)
(* trees; module Missions has the missions of many callers at once, for    *)
(* which an archive is one value.                                          *)
(***************************************************************************)
EXTENDS Trees

CONSTANTS
  Names,    \* names that the caller gives to its backups
  Faults, MaxFaults, \* bound: what goes wrong, see Disturb
  MaxLost   \* bound: what one trouble with a disk costs, see Few

ASSUME FaultsAssumption ==
  /\ Faults \subseteq {"disk", "rpc", "lost", "kill"}
  /\ {MaxFaults, MaxLost} \subseteq Nat

VARIABLES
  agenda,   \* what the mission has still to do; its head is the next step
  call,        \* number of the mission
  slot,     \* directory of the store: kind of the tree and its name
  store,    \* store[s]: files in a directory of the store
  dirs,     \* working directories that exist
  local,    \* files of the mission that are written and not yet uploaded
  budget,   \* faults still to come
  \* history
  meant,    \* meant[s]: what the archives of a directory should hold
  troubled  \* <<mission, what befell it>>: "disk", "kill", or "hollow"

files == <<agenda, call, slot, store, dirs, local, budget, meant, troubled>>
allVars == <<vars, files>>

Archived == {"json", "yaml"}
Slots == ({"backup"} \X Names) \cup ({"restore"} \X (1..MaxMissions))

\* The content of a file, a directory or an archive: objects, if it is about
\* objects; whether it is whole; the files of objects in it that are cut short,
\* one with the object and one with its metadata for each; and, for history,
\* the mission that wrote it.
Halves == {"object", "metadata"}
Whole(S) == [of |-> S, whole |-> TRUE, torn |-> {}, by |-> call]
Broken(content) == [content EXCEPT !.whole = FALSE]
Nothing == [file \in {} |-> Whole({})]

\* Sets of a few elements.
Few(S) == {{}} \cup {Range(f) : f \in [1..MaxLost -> S]}

\* A file is written beside the others, or over the one of that name.
With(contents, file, content) ==
  [x \in DOMAIN contents \cup {file} |-> IF x = file THEN content ELSE contents[x]]

\* The parts of Backup and Restore, deferred functions included.
StoreSteps == <<<<"check", "tree">>, <<"write", "json">>, <<"write", "yaml">>,
                <<"pack", "json">>, <<"pack", "yaml">>, <<"upload", "tree">>,
                <<"delete", "core">>>>
LogSteps == <<<<"write", "status">>, <<"pack", "log">>, <<"pack", "status">>,
              <<"ship", "log">>, <<"ship", "status">>, <<"delete", "log">>>>
Steps(kind) ==
  <<<<"open", "log">>>>
    \o (IF kind = "backup" THEN <<<<"discover", "tree">>, <<"build", "tree">>>>
        ELSE <<<<"find", "tree">>, <<"fetch", "tree">>, <<"unpack", "tree">>,
               <<"filter", "tree">>, <<"delete", "down">>, <<"compare", "tree">>>>)
    \o StoreSteps \o LogSteps
RestartStep == <<"restart", "tree">>

FilesInit ==
  /\ Init
  /\ agenda = <<>> /\ call = 0 /\ dirs = {} /\ local = Nothing
  /\ \E name \in Names : slot = <<"backup", name>>
  /\ budget = MaxFaults /\ troubled = {}
  /\ \E S \in Snapshots \cup {{}} :
       /\ meant = [s \in Slots |-> IF s[1] = "backup" THEN S ELSE {}]
       /\ store = [s \in Slots |-> IF meant[s] = {} THEN Nothing
                     ELSE [file \in Archived \cup {"log", "status"} |->
                             Whole(IF file \in Archived THEN S ELSE {})]]
-----------------------------------------------------------------------------

At(step, arg) == agenda # <<>> /\ Head(agenda) = <<step, arg>>
Proceed == agenda' = Tail(agenda)

\* A function returns: only deferred deletions are left.
Return(deferred) == agenda' = [i \in DOMAIN deferred |-> <<"delete", deferred[i]>>]

\* The process ends: what is deferred by then runs before.
Die(deferred) ==
  agenda' = Append([i \in DOMAIN deferred |-> <<"delete", deferred[i]>>], RestartStep)

Disturb(kind) ==
  /\ kind \in Faults /\ budget > 0
  /\ budget' = budget - 1
  /\ troubled' = troubled \cup {<<call, what>> : what \in {kind} \cap {"disk", "kill"}}
Fine == UNCHANGED <<budget, troubled>>

\* GetAssistLogLocalDir, getLocalStorageDir: a random name for every directory.
Dir(kind) == <<call, kind>>

\* A local file is written, or it is not and its directory may be there.
MakeDir(kind) == dirs' = dirs \cup {Dir(kind)}
MayMakeDir(kind) == UNCHANGED dirs \/ MakeDir(kind)

\* What is left of the tree does not matter any more.
Abandon == /\ pc' = "idle"
           /\ UNCHANGED <<world, found, asked, filters, mission, backups, lists,
                          tree, gaps, loaded, hollow, todo>>
-----------------------------------------------------------------------------
(* AgentController.                                                        *)

BeginMission(kind, name) ==
  /\ agenda = <<>> /\ call < MaxMissions
  /\ call' = call + 1
  /\ agenda' = Steps(kind)
  /\ slot' = <<"backup", name>>
  /\ UNCHANGED <<vars, store, dirs, local, budget, meant, troubled>>

\* InitLoggerAgent.  When it fails nobody knows the directory, and nothing is
\* deleted.
OpenLog ==
  /\ At("open", "log")
  /\ \/ MakeDir("log") /\ Proceed /\ Fine
        /\ local' = With(Nothing, "log", Whole({}))
     \/ MayMakeDir("log") /\ Disturb("disk") /\ Return(<<>>)
        /\ UNCHANGED local
  /\ UNCHANGED <<vars, call, slot, store, meant>>

\* A call of the API server or the store fails, without effect on it.
CallFails ==
  /\ \/ At("discover", "tree") \/ At("find", "tree")
     \/ At("fetch", "tree") \/ At("compare", "tree")
     \/ At("check", "tree") /\ ListChildren(tree, <<>>) # {}
  /\ Disturb("rpc")
  /\ Return(<<"log">>)
  /\ Abandon
  /\ UNCHANGED <<call, slot, store, dirs, local, meant>>

Discover ==
  /\ At("discover", "tree") /\ Backup /\ Proceed
  /\ UNCHANGED <<call, slot, store, dirs, local, budget, meant, troubled>>

Build ==
  /\ At("build", "tree")
  /\ \/ FiltrateResource \/ FiltrateResourceDone
     \/ BuildVersion \/ BuildPrune \/ BuildDone
  /\ IF pc' = "built" THEN Proceed ELSE UNCHANGED agenda
  /\ UNCHANGED <<call, slot, store, dirs, local, budget, meant, troubled>>

\* The root becomes that of a restore, under a name made up from the time, if
\* the process is still there.
ApplyAndRename ==
  /\ At("compare", "tree") /\ Compare
  /\ IF pc' = "compared" THEN Proceed /\ slot' = <<"restore", call>>
     ELSE Die(<<"log">>) /\ UNCHANGED slot
  /\ UNCHANGED <<call, store, dirs, local, budget, meant, troubled>>

DeleteDir(kind) ==
  /\ At("delete", kind)
  /\ \/ dirs' = dirs \ {Dir(kind)} /\ Fine
     \/ UNCHANGED dirs /\ Disturb("disk")
  /\ Proceed
  /\ local' = IF kind = "log" THEN Nothing ELSE Restrict(local, DOMAIN local \ Archived)
  /\ UNCHANGED <<vars, call, slot, store, meant>>
-----------------------------------------------------------------------------
(* CoreStoreAgent.ApplyResourceTree and createStorageMap.                  *)

Exists(s) == DOMAIN store[s] # {}

\* A tree without groups is not stored.
CheckExist ==
  /\ At("check", "tree")
  /\ \/ /\ ListChildren(tree, <<>>) = {}
        /\ agenda' = LogSteps
        /\ UNCHANGED meant
     \/ /\ ListChildren(tree, <<>>) # {}
        /\ IF Exists(slot) THEN Return(<<"log">>) /\ UNCHANGED meant
           ELSE Proceed /\ meant' = [meant EXCEPT ![slot] = Objects(tree)]
  /\ UNCHANGED <<vars, call, slot, store, dirs, local, budget, troubled>>

\* An error is returned, with only the log's directory known to anybody.
GoIf(ok) == IF ok THEN Proceed ELSE Return(<<"log">>)

\* Mistake: an error with a file is only logged.
Ignore(ok) == Proceed

\* TransformResourceTreeToLocal and UploadLocalLogger give up at the first
\* error that reaches them.  They do not say where the files are, so that the
\* directory of the archives is not deleted.
GiveUpUnless(ok) == GoIf(ok)

\* createS3GroupDir down to storeObjectLocal, and the status.  An error of
\* closing a file of an object is only logged, and the archive is packed with
\* what there is of it.  An object without a definition ends the process,
\* before the directory of the archives is known to anybody.
Write(file) ==
  LET S == IF file \in Archived THEN Objects(tree) ELSE {} IN
  /\ At("write", file)
  /\ \/ /\ S \cap hollow = {} /\ GiveUpUnless(TRUE)
        /\ IF file \in Archived THEN MakeDir("core") ELSE UNCHANGED dirs
        /\ \/ local' = With(local, file, Whole(S)) /\ Fine
           \/ \E torn \in Few(S \X Halves) \ {{}} :
                local' = With(local, file, [Whole(S) EXCEPT !.torn = torn]) /\ Disturb("disk")
     \/ /\ Disturb("disk") /\ GiveUpUnless(FALSE)
        /\ IF file \in Archived THEN MayMakeDir("core") ELSE UNCHANGED dirs
        /\ local' = With(local, file, Broken(Whole({})))
     \/ /\ S \cap hollow # {} /\ Die(<<"log">>)
        /\ MakeDir("core")
        /\ troubled' = troubled \cup {<<call, "hollow">>}
        /\ UNCHANGED <<local, budget>>
  /\ UNCHANGED <<vars, call, slot, store, meant>>

\* TgzPacker.Pack: also an error of a Close is returned.  But nobody hears of
\* lines that could not be written to the log.
Pack(file) ==
  /\ At("pack", file)
  /\ \/ UNCHANGED local /\ Fine /\ GiveUpUnless(TRUE)
     \/ /\ Disturb("disk")
        /\ \/ GiveUpUnless(FALSE)
           \/ GiveUpUnless(TRUE) /\ file = "log"
        /\ local' = [local EXCEPT ![file] = Broken(@)]
  /\ UNCHANGED <<vars, call, slot, store, dirs, meant>>

Put(file) == store' = [store EXCEPT ![slot] = With(@, file, local[file])]

\* Mistake: the deletion is deferred only after the uploads.
StopAtOnce == Return(<<"log">>)

\* The directory is deleted after the loop, also after an error in it.
StopUploads == Return(<<"core", "log">>)

\* One of the two archives, in no particular order.
Upload(file) ==
  /\ At("upload", "tree") /\ file \in DOMAIN local \cap Archived
  /\ local' = Restrict(local, DOMAIN local \ {file})
  /\ \/ /\ Put(file) /\ Fine
        /\ IF DOMAIN local' \cap Archived = {} THEN Proceed ELSE UNCHANGED agenda
     \/ Put(file) /\ Disturb("lost") /\ StopUploads
     \/ UNCHANGED store /\ (Disturb("rpc") \/ Disturb("disk")) /\ StopUploads
  /\ UNCHANGED <<vars, call, slot, dirs, meant>>

\* UploadLocalLogger: the error of the last upload is dropped.
Ship(file) ==
  /\ At("ship", file)
  /\ \/ Put(file) /\ Fine /\ Proceed
     \/ Put(file) /\ Disturb("lost") /\ GoIf(file = "status")
     \/ UNCHANGED store /\ (Disturb("rpc") \/ Disturb("disk")) /\ GoIf(file = "status")
  /\ UNCHANGED <<vars, call, slot, dirs, local, meant>>
-----------------------------------------------------------------------------
(* CoreStoreAgent.GetResourceTree.                                         *)

Find ==
  /\ At("find", "tree")
  /\ GoIf(Exists(slot))
  /\ UNCHANGED <<vars, call, slot, store, dirs, local, budget, meant, troubled>>

\* GetRemoteStorage.  An error of closing the file is only logged.  The
\* deletion of the directory is deferred only after it.
Fetch ==
  /\ At("fetch", "tree")
  /\ \/ /\ "json" \notin DOMAIN store[slot] /\ GoIf(FALSE) /\ Fine
        /\ UNCHANGED <<dirs, local>>
     \/ /\ "json" \in DOMAIN store[slot] /\ GoIf(TRUE)
        /\ MakeDir("down")
        /\ \/ local' = With(local, "json", store[slot]["json"]) /\ Fine
           \/ local' = With(local, "json", Broken(store[slot]["json"])) /\ Disturb("disk")
     \/ /\ "json" \in DOMAIN store[slot] /\ GoIf(FALSE) /\ Disturb("disk")
        /\ MayMakeDir("down")
        /\ UNCHANGED local
  /\ UNCHANGED <<vars, call, slot, store, meant>>

\* buildResourceTree of what is in an archive that could be unpacked, taking
\* the objects in the order of a map: the first whose files are cut short ends
\* it, with a node but no definition if only its metadata can be read, and
\* what is built by then stays.
BuiltUpTo(archive, o, missed) ==
  <<archive.of \ ({u[1] : u \in archive.torn} \cup missed),
    IF <<o, "metadata">> \in archive.torn THEN {} ELSE {o}>>
Halfway(archive) ==
  {BuiltUpTo(archive, u[1], missed) : u \in archive.torn, missed \in Few(archive.of)}

\* Mistake: the archive is still there when the directory is walked.  It is
\* no object and ends the building of the tree, whenever its turn comes.
BuiltBesideArchive(archive) == {<<archive.of \ missed, {}>> : missed \in Few(archive.of)}

\* TransformLocalToResourceTree: the trees that may come out of an archive,
\* as objects and objects without a definition.
Built(archive) ==
  IF ~archive.whole THEN {<<{}, {}>>}
  ELSE IF archive.torn = {} THEN {<<archive.of, {}>>} ELSE Halfway(archive)

\* getLocalResourceMap does not look at the error of a directory that cannot
\* be read: of its objects it does not see one file, or "both".
Seen(archive, unread) ==
  LET unseen == {o \in archive.of : <<o, "both">> \in unread} IN
  [archive EXCEPT !.of = @ \ unseen,
                  !.torn = {u \in @ \cup unread : u[1] \notin unseen}]

\* An error is only logged, and the restore goes on with what there is: often
\* nothing.  That the top directory cannot be read at all ends the process
\* instead, before the deletion of the download is deferred.
Unpack ==
  /\ At("unpack", "tree")
  /\ \/ /\ Proceed
        /\ \/ Fine /\ \E b \in Built(local["json"]) : RestoreFrom(b[1], b[2])
           \/ Disturb("disk") /\ RestoreFrom({}, {})
           \/ /\ Disturb("disk")
              /\ \E unread \in Few(local["json"].of \X (Halves \cup {"both"})) :
                   \E b \in Built(Seen(local["json"], unread)) : RestoreFrom(b[1], b[2])
     \/ Disturb("disk") /\ Die(<<"log">>) /\ Abandon
  /\ UNCHANGED <<call, slot, store, dirs, local, meant>>

\* A filter that ends the process lets the deferred functions run before.
Filter ==
  /\ At("filter", "tree")
  /\ \/ /\ \E kind \in FilterKinds : DeepFiltrateResources(kind)
        /\ IF pc' = "panic"
             THEN Die(<<"down", "log">>)
             ELSE UNCHANGED agenda
     \/ todo = {} /\ Proceed /\ UNCHANGED vars
  /\ UNCHANGED <<call, slot, store, dirs, local, budget, meant, troubled>>
-----------------------------------------------------------------------------

Kill ==
  /\ agenda \notin {<<>>, <<RestartStep>>}
  /\ Disturb("kill")
  /\ agenda' = <<RestartStep>>
  /\ UNCHANGED <<vars, call, slot, store, dirs, local, meant>>

\* The caller begins anew, with its map as it was.
Restart ==
  /\ At("restart", "tree")
  /\ agenda' = <<>> /\ local' = Nothing
  /\ pc' = "idle" /\ filters' = asked /\ backups' = 0
  /\ UNCHANGED <<world, found, asked, mission, lists, tree, gaps, loaded, hollow, todo,
                 call, slot, store, dirs, budget, meant, troubled>>

Mission ==
  \/ OpenLog \/ CallFails \/ Discover \/ Build
  \/ Find \/ Fetch \/ Unpack \/ Filter \/ ApplyAndRename
  \/ CheckExist
  \/ \E file \in Archived \cup {"log", "status"} :
       Write(file) \/ Pack(file) \/ Upload(file) \/ Ship(file)
  \/ \E kind \in {"log", "core", "down"} : DeleteDir(kind)
  \/ Restart

NextFiles ==
  \/ \E kind \in {"backup", "restore"}, name \in Names : BeginMission(kind, name)
  \/ Mission \/ Kill

SpecFiles == FilesInit /\ [][NextFiles]_allVars

\* Every call returns, with an answer or an error.
FairSpecFiles == SpecFiles /\ WF_allVars(Mission)
-----------------------------------------------------------------------------

\* Both archives under a name have every object of the tree of the mission
\* that stored them, and nothing else, wherever a mission gave up; they and
\* the status are whole.  Only files of objects in an archive, and the log,
\* may be cut short, and only if that mission had trouble with its disk.
StoredWhole ==
  \A s \in Slots : \A file \in DOMAIN store[s] :
    LET content == store[s][file] IN
    /\ content.of = IF file \in Archived THEN meant[s] ELSE {}
    /\ content.whole \/ file = "log"
    /\ \/ content.whole /\ content.torn = {}
       \/ <<content.by, "disk">> \in troubled

\* A restore works on what the backup of that name was meant to store, all of
\* it and with every definition, unless its disk was at fault or that of the
\* backup.  Even then there is nothing in its tree that was not backed up, and
\* at most one object without a definition.
RoundTrip ==
  pc = "filter" /\ agenda # <<>> =>
    /\ loaded \subseteq meant[slot]
    /\ hollow = {} \/ \E o \in loaded : hollow = {o}
    /\ \/ loaded = meant[slot] /\ hollow = {}
       \/ <<call, "disk">> \in troubled
       \/ <<store[slot]["json"].by, "disk">> \in troubled

\* Missions leave no working directory behind, whatever the store and the
\* cluster answer: only one that was killed, had trouble with its disk or came
\* upon an object without a definition may.
Tidy ==
  \A d \in dirs :
    \/ d[1] = call /\ agenda # <<>>
    \/ \E what \in {"disk", "kill", "hollow"} : <<d[1], what>> \in troubled

\* Every mission comes to an end.
MissionsEnd == (agenda # <<>>) ~> (agenda = <<>>)
=============================================================================
