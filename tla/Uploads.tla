------------------------------ MODULE Uploads ------------------------------
(***************************************************************************)
(* The files that devices upload to the panel, admin/upload.py.  An upload *)
(* is a coroutine that awaits every chunk it reads, so others move between *)
(* its chunks; listing and deleting run in threads.  A file is named after *)
(* the millisecond in which it is opened and its own name.  What is open   *)
(* when its name is unlinked goes on being written, to nothing.            *)
(***************************************************************************)
EXTENDS Naturals, Sequences

CONSTANTS Uploaders,  \* uploads under way at once
          Folders,    \* devices' directories
          FileNames,  \* names the devices give their files
          MaxChunks,  \* chunks a file may have: MAX_SIZE_MB
          Sizes,      \* chunks of the files that are sent
          MaxFiles,   \* bounds: files opened,
          MaxMs       \* milliseconds

VARIABLES clock,  \* the millisecond
          opened, \* history, the files ever opened: [folder, ms, file, chunks]
          nodes,  \* what was written to each node, chunk number -> number of the file
          disk,   \* name -> its node
          up,     \* what each upload is doing: [at, folder, todo, file, node, read, list]
          saved,  \* history, the files answered as saved
          deleted \* history, the files whose name was deleted after they were opened

uploadVars == <<clock, opened, nodes, disk, up, saved, deleted>>

NoUpload == [at |-> "idle", folder |-> "", todo |-> <<>>, file |-> 0, node |-> 0, read |-> 0, list |-> {}]
UploadsInit == /\ clock = 0 /\ opened = <<>> /\ nodes = <<>> /\ disk = <<>>
               /\ up = [u \in Uploaders |-> NoUpload] /\ saved = {} /\ deleted = {}

Put(f, k, v) == [x \in DOMAIN f \cup {k} |-> IF x = k THEN v ELSE f[x]]
Sent == [file : FileNames, chunks : Sizes]
Upload(u) == /\ up[u] = NoUpload /\ Len(opened) < MaxFiles
             /\ \E d \in Folders, first, second \in Sent, n \in 1..2 :
                  up' = [up EXCEPT ![u] = [NoUpload EXCEPT !.at = "open", !.folder = d, !.todo = SubSeq(<<first, second>>, 1, n)]]
             /\ UNCHANGED <<clock, opened, nodes, disk, saved, deleted>>

\* MUTANT: a file keeps the name it was sent with.
NameSent(file) == <<file.folder, file.file>>
NameOf(file) == <<file.folder, file.ms, file.file>>
\* The name is that of the file the upload is about to open; open(..., "wb") empties the node
\* of a name that exists and makes a new one for another.
OpenFile(u) ==
  /\ up[u].at = "open" /\ Len(opened) < MaxFiles
  /\ LET file == [folder |-> up[u].folder, ms |-> clock, file |-> up[u].todo[1].file, chunks |-> up[u].todo[1].chunks]
         name == NameOf(file)
         there == name \in DOMAIN disk
         node == IF there THEN disk[name] ELSE Len(nodes) + 1
     IN /\ opened' = Append(opened, file)
        /\ nodes' = IF there THEN [nodes EXCEPT ![node] = <<>>] ELSE Append(nodes, <<>>)
        /\ disk' = Put(disk, name, node)
        /\ up' = [up EXCEPT ![u].at = "read", ![u].file = Len(opened) + 1, ![u].node = node, ![u].read = 0]
  /\ UNCHANGED <<clock, saved, deleted>>

\* A chunk too many unlinks the name and refuses the upload; the files before it stay.
Unlinked(name) == [n \in DOMAIN disk \ {name} |-> disk[n]]
ReadChunk(u) ==
  /\ up[u].at = "read" /\ up[u].read < opened[up[u].file].chunks
  /\ IF up[u].read = MaxChunks
     THEN /\ disk' = Unlinked(NameOf(opened[up[u].file])) /\ UNCHANGED nodes
          /\ up' = [up EXCEPT ![u] = NoUpload]
     ELSE /\ nodes' = [nodes EXCEPT ![up[u].node] = Put(@, up[u].read + 1, up[u].file)] /\ UNCHANGED disk
          /\ up' = [up EXCEPT ![u].read = @ + 1]
  /\ UNCHANGED <<clock, opened, saved, deleted>>

\* The end of a file; after the last the upload is answered.
FileRead(u) ==
  /\ up[u].at = "read" /\ up[u].read = opened[up[u].file].chunks
  /\ LET list == up[u].list \cup {up[u].file}
     IN IF Len(up[u].todo) = 1
        THEN saved' = saved \cup list /\ up' = [up EXCEPT ![u] = NoUpload]
        ELSE /\ up' = [up EXCEPT ![u].at = "open", ![u].todo = Tail(@), ![u].list = list]
             /\ UNCHANGED saved
  /\ UNCHANGED <<clock, opened, nodes, disk, deleted>>

DeleteFile(name) == /\ name \in DOMAIN disk /\ disk' = Unlinked(name)
                    /\ deleted' = deleted \cup {f \in DOMAIN opened : NameOf(opened[f]) = name}
                    /\ UNCHANGED <<clock, opened, nodes, up, saved>>

Millisecond == clock < MaxMs /\ clock' = clock + 1 /\ UNCHANGED <<opened, nodes, disk, up, saved, deleted>>
\* The process stops and starts: a file that was being read stays as it is.
RestartUploads == /\ \E u \in Uploaders : up[u] # NoUpload
                  /\ up' = [u \in Uploaders |-> NoUpload]
                  /\ UNCHANGED <<clock, opened, nodes, disk, saved, deleted>>

UploadsNext == \/ Millisecond \/ RestartUploads
               \/ \E name \in DOMAIN disk : DeleteFile(name)
               \/ \E u \in Uploaders : Upload(u) \/ OpenFile(u) \/ ReadChunk(u) \/ FileRead(u)

\* list_files: what is there below a directory, half-written files too.
ListFiles(folder) == {name \in DOMAIN disk : name[1] = folder}
\* mother_uploads: the files of a device with their sizes.
Size(name) == LET written == DOMAIN nodes[disk[name]] IN IF written = {} THEN 0 ELSE CHOOSE c \in written : \A d \in written : d <= c
MotherUploads(folder) == {[name |-> name, size |-> Size(name)] : name \in ListFiles(folder)}
-----------------------------------------------------------------------------
\* A file that was answered as saved is listed for its device with its size and has all that
\* was sent and nothing else, whatever other uploads, refusals, deletions and restarts come
\* between its chunks, until its name is deleted; unless another file of its name was opened
\* in its folder in the same millisecond.
Alone(f) == \A g \in DOMAIN opened \ {f} :
              opened[g].folder # opened[f].folder \/ opened[g].ms # opened[f].ms \/ opened[g].file # opened[f].file
SavedStay == \A f \in saved \ deleted : Alone(f) =>
               /\ [name |-> NameOf(opened[f]), size |-> opened[f].chunks] \in MotherUploads(opened[f].folder)
               /\ nodes[disk[NameOf(opened[f])]] = [c \in 1..opened[f].chunks |-> f]
=============================================================================
