----------------------------- MODULE HostUploads -----------------------------
(***************************************************************************)
(* pncurl --drive: a video is sent to Google Drive, LuluStream and Voe at  *)
(* once, by a task for each host that sends what it did to the program,    *)
(* which prints a line for each message (bin/pncurl.rs and                 *)
(* lib/http/curl/core.rs).  The Drive task finds or makes the folders of a *)
(* path one after the other and remembers the last one on disk, for the    *)
(* runs that follow.                                                       *)
(*                                                                         *)
(* Drive is a set of folders, each with its parent and its name, and the   *)
(* set of the uploaded files; several folders may have the same name.      *)
(***************************************************************************)
EXTENDS Naturals, Sequences, FiniteSets, SequencesExt

CONSTANTS
  Paths,       \* the folder paths that are asked for: sequences of names
  Backups,     \* whether a run may be, or must be, for Drive alone
  Pieces,      \* the reads that a file takes
  MaxRuns,     \* bound: runs of the program
  AtOnce,      \* bound: runs at the same time
  MaxUploadFaults, MaxStops  \* bounds: calls that fail, runs that are cancelled

Hosts == {"drive", "lulu", "voe"}
Root == 0

VARIABLES
  folders,   \* the folders in Drive: [id, parent, name]
  files,     \* the uploaded files: [run, host, folder]
  cached,    \* the folders that are remembered: [path, id]
  run,       \* the runs: [backup, path, state, results]
  task,      \* the tasks of each run
  inbox,     \* the messages of each run's tasks
  told,      \* the lines that each run printed about an end
  stopped,   \* the runs whose cancel file is there
  faults

uploadVars == <<folders, files, cached, run, task, inbox, told, stopped, faults>>

HostsOf(r) == IF run[r].backup THEN {"drive"} ELSE Hosts
Runs == DOMAIN run
Running == {r \in Runs : run[r].state = "running"}

NoTask == [step |-> "start", parent |-> Root, todo |-> <<>>, sent |-> 0]
Do(r, h, t) == task' = [task EXCEPT ![r][h] = t]
At(r, h, step) == r \in Running /\ h \in HostsOf(r) /\ task[r][h].step = step
Say(r, kind, h) == inbox' = [inbox EXCEPT ![r] = Append(@, [kind |-> kind, host |-> h])]
Quiet == UNCHANGED inbox
Fault == faults < MaxUploadFaults /\ faults' = faults + 1
Fine == UNCHANGED faults

-----------------------------------------------------------------------------
UploadInit ==
  /\ folders = {} /\ files = {} /\ cached = {}
  /\ run = <<>> /\ task = <<>> /\ inbox = <<>> /\ told = <<>>
  /\ stopped = {} /\ faults = 0

Start ==
  /\ Len(run) < MaxRuns /\ Cardinality(Running) < AtOnce
  /\ \E path \in Paths, backup \in Backups :
       run' = Append(run, [backup |-> backup, path |-> path, state |-> "running",
                           results |-> {}])
  /\ task' = Append(task, [h \in Hosts |-> NoTask])
  /\ inbox' = Append(inbox, <<>>)
  /\ told' = Append(told, <<>>)
  /\ UNCHANGED <<folders, files, cached, stopped, faults>>

\* The worker leaves a cancel file.
Stop ==
  /\ Cardinality(stopped) < MaxStops
  /\ \E r \in Running \ stopped : stopped' = stopped \union {r}
  /\ UNCHANGED <<folders, files, cached, run, task, inbox, told, faults>>

\* A task ends with one message.
Finish(r, h, kind) ==
  /\ Do(r, h, [task[r][h] EXCEPT !.step = "ended"])
  /\ Say(r, kind, h)
Fails(r, h) == Fault /\ Finish(r, h, "fail")

\* A task looks for the cancel file once before it calls anything.
Begin(r, h) ==
  /\ At(r, h, "start")
  /\ IF r \in stopped THEN Finish(r, h, "cancel")
     ELSE /\ Do(r, h, [task[r][h] EXCEPT !.step = IF h = "drive" THEN "token" ELSE "server"])
          /\ Quiet
  /\ Fine
  /\ UNCHANGED <<folders, files, cached, run, told, stopped>>

\* LuluStream and Voe name the server that takes the file.
AskServer(r, h) ==
  /\ At(r, h, "server")
  /\ \/ Fine /\ Quiet /\ Do(r, h, [task[r][h] EXCEPT !.step = "send"])
     \/ Fails(r, h)
  /\ UNCHANGED <<folders, files, cached, run, told, stopped>>

\* Drive needs an access token, and then the folder: the remembered one, or the
\* first of the path below the root.
Remembered(path) == {c.id : c \in {x \in cached : x.path = path}}
AccessToken(r) ==
  /\ At(r, "drive", "token")
  /\ LET t == task[r]["drive"]
         path == run[r].path
     IN \/ /\ path = <<>> /\ Fine /\ Quiet
           /\ Do(r, "drive", [t EXCEPT !.step = "send"])
        \/ /\ path # <<>> /\ Fine /\ Quiet
           /\ \E id \in Remembered(path) : Do(r, "drive", [t EXCEPT !.step = "send", !.parent = id])
        \/ /\ path # <<>> /\ Remembered(path) = {} /\ Fine /\ Quiet
           /\ Do(r, "drive", [t EXCEPT !.step = "search", !.todo = path])
        \/ Fails(r, "drive")
  /\ UNCHANGED <<folders, files, cached, run, told, stopped>>

\* A name is looked for in the folder reached so far; one of those found is taken.
Named(parent, name) == {f \in folders : f.parent = parent /\ f.name = name}
Into(t, id) == [t EXCEPT !.parent = id, !.todo = Tail(@),
                         !.step = IF Len(t.todo) = 1 THEN "remember" ELSE "search"]
SearchFolder(r) ==
  /\ At(r, "drive", "search")
  /\ LET t == task[r]["drive"]
         found == Named(t.parent, Head(t.todo))
     IN \/ \E f \in found : Do(r, "drive", Into(t, f.id)) /\ Fine /\ Quiet
        \/ found = {} /\ Do(r, "drive", [t EXCEPT !.step = "create"]) /\ Fine /\ Quiet
        \/ Fails(r, "drive")
  /\ UNCHANGED <<folders, files, cached, run, told, stopped>>

\* A folder that was made although its answer was lost is there all the same.
CreateFolder(r) ==
  /\ At(r, "drive", "create")
  /\ LET t == task[r]["drive"]
         new == [id |-> Cardinality(folders) + 1, parent |-> t.parent, name |-> Head(t.todo)]
     IN \/ folders' = folders \union {new} /\ Do(r, "drive", Into(t, new.id)) /\ Fine /\ Quiet
        \/ folders' \in {folders, folders \union {new}} /\ Fails(r, "drive")
  /\ UNCHANGED <<files, cached, run, told, stopped>>

\* Nothing depends on whether the folder could be remembered.
Remember(r) ==
  /\ At(r, "drive", "remember")
  /\ LET t == task[r]["drive"]
         entry == [path |-> run[r].path, id |-> t.parent]
     IN /\ \/ Fine /\ cached' = {c \in cached : c.path # entry.path} \union {entry}
           \/ Fault /\ UNCHANGED cached
        /\ Do(r, "drive", [t EXCEPT !.step = "send"])
  /\ Quiet
  /\ UNCHANGED <<folders, files, run, told, stopped>>

\* The file is read while it is sent; the reader looks for the cancel file each
\* time, and then fails the request, which says so once more.
Piece(r, h) ==
  /\ At(r, h, "send") /\ task[r][h].sent < Pieces
  /\ LET t == task[r][h] IN
     \/ r \notin stopped /\ Fine /\ Quiet /\ Do(r, h, [t EXCEPT !.sent = @ + 1])
     \/ r \in stopped /\ Fine /\ Say(r, "cancel", h) /\ Do(r, h, [t EXCEPT !.step = "broken"])
     \/ r \notin stopped /\ Fails(r, h)
  /\ UNCHANGED <<folders, files, cached, run, told, stopped>>
Broken(r, h) ==
  /\ At(r, h, "broken")
  /\ Finish(r, h, "cancel") /\ Fine
  /\ UNCHANGED <<folders, files, cached, run, told, stopped>>

\* The host has the whole file and answers with its link, or with none; what is
\* lost then counts as failed, although the file is there; a request that fails
\* when the cancel file is there counts as cancelled.
Answer(r, h) ==
  /\ At(r, h, "send") /\ task[r][h].sent = Pieces
  /\ LET file == [run |-> r, host |-> h, folder |-> task[r][h].parent] IN
     \/ files' = files \union {file} /\ Fine /\ Finish(r, h, "done")
     \/ /\ files' \in {files, files \union {file}} /\ Fault
        /\ \E kind \in {"fail"} \union (IF r \in stopped THEN {"cancel"} ELSE {}) :
             Finish(r, h, kind)
  /\ UNCHANGED <<folders, cached, run, told, stopped>>

-----------------------------------------------------------------------------
\* The program prints each message; it is over with the first cancel, or when
\* each host, or Drive alone, has a result.
Over(r, results) == HostsOf(r) \subseteq results
Receive(r) ==
  /\ r \in Running /\ inbox[r] # <<>>
  /\ LET m == Head(inbox[r])
         results == IF m.kind = "cancel" THEN run[r].results
                    ELSE run[r].results \union {m.host}
         state == IF m.kind = "cancel" \/ Over(r, results) THEN "over" ELSE "running"
     IN /\ told' = [told EXCEPT ![r] = Append(@, m)]
        /\ run' = [run EXCEPT ![r].results = results, ![r].state = state]
  /\ inbox' = [inbox EXCEPT ![r] = Tail(@)]
  /\ UNCHANGED <<folders, files, cached, task, stopped, faults>>

UploadNext ==
  \/ Start \/ Stop
  \/ \E r \in Running :
       \/ AccessToken(r) \/ SearchFolder(r) \/ CreateFolder(r) \/ Remember(r) \/ Receive(r)
       \/ \E h \in Hosts : Begin(r, h) \/ AskServer(r, h) \/ Piece(r, h) \/ Broken(r, h) \/ Answer(r, h)

UploadSpec == UploadInit /\ [][UploadNext]_uploadVars

-----------------------------------------------------------------------------
\* Folders are below the root or another folder; results are of the run's hosts.
UploadTypeOK ==
  /\ \A f \in folders : f.parent = Root \/ \E g \in folders : g.id = f.parent
  /\ \A r \in Runs : run[r].results \subseteq HostsOf(r)
  /\ \A c \in cached : \E f \in folders : f.id = c.id

Told(r, kind, h) == \E n \in DOMAIN told[r] : told[r][n] = [kind |-> kind, host |-> h]
\* A link is printed only of a file the host has, a host has one end, a run that
\* is over has one for each host unless it was cancelled, and then nothing follows
\* the cancel, which somebody asked for.
LinksAreOfFiles ==
  \A r \in Runs :
    /\ \A h \in Hosts : Told(r, "done", h) => \E f \in files : f.run = r /\ f.host = h
    /\ \A m, n \in DOMAIN told[r] : m # n => told[r][m].host # told[r][n].host
    /\ \A n \in DOMAIN told[r] : told[r][n].kind = "cancel" => n = Len(told[r]) /\ r \in stopped
    /\ run[r].state = "over" =>
         \/ \A h \in HostsOf(r) : Told(r, "done", h) \/ Told(r, "fail", h)
         \/ told[r][Len(told[r])].kind = "cancel"

\* The files of one path are in one folder, and it has that path.
FolderOf(id) == CHOOSE f \in folders : f.id = id
IsPath(id, path) ==
  LET Up[n \in 0 .. Len(path)] == IF n = Len(path) THEN id ELSE FolderOf(Up[n + 1]).parent
  IN Up[0] = Root /\ \A n \in 1 .. Len(path) : FolderOf(Up[n]).name = path[n]
FilesAreTogether ==
  \A f, g \in {x \in files : x.host = "drive"} :
    /\ IsPath(f.folder, run[f.run].path)
    /\ run[f.run].path = run[g.run].path => f.folder = g.folder
=============================================================================
