----------------------------- MODULE FilePanes -----------------------------
(***************************************************************************)
(* The file browser's page, src/frontend/src/pages/sftp/model/store.ts, on  *)
(* top of the queue it starts tasks in.  The page connects a session, lists *)
(* directories on both sides and moves files across: it looks for a file of *)
(* the same name, asks the user, starts the task, remembers it in           *)
(* pendingMoveDeletes and deletes the source when the task's event says     *)
(* "done".  Everything it calls is awaited, and the page goes on meanwhile. *)
(*                                                                          *)
(* One name is enough for all files: a place is an end (this computer or a  *)
(* session's host), a directory and the number a rename added to the name.  *)
(* An event reaches the page in the step that publishes it: one that comes  *)
(* later is like one published later.  Copies across are moves that         *)
(* remember nothing; what happens on one side only, the selection and the   *)
(* texts of errors are left out.                                            *)
(***************************************************************************)
EXTENDS TransferQueue

CONSTANTS
  Sessions,   \* the sessions the page connects, one after the other
  Dirs, Home, \* directories, and the one where both panes begin
  Movers,     \* bound: the tasks that the page starts
  MaxVisits,  \* bound: directories the user goes to
  Scenes      \* the scenes: "queue": tasks are started by others and cancelled;
              \* "page": by the page, whose sessions come and go; "cancel": by
              \* the page on one session, and they are cancelled

ASSUME PageAssumption == Home \in Dirs /\ Movers \subseteq Tasks /\ MaxVisits \in Nat
ASSUME ScenesAssumption == Scenes \subseteq {"queue", "page", "cancel"}
ASSUME EndsAssumption == "local" \notin Sessions /\ None \notin Sessions \cup Dirs \cup {"local"}

VARIABLES
  scene,
  life,                \* the sessions, as their service has them
  page, watched,       \* sessionId and remoteOps; the session subscribed to
  gate, opening,       \* where connect is, and with which session
  localPath, remotePath, listed,  \* the panes; whose directory the remote one shows
  lists, visits,       \* refreshes on the way
  clip,                \* the file that was cut
  step, asked, policy, given,     \* a move: where it is, what was asked, answered, done
  asking,              \* pendingConflict
  moving,              \* pendingMoveDeletes
  files,               \* the places that hold a file
  removed              \* history: tasks whose source was deleted, and at which end

sessionVars == <<life, page, watched, gate, opening>>
paneVars == <<localPath, remotePath, listed, lists, visits>>
moveVars == <<step, asked, policy, given, asking>>
fileVars == <<moving, files, removed>>
pageVars == <<scene, sessionVars, paneVars, clip, moveVars, fileVars>>
allVars == <<vars, pageVars>>

Ends == Sessions \cup {"local"}
Place(end, dir, n) == [end |-> end, dir |-> dir, n |-> n]

PageInit ==
  /\ Init
  /\ scene \in Scenes
  /\ life = [s \in Sessions |-> "none"]
  /\ page = None /\ watched = None
  /\ gate = "closed" /\ opening = None
  /\ localPath = Home /\ remotePath = None /\ listed = None
  /\ lists = {} /\ visits = 0
  /\ clip = None
  /\ step = [t \in Tasks |-> "idle"]
  /\ asked = [t \in Tasks |-> None]
  /\ policy = [t \in Tasks |-> None]
  /\ given = [t \in Tasks |-> None]
  /\ asking = None
  /\ moving = {} /\ removed = {}
  /\ \E where \in {Ends, {"local"}, Sessions} : files = {Place(e, Home, 0) : e \in where}
-----------------------------------------------------------------------------
(* connect and disconnect.                                                  *)

GateStep(from, to) ==
  /\ gate = from
  /\ gate' = to

\* connectHost: CreateSSH registers a new session and dials in the background.
\* The gate offers a connection while there is none and none is being made.
Connect ==
  /\ scene # "queue"
  /\ scene = "cancel" => opening = None
  /\ GateStep("closed", "created")
  /\ page = None
  /\ \E s \in Sessions : life[s] = "none"
  /\ opening' = CHOOSE s \in Sessions : life[s] = "none"
  /\ life' = [life EXCEPT ![opening'] = "connecting"]
  /\ UNCHANGED <<vars, scene, page, watched, paneVars, clip, moveVars, fileVars>>

Subscribe ==
  /\ GateStep("created", "home")
  /\ watched' = opening
  /\ UNCHANGED <<vars, scene, life, page, opening, paneVars, clip, moveVars, fileVars>>

\* homeDir, which FileSystem refuses to a session that is still connecting; the
\* session is left to itself then.  The answer is on its way afterwards.
AskHome ==
  /\ \/ GateStep("home", "answered") /\ life[opening] = "running"
     \/ GateStep("home", "closed")
  /\ UNCHANGED <<vars, scene, life, page, watched, opening, paneVars, clip, moveVars, fileVars>>

Listing(side, of, dir, own) == [side |-> side, of |-> of, dir |-> dir, own |-> own]

\* The page has its session, and connect awaits the first listing.
Enter ==
  /\ GateStep("answered", "listing")
  /\ page' = opening
  /\ lists' = lists \cup {Listing("remote", opening, Home, TRUE)}
  /\ UNCHANGED <<vars, scene, life, watched, opening, localPath, remotePath, listed, visits, clip, moveVars, fileVars>>

\* connectSSH ends well.
DialEnds(s) ==
  /\ life[s] = "connecting"
  /\ life' = [life EXCEPT ![s] = "running"]
  /\ UNCHANGED <<vars, scene, page, watched, gate, opening, paneVars, clip, moveVars, fileVars>>

\* A session ends, or is not reached; the page hears of the one it watches.
SessionEnds(s) ==
  /\ life[s] \in {"connecting", "running"}
  /\ life' = [life EXCEPT ![s] = "gone"]
  /\ \/ /\ watched = s
        /\ watched' = None
        /\ page' = None
        /\ remotePath' = None /\ listed' = None
     \/ /\ watched # s
        /\ UNCHANGED <<watched, page, remotePath, listed>>
  /\ UNCHANGED <<vars, scene, gate, opening, localPath, lists, visits, clip, moveVars, fileVars>>

Disconnect ==
  /\ page # None
  /\ life' = [life EXCEPT ![page] = "gone"]
  /\ watched' = None
  /\ page' = None
  /\ remotePath' = None /\ listed' = None
  /\ clip' = IF clip # None /\ clip.end # "local" THEN None ELSE clip
  /\ UNCHANGED <<vars, scene, gate, opening, localPath, lists, visits, moveVars, fileVars>>
-----------------------------------------------------------------------------
(* refreshLocal and refreshRemote.                                          *)

\* Bound: one at a time, and before the moves have tasks.
Visit(side, dir) ==
  /\ scene = "page"
  /\ visits < MaxVisits /\ lists = {} /\ \A t \in Movers : pc[t] = "new"
  /\ dir # IF side = "local" THEN localPath ELSE remotePath
  /\ side = "remote" => page # None
  /\ visits' = visits + 1
  /\ lists' = lists \cup {Listing(side, page, dir, FALSE)}
  /\ UNCHANGED <<vars, scene, sessionVars, localPath, remotePath, listed, clip, moveVars, fileVars>>

\* An answer replaces what the pane shows, whatever was asked since; an error
\* leaves it.  The first listing, either way, ends connect.
Listed(l) ==
  /\ l \in lists
  /\ lists' = lists \ {l}
  /\ gate' = IF l.own THEN "closed" ELSE gate
  /\ \/ l.side = "local" /\ localPath' = l.dir /\ UNCHANGED <<remotePath, listed>>
     \/ l.side = "remote" /\ remotePath' = l.dir /\ listed' = l.of /\ UNCHANGED localPath
     \/ UNCHANGED <<localPath, remotePath, listed>>
  /\ UNCHANGED <<vars, scene, life, page, watched, opening, visits, clip, moveVars, fileVars>>
-----------------------------------------------------------------------------
(* A move across: setClipboard, paste, the check, the answer, the call.      *)

MoveStep(t, from, to) ==
  /\ step[t] = from
  /\ step' = [step EXCEPT ![t] = to]

Uploads(t) == asked[t].src.end = "local"

\* Bound: a file is cut when none is in the clipboard and a move is left.
Cut(place) ==
  /\ scene # "queue"
  /\ clip = None /\ \E t \in Movers : step[t] = "idle"
  /\ place \in files
  /\ \/ place.end = "local" /\ place.dir = localPath
     \/ page # None /\ place.end = page /\ listed = page /\ place.dir = remotePath
  /\ clip' = place
  /\ UNCHANGED <<vars, scene, sessionVars, paneVars, moveVars, fileVars>>

\* paste on the other side, and transferWithConflictCheck's first look.
Paste(t) ==
  /\ t \in Movers
  /\ MoveStep(t, "idle", "check")
  /\ clip # None
  /\ page # None
  /\ LET dir == IF clip.end = "local" THEN remotePath ELSE localPath IN
     /\ dir # None
     /\ asked' = [asked EXCEPT ![t] = [src |-> clip, sess |-> page, dir |-> dir]]
  /\ UNCHANGED <<vars, scene, sessionVars, paneVars, clip, policy, given, asking, fileVars>>

\* Without a session nothing is looked for; what was cut on a host that is gone
\* is forgotten all the same.
PasteInVain ==
  /\ page = None
  /\ clip # None /\ clip.end # "local"
  /\ clip' = None
  /\ UNCHANGED <<vars, scene, sessionVars, paneVars, moveVars, fileVars>>

\* The end that a task of session s writes to.
Target(t, s) == IF Uploads(t) THEN s ELSE "local"

\* The destination is listed; a listing that fails ends the move.
Check(t) ==
  /\ step[t] = "check"
  /\ LET place == Place(Target(t, asked[t].sess), asked[t].dir, 0)
         answers == Uploads(t) => life[asked[t].sess] = "running" IN
     \/ answers /\ place \in files /\ MoveStep(t, "check", "conflict")
     \/ answers /\ place \notin files /\ MoveStep(t, "check", "clear")
     \/ MoveStep(t, "check", "over")
  /\ UNCHANGED <<vars, scene, sessionVars, paneVars, clip, asked, policy, given, asking, fileVars>>

\* pendingConflict takes the place of an earlier one; paste is over and
\* forgets what was cut.
Ask(t) ==
  /\ MoveStep(t, "conflict", "asked")
  /\ asking' = t
  /\ clip' = None
  /\ UNCHANGED <<vars, scene, sessionVars, paneVars, asked, policy, given, fileVars>>

Dismiss(t) ==
  /\ asking = t
  /\ MoveStep(t, "asked", "over")
  /\ asking' = None
  /\ UNCHANGED <<vars, scene, sessionVars, paneVars, clip, asked, policy, given, fileVars>>

\* startCrossSideTransfer: the session and the directory are read anew.
Call(t) ==
  /\ given' = [given EXCEPT ![t] =
       [sess |-> page, dst |-> Place(Target(t, page), IF Uploads(t) THEN remotePath ELSE localPath, 0)]]
  /\ UNCHANGED <<vars, scene, sessionVars, paneVars, asked, fileVars>>

Unhindered(t) ==
  /\ page # None
  /\ MoveStep(t, "clear", "call")
  /\ policy' = [policy EXCEPT ![t] = "unasked"]
  /\ UNCHANGED <<asking, clip>>
  /\ Call(t)

Resume(t, choice) ==
  /\ page # None
  /\ asking = t
  /\ MoveStep(t, "asked", "call")
  /\ policy' = [policy EXCEPT ![t] = choice]
  /\ asking' = None
  /\ UNCHANGED clip
  /\ Call(t)

\* Without a session nothing is started.
Forgo(t) ==
  /\ page = None
  /\ \/ MoveStep(t, "clear", "over") /\ clip' = None /\ UNCHANGED asking
     \/ asking = t /\ MoveStep(t, "asked", "over") /\ asking' = None /\ UNCHANGED clip
  /\ UNCHANGED <<vars, scene, sessionVars, paneVars, asked, policy, given, fileVars>>
-----------------------------------------------------------------------------
(* Upload and Download, and what comes back of them.                         *)

\* resolveConflict: the destination, or None when the file is skipped.  Without
\* an answer of the user the page says "overwrite".
Resolve(place, choice) ==
  IF place \notin files \/ choice \in {"unasked", "overwrite"} THEN place
  ELSE IF choice = "skip" THEN None
  ELSE LET free == {n \in 1..Cardinality(files) : [place EXCEPT !.n = n] \notin files}
       IN [place EXCEPT !.n = CHOOSE n \in free : \A m \in free : n <= m]

\* Bound: a session's tasks are over before the next session has some, so that
\* one queue stands for the queues of all sessions.
OneQueue(t) ==
  \A u \in Tasks : pc[u] \notin {"new", "finished"} => given[u].sess = given[t].sess

\* buildUploadTask or buildDownloadTask, and start.  Bound: one file at most.
StartMove(t) ==
  /\ MoveStep(t, "call", "started")
  /\ OneQueue(t)
  /\ life[given[t].sess] = "running"
  /\ Resolve(given[t].dst, policy[t]) # None
  /\ given' = [given EXCEPT ![t] = [sess |-> @.sess, dst |-> Resolve(@.dst, policy[t])]]
  /\ Start(t)
  /\ left'[t] <= 1
  /\ UNCHANGED <<scene, sessionVars, paneVars, clip, asked, policy, asking, fileVars>>

\* paste ends here when nobody had to be asked, and forgets what was cut.
PasteEnds(t) == clip' = IF policy[t] = "unasked" THEN None ELSE clip

\* Skipped, or an error: of the session, the source or a directory.
NotStarted(t) ==
  /\ MoveStep(t, "call", "over")
  /\ PasteEnds(t)
  /\ UNCHANGED <<vars, scene, sessionVars, paneVars, asked, policy, given, asking, fileVars>>

\* The call's answer, which start has let go once the task was handed over.
Answered(t) ==
  /\ pc[t] \notin {"new", "tellQueued", "enqueue"}
  /\ MoveStep(t, "started", "over")
  /\ moving' = moving \cup {t}
  /\ PasteEnds(t)
  /\ UNCHANGED <<vars, scene, sessionVars, paneVars, asked, policy, given, asking, files, removed>>
-----------------------------------------------------------------------------
(* initTransferWatcher: the events of tasks.                                *)

\* Mutant: events of any session count.
OfAnySession(t) == page # None /\ given[t] # None

OfThePage(t) == page # None /\ given[t] # None /\ given[t].sess = page

\* Mutant: every last event counts.
AnyLast(event) == event \in Final

Landed(event) == event = "done"

\* remove, with the path of the task's source, through the operations of the
\* page's session or of this computer.
Source(t) == Place(IF Uploads(t) THEN "local" ELSE page, asked[t].src.dir, asked[t].src.n)

\* The pane whose directory is the very path of what landed is refreshed: the
\* path of a file is no directory's.
Watch(t, event) ==
  /\ moving' = IF OfThePage(t) /\ event \in Final THEN moving \ {t} ELSE moving
  /\ \/ /\ OfThePage(t) /\ t \in moving /\ Landed(event)
        /\ removed' = removed \cup {[task |-> t, at |-> Source(t).end]}
        /\ files' \in {files, files \ {Source(t)}}  \* remove may fail
     \/ /\ ~(OfThePage(t) /\ t \in moving /\ Landed(event))
        /\ UNCHANGED <<removed, files>>
  /\ UNCHANGED <<scene, sessionVars, paneVars, clip, moveVars>>
-----------------------------------------------------------------------------
(* The queue's steps, as the page sees them.                                *)

StartElsewhere(t) == scene = "queue" /\ Start(t) /\ UNCHANGED pageVars

PublishTask(t) == Publish(t) /\ Watch(t, said[t])

\* The destination exists as soon as it is opened.
OpenFile(t) ==
  /\ Open(t)
  /\ files' = IF given[t] # None /\ pc'[t] = "poll" THEN files \cup {given[t].dst} ELSE files
  /\ UNCHANGED <<scene, sessionVars, paneVars, clip, moveVars, moving, removed>>

Quietly(t) ==
  /\ Snapshot(t) \/ Enqueue(t) \/ NextTask(t) \/ SetRunning(t) \/ CheckFile(t) \/ Poll(t) \/ Read(t)
  /\ UNCHANGED pageVars

TaskWork(t) == PublishTask(t) \/ OpenFile(t) \/ Quietly(t)

CancelWork(k) ==
  \/ (Look(k) \/ Flip(k) \/ CancelSnapshot(k)) /\ UNCHANGED pageVars
  \/ CancelPublish(k) /\ Watch(target[k], heard[k])

\* Bound: cancels and sessions that come and go have scenes of their own.
CancelTask(k, t) == scene # "page" /\ Cancel(k, t) /\ UNCHANGED pageVars
-----------------------------------------------------------------------------
ConnectStep == Connect \/ Subscribe \/ AskHome \/ Enter \/ \E l \in lists : Listed(l)

Service == \E s \in Sessions : DialEnds(s) \/ SessionEnds(s)

User ==
  \/ Disconnect \/ PasteInVain
  \/ \E side \in {"local", "remote"}, dir \in Dirs : Visit(side, dir)
  \/ \E place \in files : Cut(place)

MoveWork(t) ==
  \/ Paste(t) \/ Check(t) \/ Ask(t) \/ Dismiss(t) \/ Unhindered(t) \/ Forgo(t)
  \/ \E choice \in {"overwrite", "rename", "skip"} : Resume(t, choice)
  \/ StartMove(t) \/ NotStarted(t) \/ Answered(t)

PageNext ==
  \/ ConnectStep \/ Service \/ User
  \/ \E t \in Tasks : MoveWork(t) \/ StartElsewhere(t) \/ TaskWork(t)
  \/ \E k \in Cancels : CancelWork(k) \/ \E t \in Tasks : CancelTask(k, t)

PageSpec == PageInit /\ [][PageNext]_allVars

FairPageSpec ==
  PageSpec /\ WF_allVars(\E t \in Tasks : TaskWork(t)) /\ WF_allVars(\E k \in Cancels : CancelWork(k))
-----------------------------------------------------------------------------
(* Properties.                                                              *)

\* A move deletes its source only when every file of the task was copied to its
\* end, however cancels, late events and the answer of the call fall.
MovedFilesArrive ==
  \A r \in removed : left[r.task] = 0

\* A source is deleted at the end that it was copied from, whatever sessions
\* ended and were connected while the task ran.
DeletedAtItsSource ==
  \A r \in removed : r.at = IF Uploads(r.task) THEN "local" ELSE given[r.task].sess
-----------------------------------------------------------------------------
(* What comments of the code say and the code does not do.                  *)

\* connect awaits a session whose state says "running".
ConnectAwaitsRunning ==
  [][gate = "home" /\ gate' = "closed" => life[opening] # "connecting"]_allVars

\* A session that the page opened and does not show is closed.
NoOrphanSession ==
  gate = "closed" => \A s \in Sessions : life[s] \in {"connecting", "running"} => page = s

\* disconnect and the end of a session empty the remote pane: it shows
\* directories of the session it works on.
PaneShowsItsSession == page # None /\ remotePath # None => listed = page

\* The page leaves a session that has ended.
DeadSessionLeaves == page # None => life[page] = "running"

\* The conflict dialog resumes the transfer it was opened for.
AskedIsAnswered == \A t \in Tasks : step[t] = "asked" => asking = t

\* What is moved is what was cut.
MovesWhatWasCut == \A r \in removed : r.at = asked[r.task].src.end

\* A file that exists is replaced only when the user said so of that file.
UserDecides ==
  [][\A t \in Movers :
       pc[t] = "open" /\ pc'[t] = "poll" /\ given[t].dst \in files =>
         policy[t] = "overwrite" /\ given[t].dst = Place(Target(t, asked[t].sess), asked[t].dir, 0)]_allVars

\* The source is deleted once the move's task reports "done".
MoveCompletes ==
  \A t \in Movers :
    step[t] = "over" /\ pc[t] = "finished" /\ state[t] = "done" => ~(OfThePage(t) /\ t \in moving)

\* The watcher refreshes a pane once its transfer lands.
LandedIsShown ==
  [][\A t \in Movers :
       pc[t] = "tellFinal" /\ pc'[t] = "next" /\ said[t] = "done" /\ OfThePage(t)
         /\ given[t].dst.dir = (IF Uploads(t) THEN remotePath ELSE localPath) => lists' # lists]_allVars
=============================================================================
