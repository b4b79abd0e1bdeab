--------------------------- MODULE WorkspaceStore ---------------------------
(***************************************************************************)
(* The server's side of the stored workspace: the PUT handler              *)
(* (app/api/workspace/route.ts, app/workspace-api.ts) and the queue of     *)
(* writes of server/workspace-store.mjs.                                   *)
(*                                                                         *)
(* A write is one link of the promise chain `writeQueue`: it reads the     *)
(* file and compares revisions, writes a temporary file, and renames it,   *)
(* with an await after each, so other handlers run in between.  The        *)
(* process may be restarted at any point: the chain is lost, the file is   *)
(* not.  Temporary files have names of their own and are never read.       *)
(***************************************************************************)
EXTENDS Naturals, Sequences

CONSTANTS
    Slots,       \* places for PUT requests the server has taken
    Browsers,    \* who sends them
    Workspaces,  \* workspaces a browser can hold
    Storable,    \* those parseWorkspacePutRequest accepts
    NoWorkspace, \* null
    Nobody       \* the sender of a request whose connection is gone

ASSUME StorableAssumption == Storable \subseteq Workspaces
ASSUME NullAssumption == NoWorkspace \notin Workspaces /\ Nobody \notin Browsers

VARIABLES
    file,        \* workspace.json: [revision, workspace]; revision 0 when absent
    writes,      \* per slot, the request and how far it has got
    queue        \* the slots chained on writeQueue, the running one first

storeVars == <<file, writes, queue>>

File == [revision : Nat, workspace : Storable \cup {NoWorkspace}]

Answered == {"saved", "conflict", "failed"}
Running == {"compared", "written"}

Write == [phase : {"free", "received", "queued"} \cup Running \cup Answered,
          owner : Browsers \cup {Nobody},
          workspace : Workspaces \cup {NoWorkspace},
          expected : Nat]

FreeWrite == [phase |-> "free", owner |-> Nobody,
              workspace |-> NoWorkspace, expected |-> 0]

StoreInit ==
    /\ file = [revision |-> 0, workspace |-> NoWorkspace]
    /\ writes = [s \in Slots |-> FreeWrite]
    /\ queue = << >>

Becomes(s, phase) == writes' = [writes EXCEPT ![s].phase = phase]

\* Faulty variant, for the mutation checks: writes are not chained.
TurnUnchained(s) == \E i \in DOMAIN queue : queue[i] = s

\* The previous link of writeQueue has settled.
Turn(s) == queue # << >> /\ Head(queue) = s

-----------------------------------------------------------------------------
(* Handlers *)

\* PUT: the request arrives; its body is still being read.
Receive(s, b, w, e) ==
    /\ writes[s].phase = "free"
    /\ writes' = [writes EXCEPT ![s] = [phase |-> "received", owner |-> b,
                                        workspace |-> w, expected |-> e]]
    /\ UNCHANGED <<file, queue>>

\* Faulty variant, for the mutation checks: nothing is parsed.
EnqueueUnparsed(s) ==
    /\ writes[s].phase = "received"
    /\ Becomes(s, "queued")
    /\ queue' = Append(queue, s)
    /\ UNCHANGED file

\* parseWorkspacePutRequest answers 400, or writeWorkspaceFile chains the write.
Enqueue(s) ==
    /\ writes[s].phase = "received"
    /\ \/ /\ writes[s].workspace \in Storable
          /\ Becomes(s, "queued")
          /\ queue' = Append(queue, s)
       \/ /\ writes[s].workspace \notin Storable
          /\ Becomes(s, "failed")
          /\ UNCHANGED queue
    /\ UNCHANGED file

\* Faulty variant, for the mutation checks: an older revision passes.
CompareLoosely(s) ==
    /\ Turn(s) /\ writes[s].phase = "queued"
    /\ \/ /\ file.revision >= writes[s].expected
          /\ Becomes(s, "compared")
          /\ UNCHANGED queue
       \/ /\ file.revision < writes[s].expected
          /\ Becomes(s, "conflict")
          /\ queue' = Tail(queue)
    /\ UNCHANGED file

\* readWorkspaceFile and the comparison of revisions.
Compare(s) ==
    /\ Turn(s) /\ writes[s].phase = "queued"
    /\ \/ /\ file.revision = writes[s].expected
          /\ Becomes(s, "compared")
          /\ UNCHANGED queue
       \/ /\ file.revision # writes[s].expected
          /\ Becomes(s, "conflict")
          /\ queue' = Tail(queue)
    /\ UNCHANGED file

WriteTemporary(s) ==
    /\ Turn(s) /\ writes[s].phase = "compared"
    /\ Becomes(s, "written")
    /\ UNCHANGED <<file, queue>>

\* The new revision was computed from the one read by the comparison.
Rename(s) ==
    /\ Turn(s) /\ writes[s].phase = "written"
    /\ file' = [revision |-> writes[s].expected + 1,
                workspace |-> writes[s].workspace]
    /\ Becomes(s, "saved")
    /\ queue' = Tail(queue)

\* A read, mkdir, writeFile or rename is rejected: 500, and the chain goes on.
DiskFails(s) ==
    /\ Turn(s) /\ writes[s].phase \in {"queued"} \cup Running
    /\ Becomes(s, "failed")
    /\ queue' = Tail(queue)
    /\ UNCHANGED file

\* The answer is taken by its browser, or dropped with a dead connection.
Close(s) ==
    /\ writes[s].phase \in Answered
    /\ writes' = [writes EXCEPT ![s] = FreeWrite]
    /\ UNCHANGED <<file, queue>>

\* The connections of b are gone; what it sent goes on.
Detach(b) ==
    /\ writes' = [s \in Slots |-> IF writes[s].owner = b
                                  THEN [writes[s] EXCEPT !.owner = Nobody]
                                  ELSE writes[s]]
    /\ UNCHANGED <<file, queue>>

\* The process is stopped and started again.
Restart ==
    /\ writes' = [s \in Slots |->
                     IF writes[s].phase \in {"received", "queued"} \cup Running
                     THEN [writes[s] EXCEPT !.phase = "failed"]
                     ELSE writes[s]]
    /\ queue' = << >>
    /\ UNCHANGED file

Proceed(s) ==
    Enqueue(s) \/ Compare(s) \/ WriteTemporary(s) \/ Rename(s)

StoreNext ==
    \/ \E s \in Slots : Proceed(s) \/ DiskFails(s) \/ Close(s)
    \/ \E s \in Slots, b \in Browsers, w \in Workspaces, e \in Nat :
           Receive(s, b, w, e)
    \/ \E b \in Browsers : Detach(b)
    \/ Restart

StoreSpec == StoreInit /\ [][StoreNext]_storeVars

-----------------------------------------------------------------------------
(* Properties *)

StoreTypeOK ==
    /\ file \in File
    /\ writes \in [Slots -> Write]
    /\ queue \in Seq(Slots)

\* Only the head of the queue is between its comparison and its rename, and
\* what it compared still holds (writeWorkspaceFile, `currentRevision`).
OneWriteRuns ==
    \A s \in Slots : writes[s].phase \in Running =>
        /\ Turn(s)
        /\ writes[s].expected = file.revision

\* How a request looks from outside: nothing between taken and answered.
AsRequest(w) ==
    [state |-> IF w.phase = "free" THEN "none"
               ELSE IF w.phase \in Answered THEN w.phase ELSE "open",
     workspace |-> w.workspace,
     expected |-> w.expected]

Register == INSTANCE RevisionRegister WITH
    request <- [s \in Slots |-> AsRequest(writes[s])]

\* With its queue, its awaits, its failures and its restarts the store is one
\* atomic compare-and-set register ("Writes use atomic replacement and
\* revision checks", README.md:325).
StoreIsRegister == Register!Spec
=============================================================================
