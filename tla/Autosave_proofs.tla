--------------------------- MODULE Autosave_proofs ---------------------------
(***************************************************************************)
(* For any slots, browsers and workspaces: the store is well typed, runs   *)
(* one write at a time, and is an atomic compare-and-set register.  For    *)
(* any number of edits and faults of the tabs besides: they use the store  *)
(* as it expects, so the store stays that register under them, and a tab   *)
(* that knows the current revision knows what the file holds.              *)
(***************************************************************************)
EXTENDS Autosave, TLAPS

-----------------------------------------------------------------------------
(* The store, called by anyone in any way *)

Phases == {"free", "received", "queued"} \cup Running \cup Answered

\* What has been chained was parsed.
ChainedIsStorable ==
    \A s \in Slots : writes[s].phase \in {"queued"} \cup Running
                         => writes[s].workspace \in Storable

\* The inductive invariant.  The file stays storable because every chained
\* write is; the register is atomic because OneWriteRuns lets no rename come
\* between another write's comparison and its own.
StoreInv == StoreTypeOK /\ OneWriteRuns /\ ChainedIsStorable

-----------------------------------------------------------------------------
(* Lemmas *)

LEMMA BecomesTyped ==
  ASSUME StoreTypeOK, NEW s \in Slots, NEW p \in Phases, Becomes(s, p)
  PROVE  /\ writes' \in [Slots -> Write]
         /\ writes'[s].phase = p
         /\ writes'[s].workspace = writes[s].workspace
         /\ writes'[s].expected = writes[s].expected
         /\ \A t \in Slots \ {s} : writes'[t] = writes[t]
  BY DEF StoreTypeOK, Becomes, Write, Phases

\* The head of the queue leaves it.
LEMMA TurnEnds ==
  ASSUME StoreTypeOK, NEW s \in Slots, Turn(s)
  PROVE  Tail(queue) \in Seq(Slots)
  BY DEF StoreTypeOK, Turn

\* Chaining a write behind others does not change whose turn it is.
LEMMA AppendKeepsTurn ==
  ASSUME StoreTypeOK, NEW s \in Slots, NEW t \in Slots, Turn(t),
         queue' = Append(queue, s)
  PROVE  Turn(t)'
  BY DEF StoreTypeOK, Turn

LEMMA StoreInitInv == StoreInit => StoreInv
  BY DEF StoreInit, StoreInv, StoreTypeOK, OneWriteRuns, ChainedIsStorable,
         File, Write, FreeWrite, Running, Answered

-----------------------------------------------------------------------------
(* Each action preserves the invariant *)

LEMMA ReceiveInv ==
  ASSUME StoreInv, NEW s \in Slots, NEW b \in Browsers,
         NEW w \in Workspaces, NEW e \in Nat, Receive(s, b, w, e)
  PROVE  StoreInv'
  BY DEF Receive, StoreInv, StoreTypeOK, OneWriteRuns, ChainedIsStorable,
         Write, Running, Turn

LEMMA EnqueueInv ==
  ASSUME StoreInv, NEW s \in Slots, Enqueue(s)
  PROVE  StoreInv'
<1>. USE DEF StoreInv
<1>1. CASE writes[s].workspace \in Storable
  <2>1. Becomes(s, "queued") /\ queue' = Append(queue, s) /\ file' = file
    BY <1>1 DEF Enqueue
  <2>2. StoreTypeOK'
    BY <2>1, BecomesTyped DEF Phases, StoreTypeOK
  <2>3. OneWriteRuns'
    BY <2>1, BecomesTyped, AppendKeepsTurn DEF Phases, OneWriteRuns, Running
  <2>4. ChainedIsStorable'
    BY <1>1, <2>1, BecomesTyped DEF Phases, ChainedIsStorable, Running
  <2>5. QED
    BY <2>2, <2>3, <2>4
<1>2. CASE writes[s].workspace \notin Storable
  <2>1. Becomes(s, "failed") /\ queue' = queue /\ file' = file
    BY <1>2 DEF Enqueue
  <2>2. StoreTypeOK'
    BY <2>1, BecomesTyped DEF Phases, Answered, StoreTypeOK
  <2>3. OneWriteRuns'
    BY <2>1, BecomesTyped DEF Phases, Answered, OneWriteRuns, Running, Turn
  <2>4. ChainedIsStorable'
    BY <2>1, BecomesTyped DEF Phases, Answered, ChainedIsStorable, Running
  <2>5. QED
    BY <2>2, <2>3, <2>4
<1>3. QED
  BY <1>1, <1>2

\* The head of the queue settles: nobody else was running.
LEMMA SettleInv ==
  ASSUME StoreInv, NEW s \in Slots, NEW p \in Answered,
         Turn(s), Becomes(s, p), queue' = Tail(queue), file' \in File
  PROVE  StoreInv'
<1>. USE DEF StoreInv
<1>1. p \in Phases /\ p \notin {"queued"} \cup Running
  BY DEF Phases, Answered, Running
<1>2. StoreTypeOK'
  BY <1>1, BecomesTyped, TurnEnds DEF StoreTypeOK
<1>3. \A t \in Slots : writes'[t].phase \notin Running
  BY <1>1, BecomesTyped DEF OneWriteRuns, Turn
<1>4. ChainedIsStorable'
  BY <1>1, BecomesTyped DEF ChainedIsStorable
<1>5. QED
  BY <1>2, <1>3, <1>4 DEF OneWriteRuns

\* The head of the queue goes on.
LEMMA AdvanceInv ==
  ASSUME StoreInv, NEW s \in Slots, NEW p \in Running, Turn(s), Becomes(s, p),
         writes[s].phase \in {"queued"} \cup Running,
         writes[s].expected = file.revision, UNCHANGED <<file, queue>>
  PROVE  StoreInv'
<1>. USE DEF StoreInv
<1>1. p \in Phases
  BY DEF Phases
<1>2. StoreTypeOK'
  BY <1>1, BecomesTyped DEF StoreTypeOK
<1>3. OneWriteRuns'
  BY <1>1, BecomesTyped DEF OneWriteRuns, Turn
<1>4. ChainedIsStorable'
  BY <1>1, BecomesTyped DEF ChainedIsStorable
<1>5. QED
  BY <1>2, <1>3, <1>4

LEMMA CompareInv ==
  ASSUME StoreInv, NEW s \in Slots, Compare(s)
  PROVE  StoreInv'
<1>1. CASE file.revision = writes[s].expected
  BY <1>1, AdvanceInv DEF Compare, Running
<1>2. CASE file.revision # writes[s].expected
  BY <1>2, SettleInv DEF Compare, Answered, StoreInv, StoreTypeOK
<1>3. QED
  BY <1>1, <1>2

LEMMA WriteTemporaryInv ==
  ASSUME StoreInv, NEW s \in Slots, WriteTemporary(s)
  PROVE  StoreInv'
<1>1. writes[s].expected = file.revision
  BY DEF WriteTemporary, StoreInv, OneWriteRuns, Running
<1>2. QED
  BY <1>1, AdvanceInv DEF WriteTemporary, Running

LEMMA RenameInv ==
  ASSUME StoreInv, NEW s \in Slots, Rename(s)
  PROVE  StoreInv'
<1>1. writes[s].workspace \in Storable /\ writes[s].expected \in Nat
  BY DEF Rename, StoreInv, ChainedIsStorable, Running, StoreTypeOK, Write
<1>2. file' \in File
  BY <1>1 DEF Rename, File
<1>3. QED
  BY <1>2, SettleInv DEF Rename, Answered

LEMMA DiskFailsInv ==
  ASSUME StoreInv, NEW s \in Slots, DiskFails(s)
  PROVE  StoreInv'
  BY SettleInv DEF DiskFails, Answered, StoreInv, StoreTypeOK

LEMMA CloseInv ==
  ASSUME StoreInv, NEW s \in Slots, Close(s)
  PROVE  StoreInv'
  BY DEF Close, StoreInv, StoreTypeOK, OneWriteRuns, ChainedIsStorable,
         Write, FreeWrite, Running, Turn

LEMMA DetachInv ==
  ASSUME StoreInv, NEW b \in Browsers, Detach(b)
  PROVE  StoreInv'
<1>1. StoreTypeOK'
  BY DEF Detach, StoreInv, StoreTypeOK, Write
<1>2. \A s \in Slots : /\ writes'[s].phase = writes[s].phase
                       /\ writes'[s].workspace = writes[s].workspace
                       /\ writes'[s].expected = writes[s].expected
  BY DEF Detach, StoreInv, StoreTypeOK, Write
<1>3. UNCHANGED <<file, queue>>
  BY DEF Detach
<1>4. QED
  BY <1>1, <1>2, <1>3 DEF StoreInv, OneWriteRuns, ChainedIsStorable, Turn

LEMMA RestartInv ==
  ASSUME StoreInv, Restart
  PROVE  StoreInv'
<1>1. StoreTypeOK'
  <2>1. ASSUME NEW s \in Slots
        PROVE  writes'[s] = [writes[s] EXCEPT !.phase = "failed"]
                   \/ writes'[s] = writes[s]
    BY DEF Restart
  <2>2. \A s \in Slots : writes'[s] \in Write
    BY <2>1 DEF StoreInv, StoreTypeOK, Write, Answered
  <2>3. writes' \in [Slots -> Write]
    BY <2>2 DEF Restart
  <2>4. QED
    BY <2>3 DEF Restart, StoreInv, StoreTypeOK
<1>2. \A s \in Slots : writes'[s].phase \notin {"queued"} \cup Running
  BY DEF Restart, StoreInv, StoreTypeOK, Write, Answered, Running
<1>3. QED
  BY <1>1, <1>2 DEF StoreInv, OneWriteRuns, ChainedIsStorable

LEMMA StoreStepInv == StoreInv /\ [StoreNext]_storeVars => StoreInv'
<1>1. CASE StoreNext
  BY <1>1, ReceiveInv, EnqueueInv, CompareInv, WriteTemporaryInv, RenameInv,
     DiskFailsInv, CloseInv, DetachInv, RestartInv DEF StoreNext, Proceed
<1>2. CASE UNCHANGED storeVars
  BY <1>2 DEF storeVars, StoreInv, StoreTypeOK, OneWriteRuns,
     ChainedIsStorable, Turn
<1>3. QED
  BY <1>1, <1>2


\* The store is well typed, and only the head of its queue is between its
\* comparison and its rename (writeWorkspaceFile, writeQueue).
THEOREM StoreSafe == StoreSpec => [](StoreTypeOK /\ OneWriteRuns)
<1>1. StoreSpec => []StoreInv
  BY StoreInitInv, StoreStepInv, PTL DEF StoreSpec
<1>2. StoreInv => StoreTypeOK /\ OneWriteRuns
  BY DEF StoreInv
<1>3. QED
  BY <1>1, <1>2, PTL

-----------------------------------------------------------------------------
(* Each action is a step of the register, or none *)

\* An open request is one that is taken and not answered.
LEMMA OpenRequest ==
  ASSUME StoreTypeOK, NEW s \in Slots,
         writes[s].phase \in {"received", "queued"} \cup Running
  PROVE  /\ AsRequest(writes[s]).state = "open"
         /\ AsRequest(writes[s]).workspace = writes[s].workspace
         /\ AsRequest(writes[s]).expected = writes[s].expected
  BY DEF AsRequest, Running, Answered

LEMMA AnswerStep ==
  ASSUME StoreTypeOK, NEW s \in Slots, NEW p \in Answered, Becomes(s, p),
         writes[s].phase \in {"received", "queued"} \cup Running
  PROVE  Register!Answer(s, p)
<1>1. p \in Phases /\ p # "free"
  BY DEF Phases, Answered
<1>2. AsRequest(writes'[s]) = [state |-> p, workspace |-> writes[s].workspace,
                               expected |-> writes[s].expected]
  BY <1>1, BecomesTyped DEF AsRequest
<1>3. \A t \in Slots \ {s} : AsRequest(writes'[t]) = AsRequest(writes[t])
  BY <1>1, BecomesTyped
<1>4. AsRequest(writes'[s]) = Register!Answered(AsRequest(writes[s]), p)
  BY <1>2, OpenRequest DEF Register!Answered
<1>5. AsRequest(writes[s]).state = "open"
  BY OpenRequest
<1>6. QED
  BY <1>3, <1>4, <1>5 DEF Register!Answer

\* Nothing of what happens between taken and answered is seen from outside.
LEMMA InnerStep ==
  ASSUME StoreTypeOK, NEW s \in Slots, Becomes(s, "queued") \/
             Becomes(s, "compared") \/ Becomes(s, "written"),
         writes[s].phase \in {"received", "queued"} \cup Running, file' = file
  PROVE  UNCHANGED Register!vars
<1>1. PICK p \in {"queued"} \cup Running : Becomes(s, p)
  BY DEF Running
<1>2. p \in Phases /\ p # "free" /\ p \notin Answered
  BY DEF Phases, Running, Answered
<1>3. AsRequest(writes'[s]) = AsRequest(writes[s])
  BY <1>1, <1>2, BecomesTyped DEF AsRequest, Running, Answered
<1>4. \A t \in Slots : AsRequest(writes'[t]) = AsRequest(writes[t])
  BY <1>1, <1>2, <1>3, BecomesTyped
<1>5. QED
  BY <1>4 DEF Register!vars

LEMMA FailStep ==
  ASSUME StoreTypeOK, NEW s \in Slots, Becomes(s, "failed"), file' = file,
         writes[s].phase \in {"received", "queued"} \cup Running
  PROVE  Register!Next
<1>1. Register!Answer(s, "failed")
  BY AnswerStep DEF Answered
<1>2. Register!Fail({s})
  BY <1>1 DEF Register!Fail, Register!Answer
<1>3. QED
  BY <1>2 DEF Register!Next

LEMMA ReceiveStep ==
  ASSUME StoreTypeOK, NEW s \in Slots, NEW b \in Browsers,
         NEW w \in Workspaces, NEW e \in Nat, Receive(s, b, w, e)
  PROVE  Register!Next
<1>1. AsRequest(writes'[s]) = [state |-> "open", workspace |-> w, expected |-> e]
  BY DEF Receive, StoreTypeOK, AsRequest, Answered
<1>2. \A t \in Slots \ {s} : writes'[t] = writes[t]
  BY DEF Receive, StoreTypeOK
<1>3. AsRequest(writes[s]).state = "none"
  BY DEF Receive, AsRequest
<1>4. [t \in Slots |-> AsRequest(writes'[t])] =
          [[t \in Slots |-> AsRequest(writes[t])]
              EXCEPT ![s] = AsRequest(writes'[s])]
  BY <1>2
<1>5. AsRequest(writes'[s]) \in
          [state : {"open"}, workspace : Workspaces, expected : Nat]
  BY <1>1
<1>6. Register!Open(s)
  BY <1>3, <1>4, <1>5 DEF Register!Open, Receive
<1>7. QED
  BY <1>6 DEF Register!Next

LEMMA EnqueueStep ==
  ASSUME StoreTypeOK, NEW s \in Slots, Enqueue(s)
  PROVE  Register!Next \/ UNCHANGED Register!vars
<1>1. CASE writes[s].workspace \in Storable
  BY <1>1, InnerStep DEF Enqueue
<1>2. CASE writes[s].workspace \notin Storable
  BY <1>2, FailStep DEF Enqueue
<1>3. QED
  BY <1>1, <1>2

LEMMA CompareStep ==
  ASSUME StoreTypeOK, NEW s \in Slots, Compare(s)
  PROVE  Register!Next \/ UNCHANGED Register!vars
<1>1. CASE file.revision = writes[s].expected
  BY <1>1, InnerStep DEF Compare
<1>2. CASE file.revision # writes[s].expected
  <2>1. Register!Answer(s, "conflict")
    BY <1>2, AnswerStep DEF Compare, Answered
  <2>2. AsRequest(writes[s]).expected = writes[s].expected
    BY DEF AsRequest
  <2>3. Register!Refuse(s)
    BY <1>2, <2>1, <2>2 DEF Register!Refuse, Compare
  <2>4. QED
    BY <2>3 DEF Register!Next
<1>3. QED
  BY <1>1, <1>2

\* The rename is the moment the compare-and-set takes effect: the revision it
\* compared still holds.
LEMMA RenameStep ==
  ASSUME StoreInv, NEW s \in Slots, Rename(s)
  PROVE  Register!Next
<1>1. Register!Answer(s, "saved")
  BY AnswerStep DEF StoreInv, Rename, Answered, Running
<1>2. writes[s].expected = file.revision
  BY DEF StoreInv, OneWriteRuns, Rename, Running
<1>3. /\ AsRequest(writes[s]).expected = writes[s].expected
      /\ AsRequest(writes[s]).workspace = writes[s].workspace
  BY DEF AsRequest
<1>4. Register!Save(s)
  BY <1>1, <1>2, <1>3 DEF Register!Save, Rename
<1>5. QED
  BY <1>4 DEF Register!Next

LEMMA CloseStep ==
  ASSUME StoreTypeOK, NEW s \in Slots, Close(s)
  PROVE  Register!Next
<1>1. AsRequest(writes'[s]) = Register!Unused
  BY DEF Close, StoreTypeOK, FreeWrite, AsRequest, Register!Unused, Answered
<1>2. \A t \in Slots \ {s} : writes'[t] = writes[t]
  BY DEF Close, StoreTypeOK
<1>3. AsRequest(writes[s]).state \notin {"none", "open"}
  BY DEF Close, AsRequest, Answered
<1>4. [t \in Slots |-> AsRequest(writes'[t])] =
          [[t \in Slots |-> AsRequest(writes[t])] EXCEPT ![s] = Register!Unused]
  BY <1>1, <1>2
<1>5. Register!Close(s)
  BY <1>3, <1>4 DEF Register!Close, Close
<1>6. QED
  BY <1>5 DEF Register!Next

LEMMA DetachStep ==
  ASSUME StoreTypeOK, NEW b \in Browsers, Detach(b)
  PROVE  UNCHANGED Register!vars
<1>1. ASSUME NEW s \in Slots
      PROVE  AsRequest(writes'[s]) = AsRequest(writes[s])
  <2>1. /\ writes'[s].phase = writes[s].phase
        /\ writes'[s].workspace = writes[s].workspace
        /\ writes'[s].expected = writes[s].expected
    BY DEF Detach, StoreTypeOK, Write
  <2>2. QED
    BY <2>1 DEF AsRequest
<1>2. QED
  BY <1>1 DEF Register!vars, Detach

LEMMA RestartStep ==
  ASSUME StoreTypeOK, Restart
  PROVE  Register!Next
<1>. DEFINE S == {s \in Slots :
                     writes[s].phase \in {"received", "queued"} \cup Running}
<1>1. ASSUME NEW s \in S
      PROVE  /\ AsRequest(writes[s]).state = "open"
             /\ AsRequest(writes'[s]) =
                    Register!Answered(AsRequest(writes[s]), "failed")
  <2>1. /\ writes'[s].phase = "failed"
        /\ writes'[s].workspace = writes[s].workspace
        /\ writes'[s].expected = writes[s].expected
    BY DEF Restart, StoreTypeOK, Write
  <2>2. AsRequest(writes'[s]) = [state |-> "failed",
            workspace |-> writes[s].workspace, expected |-> writes[s].expected]
    BY <2>1 DEF AsRequest, Answered
  <2>3. writes[s].phase \in {"received", "queued"} \cup Running
    OBVIOUS
  <2>4. QED
    BY <2>2, <2>3, OpenRequest DEF Register!Answered
<1>2. ASSUME NEW s \in Slots \ S
      PROVE  writes'[s] = writes[s]
  BY DEF Restart
<1>3. Register!Fail(S)
  BY <1>1, <1>2 DEF Register!Fail, Restart
<1>4. QED
  BY <1>3 DEF Register!Next

LEMMA StoreStepSimulates ==
  ASSUME StoreInv, [StoreNext]_storeVars
  PROVE  [Register!Next]_Register!vars
<1>. USE DEF StoreInv
<1>1. ASSUME NEW s \in Slots, WriteTemporary(s)
      PROVE  UNCHANGED Register!vars
  BY <1>1, InnerStep DEF WriteTemporary, Running
<1>2. ASSUME NEW s \in Slots, DiskFails(s)
      PROVE  Register!Next
  BY <1>2, FailStep DEF DiskFails
<1>3. CASE StoreNext
  BY <1>1, <1>2, <1>3, ReceiveStep, EnqueueStep, CompareStep, RenameStep,
     CloseStep, DetachStep, RestartStep DEF StoreNext, Proceed
<1>4. CASE UNCHANGED storeVars
  BY <1>4 DEF storeVars, Register!vars
<1>5. QED
  BY <1>3, <1>4

LEMMA StoreInitSimulates == StoreInit => Register!Init
<1>1. AsRequest(FreeWrite) = Register!Unused
  BY DEF FreeWrite, AsRequest, Answered, Register!Unused
<1>2. QED
  BY <1>1 DEF StoreInit, Register!Init

\* The store implements the atomic compare-and-set register, whatever its
\* queue, its awaits, its failures and its restarts do.
THEOREM StoreImplementsRegister == StoreSpec => StoreIsRegister
<1>1. StoreSpec => []StoreInv
  BY StoreInitInv, StoreStepInv, PTL DEF StoreSpec
<1>2. StoreInit => Register!Init
  BY StoreInitSimulates
<1>3. StoreInv /\ [StoreNext]_storeVars => [Register!Next]_Register!vars
  BY StoreStepSimulates
<1>4. QED
  BY <1>1, <1>2, <1>3, PTL DEF StoreSpec, StoreIsRegister, Register!Spec

-----------------------------------------------------------------------------
(* The store under the tabs *)

EditorTypeOK ==
    /\ editor \in [Browsers -> Editor]
    /\ legacy \in [Browsers -> MaybeWorkspace]
    /\ spent \in [edits : 0 .. MaxEdits, faults : 0 .. MaxFaults]

\* A save goes out, and is answered, only to a tab that has loaded.
TabsInOrder ==
    \A b \in Browsers :
        editor[b].ready \/ InFlight(editor[b]) => editor[b].load = "done"

\* A tab has one request at the server, the one it waits for.
RequestsBelong ==
    /\ \A s \in Slots, b \in Browsers : writes[s].owner = b =>
           /\ AwaitsPut(b)
           /\ writes[s].workspace = Outgoing(b).workspace
           /\ writes[s].expected = Outgoing(b).expected
    /\ \A s, t \in Slots, b \in Browsers :
           writes[s].owner = b /\ writes[t].owner = b => s = t

\* [revision, workspace] is not newer than the file, and the file itself when
\* it has the file's revision.
Knows(revision, workspace) ==
    /\ revision <= file.revision
    /\ revision = file.revision => workspace = file.workspace

\* So is everything a tab has of the server: what it loaded, what it synced,
\* and the answer on its way.
KnowledgeIsSound ==
    /\ \A b \in Browsers :
           /\ editor[b].load = "done" =>
                  Knows(editor[b].revision, editor[b].synced)
           /\ editor[b].load \in {"read", "saving"} =>
                  Knows(editor[b].payload.revision, editor[b].payload.workspace)
    /\ \A s \in Slots : writes[s].phase = "saved" =>
           Knows(writes[s].expected + 1, writes[s].workspace)

\* The inductive invariant.  KnownRevision alone is not one: the next state of
\* a tab comes from its payload or from an answer, so what these say of the
\* file has to be known as well.
AutosaveInv ==
    /\ StoreInv
    /\ EditorTypeOK
    /\ TabsInOrder
    /\ RequestsBelong
    /\ KnowledgeIsSound

-----------------------------------------------------------------------------
(* What the callbacks leave alone *)

\* Everything of a tab but its timer, its banner, its screen, what is pending
\* and what is sent.
SameKnowledge(f, e) ==
    /\ f.load = e.load
    /\ f.payload = e.payload
    /\ f.synced = e.synced
    /\ f.ready = e.ready
    /\ f.revision = e.revision

LEMMA FlushedKeeps ==
  ASSUME NEW e \in Editor
  PROVE  /\ Flushed(e) \in Editor
         /\ SameKnowledge(Flushed(e), e)
         /\ InFlight(e) => Flushed(e).sent = e.sent
         /\ InFlight(Flushed(e)) => InFlight(e) \/ e.ready
  BY ZenonT(40) DEF Flushed, Editor, SameKnowledge, InFlight, MaybeWorkspace

LEMMA LandedKeeps ==
  ASSUME NEW e \in Editor
  PROVE  /\ Landed(e) \in Editor
         /\ SameKnowledge(Landed(e), e)
         /\ InFlight(Landed(e)) => e.ready
<1>. DEFINE idle == [e EXCEPT !.sent = NoWorkspace]
<1>1. idle \in Editor /\ SameKnowledge(idle, e) /\ ~InFlight(idle)
  BY DEF Editor, SameKnowledge, InFlight, MaybeWorkspace
<1>2. Landed(e) \in {idle, Flushed(idle)}
  BY DEF Landed
<1>3. QED
  BY <1>1, <1>2, FlushedKeeps DEF SameKnowledge

LEMMA SaveConfirmedKeeps ==
  ASSUME NEW e \in Editor, NEW r \in Nat
  PROVE  LET f == SaveConfirmed(e, r)
         IN /\ f \in Editor
            /\ f.load = e.load /\ f.payload = e.payload /\ f.ready = e.ready
            /\ f.revision = r /\ f.synced = e.sent
            /\ InFlight(f) => e.ready
<1>. DEFINE g == [e EXCEPT !.revision = r, !.synced = e.sent, !.storage = "ready"]
<1>1. /\ g \in Editor
      /\ g.load = e.load /\ g.payload = e.payload /\ g.ready = e.ready
      /\ g.revision = r /\ g.synced = e.sent
  BY DEF Editor
<1>2. SaveConfirmed(e, r) = Landed(g)
  BY DEF SaveConfirmed
<1>3. QED
  BY <1>1, <1>2, LandedKeeps DEF SameKnowledge

LEMMA SaveFailedKeeps ==
  ASSUME NEW e \in Editor
  PROVE  /\ SaveFailed(e) \in Editor
         /\ SameKnowledge(SaveFailed(e), e)
         /\ InFlight(SaveFailed(e)) => e.ready
<1>. DEFINE g == [e EXCEPT !.storage = "unavailable"]
<1>1. g \in Editor /\ SameKnowledge(g, e)
  BY DEF Editor, SameKnowledge
<1>2. SaveFailed(e) = Landed(g)
  BY DEF SaveFailed
<1>3. QED
  BY <1>1, <1>2, LandedKeeps DEF SameKnowledge

LEMMA EditedKeeps ==
  ASSUME NEW e \in Editor, NEW w \in Workspaces
  PROVE  /\ Edited(e, w) \in Editor
         /\ SameKnowledge(Edited(e, w), e)
         /\ Edited(e, w).sent = e.sent
  BY DEF Edited, Editor, SameKnowledge, MaybeWorkspace

LEMMA AuthoritativeTyped ==
  ASSUME EditorTypeOK, NEW b \in Browsers
  PROVE  Authoritative(b) \in Workspaces
  BY WorkspaceAssumption
     DEF EditorTypeOK, Editor, Authoritative, MaybeWorkspace

LEMMA OutgoingTyped ==
  ASSUME EditorTypeOK, NEW b \in Browsers, AwaitsPut(b)
  PROVE  Outgoing(b).workspace \in Workspaces /\ Outgoing(b).expected \in Nat
<1>1. CASE editor[b].load = "saving"
  BY <1>1, AuthoritativeTyped DEF Outgoing, EditorTypeOK, Editor
<1>2. CASE editor[b].load # "saving"
  BY <1>2 DEF AwaitsPut, InFlight, Outgoing, EditorTypeOK, Editor, MaybeWorkspace
<1>3. QED
  BY <1>1, <1>2

-----------------------------------------------------------------------------
(* The tabs use the store as it expects *)

LEMMA UsesStore ==
  ASSUME EditorTypeOK, [AutosaveNext]_autosaveVars
  PROVE  [StoreNext]_storeVars
<1>1. ASSUME NEW b \in Browsers, NEW s \in Slots, PutArrives(b, s)
      PROVE  StoreNext
  BY <1>1, OutgoingTyped DEF PutArrives, StoreNext
<1>2. ASSUME NEW b \in Browsers, TabSteps(b)
      PROVE  [StoreNext]_storeVars
  BY <1>1, <1>2 DEF TabSteps, LoadRead, LoadAnswered, TimerFires, LoadSaved,
     SaveAnswered, StoreNext, storeVars
<1>3. ASSUME NEW b \in Browsers, LoadLost(b) \/ PutLost(b) \/ Reload(b)
                 \/ ProbeAnswered(b) \/ ProbeFails(b)
      PROVE  [StoreNext]_storeVars
  BY <1>3 DEF LoadLost, PutLost, Reload, ProbeAnswered, ProbeFails, StoreNext,
     storeVars
<1>4. ASSUME NEW b \in Browsers, NEW w \in Workspaces, Edit(b, w)
      PROVE  [StoreNext]_storeVars
  BY <1>4 DEF Edit, storeVars
<1>5. ASSUME NEW s \in Slots, ServerSteps(s) \/ ServerDiskFails(s)
      PROVE  [StoreNext]_storeVars
  BY <1>5 DEF ServerSteps, ServerProceeds, AnswerDropped, ServerDiskFails,
     StoreNext
<1>6. CASE ServerRestarts
  BY <1>6 DEF ServerRestarts, StoreNext
<1>7. CASE UNCHANGED autosaveVars
  BY <1>7 DEF autosaveVars, storeVars
<1>8. QED
  BY <1>2, <1>3, <1>4, <1>5, <1>6, <1>7 DEF AutosaveNext

-----------------------------------------------------------------------------
(* Types *)

LEMMA CountsTyped ==
  ASSUME EditorTypeOK, NEW what \in {"edits", "faults"}, NEW max \in Nat,
         max = IF what = "edits" THEN MaxEdits ELSE MaxFaults,
         Counts(what, max)
  PROVE  spent' \in [edits : 0 .. MaxEdits, faults : 0 .. MaxFaults]
  BY BoundAssumption DEF EditorTypeOK, Counts

LEMMA FaultTyped ==
  ASSUME EditorTypeOK, Fault
  PROVE  spent' \in [edits : 0 .. MaxEdits, faults : 0 .. MaxFaults]
  BY CountsTyped, BoundAssumption DEF Fault

\* A tab becomes another tab, and its legacy copy stays or goes.
LEMMA TabTyped ==
  ASSUME EditorTypeOK, NEW b \in Browsers, NEW e \in Editor, Becoming(b, e),
         legacy' = legacy \/ legacy' = [legacy EXCEPT ![b] = NoWorkspace],
         spent' \in [edits : 0 .. MaxEdits, faults : 0 .. MaxFaults]
  PROVE  EditorTypeOK'
  BY DEF EditorTypeOK, Becoming, MaybeWorkspace

-----------------------------------------------------------------------------
(* Steps of a tab *)

\* Slots may be freed or lose their owner; the rest of the store stays.
OnlyReleases ==
    /\ UNCHANGED file
    /\ \A s \in Slots :
           /\ writes'[s].owner \in Browsers =>
                  /\ writes'[s].owner = writes[s].owner
                  /\ writes'[s].workspace = writes[s].workspace
                  /\ writes'[s].expected = writes[s].expected
           /\ writes'[s].phase = "saved" =>
                  /\ writes[s].phase = "saved"
                  /\ writes'[s].workspace = writes[s].workspace
                  /\ writes'[s].expected = writes[s].expected

\* What a tab must still satisfy when it becomes e.
GoodTab(e) ==
    /\ e \in Editor
    /\ e.ready \/ InFlight(e) => e.load = "done"
    /\ e.load = "done" => Knows(e.revision, e.synced)
    /\ e.load \in {"read", "saving"} =>
           Knows(e.payload.revision, e.payload.workspace)

LEMMA TabStepInv ==
  ASSUME AutosaveInv, NEW b \in Browsers, NEW e, GoodTab(e), Becoming(b, e),
         OnlyReleases,
         legacy' = legacy \/ legacy' = [legacy EXCEPT ![b] = NoWorkspace],
         \A s \in Slots : writes'[s].owner = b =>
             /\ AwaitsPut(b)'
             /\ writes'[s].workspace = Outgoing(b).workspace'
             /\ writes'[s].expected = Outgoing(b).expected'
  PROVE  TabsInOrder' /\ RequestsBelong' /\ KnowledgeIsSound'
<1>. USE DEF AutosaveInv, EditorTypeOK
<1>1. editor'[b] = e /\ \A c \in Browsers \ {b} : editor'[c] = editor[c]
  BY DEF Becoming
<1>2. \A c \in Browsers \ {b} : legacy'[c] = legacy[c]
  OBVIOUS
<1>3. TabsInOrder'
  BY <1>1 DEF TabsInOrder, GoodTab
<1>4. RequestsBelong'
  <2>1. ASSUME NEW s \in Slots, NEW c \in Browsers, writes'[s].owner = c
        PROVE  /\ AwaitsPut(c)'
               /\ writes'[s].workspace = Outgoing(c).workspace'
               /\ writes'[s].expected = Outgoing(c).expected'
    <3>1. CASE c = b
      BY <2>1, <3>1
    <3>2. CASE c # b
      <4>1. AwaitsPut(c) /\ writes[s].workspace = Outgoing(c).workspace
                /\ writes[s].expected = Outgoing(c).expected
        BY <2>1 DEF OnlyReleases, RequestsBelong
      <4>2. editor'[c] = editor[c] /\ legacy'[c] = legacy[c]
        BY <1>1, <1>2, <3>2
      <4>3. /\ writes'[s].workspace = writes[s].workspace
            /\ writes'[s].expected = writes[s].expected
        BY <2>1 DEF OnlyReleases
      <4>4. QED
        BY <4>1, <4>2, <4>3 DEF AwaitsPut, Outgoing, Authoritative
    <3>3. QED
      BY <3>1, <3>2
  <2>2. ASSUME NEW s \in Slots, NEW t \in Slots, NEW c \in Browsers,
               writes'[s].owner = c, writes'[t].owner = c
        PROVE  s = t
    BY <2>2 DEF OnlyReleases, RequestsBelong
  <2>3. QED
    BY <2>1, <2>2 DEF RequestsBelong
<1>5. KnowledgeIsSound'
  <2>1. \A r, w : Knows(r, w)' <=> Knows(r, w)
    BY DEF Knows, OnlyReleases
  <2>2. ASSUME NEW c \in Browsers
        PROVE  /\ editor'[c].load = "done" => Knows(editor'[c].revision, editor'[c].synced)
               /\ editor'[c].load \in {"read", "saving"} =>
                    Knows(editor'[c].payload.revision, editor'[c].payload.workspace)
    BY <1>1 DEF GoodTab, KnowledgeIsSound
  <2>3. ASSUME NEW s \in Slots, writes'[s].phase = "saved"
        PROVE  Knows(writes'[s].expected + 1, writes'[s].workspace)
    BY <2>3 DEF OnlyReleases, KnowledgeIsSound
  <2>4. QED
    BY <2>2, <2>3 DEF KnowledgeIsSound, Knows, OnlyReleases
<1>6. QED
  BY <1>3, <1>4, <1>5

LEMMA CloseReleases ==
  ASSUME AutosaveInv, NEW s \in Slots, Close(s)
  PROVE  OnlyReleases /\ writes'[s].owner = Nobody
  BY NullAssumption
     DEF AutosaveInv, StoreInv, StoreTypeOK, Close, FreeWrite, OnlyReleases

LEMMA DetachReleases ==
  ASSUME AutosaveInv, NEW b \in Browsers, Detach(b)
  PROVE  OnlyReleases /\ \A s \in Slots : writes'[s].owner # b
<1>1. ASSUME NEW s \in Slots
      PROVE  /\ writes[s].owner = b => writes'[s].owner = Nobody
             /\ writes[s].owner # b => writes'[s].owner = writes[s].owner
             /\ writes'[s].phase = writes[s].phase
             /\ writes'[s].workspace = writes[s].workspace
             /\ writes'[s].expected = writes[s].expected
  BY DEF AutosaveInv, StoreInv, StoreTypeOK, Write, Detach
<1>2. QED
  BY <1>1, NullAssumption DEF OnlyReleases, Detach

\* A tab whose store is not touched, and that waits for what it waited for.
LEMMA QuietTabInv ==
  ASSUME AutosaveInv, NEW b \in Browsers, NEW e, GoodTab(e), Becoming(b, e),
         UNCHANGED <<file, writes, legacy>>,
         AwaitsPut(b) => /\ e.load = editor[b].load
                         /\ e.payload = editor[b].payload
                         /\ e.sent = editor[b].sent
                         /\ e.revision = editor[b].revision
  PROVE  TabsInOrder' /\ RequestsBelong' /\ KnowledgeIsSound'
<1>1. OnlyReleases
  BY DEF OnlyReleases
<1>2. editor'[b] = e
  BY DEF AutosaveInv, EditorTypeOK, Becoming
<1>3. ASSUME NEW s \in Slots, writes'[s].owner = b
      PROVE  /\ AwaitsPut(b)'
             /\ writes'[s].workspace = Outgoing(b).workspace'
             /\ writes'[s].expected = Outgoing(b).expected'
  <2>1. AwaitsPut(b) /\ writes[s].workspace = Outgoing(b).workspace
            /\ writes[s].expected = Outgoing(b).expected
    BY <1>3 DEF AutosaveInv, RequestsBelong
  <2>2. QED
    BY <1>2, <2>1 DEF AwaitsPut, InFlight, Outgoing, Authoritative
<1>4. QED
  BY <1>1, <1>3, TabStepInv

\* The part of the invariant that the store's own steps do not settle.
TabsInv == EditorTypeOK /\ TabsInOrder /\ RequestsBelong /\ KnowledgeIsSound

\* What the invariant says of one tab.
LEMMA TabFacts ==
  ASSUME AutosaveInv, NEW b \in Browsers
  PROVE  GoodTab(editor[b]) /\ spent \in [edits : 0 .. MaxEdits, faults : 0 .. MaxFaults]
  BY DEF AutosaveInv, EditorTypeOK, TabsInOrder, KnowledgeIsSound, GoodTab

\* A tab that keeps what it knows and sends is as good as before.
LEMMA SameKnowledgeGood ==
  ASSUME NEW e, NEW f \in Editor, GoodTab(e), SameKnowledge(f, e),
         InFlight(f) => InFlight(e) \/ e.ready
  PROVE  GoodTab(f)
  BY DEF GoodTab, SameKnowledge

LEMMA LoadReadInv ==
  ASSUME AutosaveInv, NEW b \in Browsers, LoadRead(b)
  PROVE  TabsInv'
<1>. DEFINE e == [editor[b] EXCEPT !.load = "read", !.payload = file]
<1>1. GoodTab(editor[b]) /\ ~InFlight(editor[b]) /\ ~editor[b].ready
  BY TabFacts DEF LoadRead, GoodTab
<1>2. e \in Editor
  BY <1>1, StorableAssumption
     DEF GoodTab, Editor, AutosaveInv, StoreInv, StoreTypeOK, File, MaybeWorkspace
<1>3. GoodTab(e)
  BY <1>1, <1>2 DEF GoodTab, Editor, Knows, InFlight, AutosaveInv, StoreInv,
     StoreTypeOK, File
<1>4. ~AwaitsPut(b)
  BY <1>1 DEF AwaitsPut, LoadRead
<1>5. QED
  BY <1>2, <1>3, <1>4, QuietTabInv, TabTyped, TabFacts
     DEF LoadRead, TabsInv, AutosaveInv

LEMMA LoadedGood ==
  ASSUME NEW e \in Editor, NEW w \in Workspaces, NEW r \in Nat, Knows(r, w)
  PROVE  GoodTab(LoadedAs(e, w, r))
  BY DEF LoadedAs, GoodTab, Editor, NoPayload, MaybeWorkspace

LEMMA LoadGivenUpGood ==
  ASSUME NEW e \in Editor, ~e.ready, ~InFlight(e)
  PROVE  /\ GoodTab(LoadGivenUp(e))
         /\ ~InFlight(LoadGivenUp(e))
         /\ LoadGivenUp(e).load = "failed"
  BY DEF LoadGivenUp, GoodTab, Editor, NoPayload, MaybeWorkspace, InFlight

LEMMA LoadAnsweredInv ==
  ASSUME AutosaveInv, NEW b \in Browsers, LoadAnswered(b)
  PROVE  TabsInv'
<1>. DEFINE w == Authoritative(b)
            r == editor[b].payload.revision
<1>1. /\ GoodTab(editor[b]) /\ ~InFlight(editor[b]) /\ ~editor[b].ready
      /\ editor[b].load = "read"
  BY TabFacts DEF LoadAnswered, GoodTab
<1>2. w \in Workspaces /\ r \in Nat
  BY <1>1, AuthoritativeTyped DEF AutosaveInv, GoodTab, Editor
<1>3. \A s \in Slots : writes[s].owner # b
  BY <1>1 DEF AutosaveInv, RequestsBelong, AwaitsPut
<1>4. OnlyReleases /\ UNCHANGED writes
  BY DEF LoadAnswered, OnlyReleases
<1>5. CASE w = editor[b].payload.workspace
  <2>. DEFINE e == LoadedAs(editor[b], w, r)
  <2>1. GoodTab(e) /\ Becoming(b, e)
    BY <1>1, <1>2, <1>5, LoadedGood DEF GoodTab, LoadAnswered
  <2>2. QED
    BY <1>3, <1>4, <1>5, <2>1, TabStepInv, TabTyped, TabFacts
       DEF LoadAnswered, TabsInv, AutosaveInv, GoodTab
<1>6. CASE w # editor[b].payload.workspace
  <2>. DEFINE e == [editor[b] EXCEPT !.load = "saving"]
  <2>1. e \in Editor
    BY <1>1 DEF GoodTab, Editor
  <2>2. /\ e.load = "saving" /\ e.payload = editor[b].payload
        /\ ~e.ready /\ ~InFlight(e)
    BY <1>1 DEF GoodTab, Editor, InFlight
  <2>3. GoodTab(e) /\ Becoming(b, e)
    BY <1>1, <1>6, <2>1, <2>2 DEF GoodTab, LoadAnswered
  <2>4. legacy' = legacy /\ spent' = spent
    BY <1>6 DEF LoadAnswered
  <2>5. \A s \in Slots : writes'[s].owner # b
    BY <1>3, <1>4
  <2>6. EditorTypeOK'
    BY <2>1, <2>3, <2>4, TabTyped, TabFacts DEF AutosaveInv
  <2>7. TabsInOrder' /\ RequestsBelong' /\ KnowledgeIsSound'
    BY <1>4, <2>3, <2>4, <2>5, TabStepInv
  <2>8. QED
    BY <2>6, <2>7 DEF TabsInv
<1>7. QED
  BY <1>5, <1>6

LEMMA LoadLostInv ==
  ASSUME AutosaveInv, NEW b \in Browsers, LoadLost(b)
  PROVE  TabsInv'
<1>1. GoodTab(editor[b]) /\ ~InFlight(editor[b]) /\ ~editor[b].ready
  BY TabFacts DEF LoadLost, GoodTab
<1>2. GoodTab(LoadGivenUp(editor[b]))
  BY <1>1, LoadGivenUpGood DEF GoodTab
<1>3. ~AwaitsPut(b)
  BY <1>1 DEF AwaitsPut, LoadLost
<1>4. QED
  BY <1>2, <1>3, QuietTabInv, TabTyped, FaultTyped
     DEF LoadLost, TabsInv, AutosaveInv, GoodTab

LEMMA LoadSavedInv ==
  ASSUME AutosaveInv, NEW b \in Browsers, NEW s \in Slots, LoadSaved(b, s)
  PROVE  TabsInv'
<1>. DEFINE w == Authoritative(b)
            r == writes[s].expected + 1
<1>1. /\ GoodTab(editor[b]) /\ ~InFlight(editor[b]) /\ ~editor[b].ready
      /\ editor[b].load = "saving"
  BY TabFacts DEF LoadSaved, GoodTab
<1>2. w \in Workspaces /\ r \in Nat
  BY AuthoritativeTyped DEF AutosaveInv, StoreInv, StoreTypeOK, Write
<1>3. OnlyReleases /\ \A t \in Slots : writes'[t].owner # b
  <2>1. OnlyReleases /\ writes'[s].owner = Nobody
    BY CloseReleases DEF LoadSaved
  <2>2. \A t \in Slots : writes[t].owner = b => t = s
    BY DEF LoadSaved, AutosaveInv, RequestsBelong
  <2>3. QED
    BY <2>1, <2>2, NullAssumption DEF OnlyReleases
<1>4. CASE writes[s].phase = "saved"
  <2>. DEFINE e == LoadedAs(editor[b], w, r)
  <2>1. writes[s].workspace = w
    BY <1>1 DEF LoadSaved, AutosaveInv, RequestsBelong, Outgoing
  <2>2. Knows(r, w)
    BY <1>4, <2>1 DEF AutosaveInv, KnowledgeIsSound
  <2>3. GoodTab(e) /\ Becoming(b, e)
    BY <1>1, <1>2, <1>4, <2>2, LoadedGood DEF GoodTab, LoadSaved
  <2>4. QED
    BY <1>3, <1>4, <2>3, TabStepInv, TabTyped, TabFacts
       DEF LoadSaved, TabsInv, AutosaveInv, GoodTab
<1>5. CASE writes[s].phase # "saved"
  <2>1. GoodTab(LoadGivenUp(editor[b]))
    BY <1>1, LoadGivenUpGood DEF GoodTab
  <2>2. QED
    BY <1>3, <1>5, <2>1, TabStepInv, TabTyped, TabFacts
       DEF LoadSaved, TabsInv, AutosaveInv, GoodTab
<1>6. QED
  BY <1>4, <1>5

LEMMA EditInv ==
  ASSUME AutosaveInv, NEW b \in Browsers, NEW w \in Workspaces, Edit(b, w)
  PROVE  TabsInv'
<1>1. GoodTab(editor[b])
  BY TabFacts
<1>2. /\ GoodTab(Edited(editor[b], w))
      /\ SameKnowledge(Edited(editor[b], w), editor[b])
      /\ Edited(editor[b], w).sent = editor[b].sent
  BY <1>1, EditedKeeps, SameKnowledgeGood DEF GoodTab, InFlight
<1>3. spent' \in [edits : 0 .. MaxEdits, faults : 0 .. MaxFaults]
  BY CountsTyped, BoundAssumption DEF Edit, AutosaveInv
<1>4. QED
  BY <1>2, <1>3, QuietTabInv, TabTyped
     DEF Edit, TabsInv, AutosaveInv, GoodTab, SameKnowledge

LEMMA TimerFiresInv ==
  ASSUME AutosaveInv, NEW b \in Browsers, TimerFires(b)
  PROVE  TabsInv'
<1>. DEFINE e == [editor[b] EXCEPT !.timer = FALSE]
<1>1. GoodTab(editor[b])
  BY TabFacts
<1>2. e \in Editor /\ SameKnowledge(e, editor[b]) /\ e.sent = editor[b].sent
  BY <1>1 DEF GoodTab, Editor, SameKnowledge
<1>3. GoodTab(e)
  BY <1>1, <1>2, SameKnowledgeGood DEF InFlight
<1>4. /\ GoodTab(Flushed(e))
      /\ SameKnowledge(Flushed(e), editor[b])
      /\ InFlight(editor[b]) => Flushed(e).sent = editor[b].sent
  BY <1>2, <1>3, FlushedKeeps, SameKnowledgeGood DEF SameKnowledge, InFlight
<1>5. Becoming(b, Flushed(e))
  BY DEF TimerFires
<1>6. CASE AwaitsPut(b)
  <2>1. Flushed(e).sent = editor[b].sent
    <3>1. CASE InFlight(editor[b])
      BY <1>4, <3>1
    <3>2. CASE ~InFlight(editor[b])
      <4>1. editor[b].load = "saving" /\ ~editor[b].ready
        BY <1>1, <1>6, <3>2 DEF AwaitsPut, GoodTab
      <4>2. ~InFlight(e) /\ ~e.ready
        BY <1>2, <3>2, <4>1 DEF InFlight, SameKnowledge
      <4>3. QED
        BY <1>2, <3>2, <4>2, FlushedKeeps DEF InFlight
    <3>3. QED
      BY <3>1, <3>2
  <2>2. QED
    BY <1>4, <1>5, <2>1, QuietTabInv, TabTyped, TabFacts
       DEF TimerFires, TabsInv, AutosaveInv, GoodTab, SameKnowledge
<1>7. CASE ~AwaitsPut(b)
  BY <1>4, <1>5, <1>7, QuietTabInv, TabTyped, TabFacts
     DEF TimerFires, TabsInv, AutosaveInv, GoodTab
<1>8. QED
  BY <1>6, <1>7

LEMMA SaveAnsweredInv ==
  ASSUME AutosaveInv, NEW b \in Browsers, NEW s \in Slots, SaveAnswered(b, s)
  PROVE  TabsInv'
<1>. DEFINE r == writes[s].expected + 1
<1>1. GoodTab(editor[b]) /\ InFlight(editor[b]) /\ editor[b].load = "done"
  BY TabFacts DEF SaveAnswered, GoodTab
<1>2. r \in Nat
  BY DEF AutosaveInv, StoreInv, StoreTypeOK, Write
<1>3. OnlyReleases /\ \A t \in Slots : writes'[t].owner # b
  <2>1. OnlyReleases /\ writes'[s].owner = Nobody
    BY CloseReleases DEF SaveAnswered
  <2>2. \A t \in Slots : writes[t].owner = b => t = s
    BY DEF SaveAnswered, AutosaveInv, RequestsBelong
  <2>3. QED
    BY <2>1, <2>2, NullAssumption DEF OnlyReleases
<1>4. CASE writes[s].phase = "saved"
  <2>. DEFINE e == SaveConfirmed(editor[b], r)
  <2>1. writes[s].workspace = editor[b].sent
    BY <1>1 DEF SaveAnswered, AutosaveInv, RequestsBelong, Outgoing
  <2>2. Knows(r, editor[b].sent)
    BY <1>4, <2>1 DEF AutosaveInv, KnowledgeIsSound
  <2>3. /\ e \in Editor
        /\ e.load = "done" /\ e.revision = r /\ e.synced = editor[b].sent
    BY <1>1, <1>2, SaveConfirmedKeeps DEF GoodTab
  <2>4. GoodTab(e)
    BY <2>2, <2>3 DEF GoodTab
  <2>5. Becoming(b, e)
    BY <1>4 DEF SaveAnswered
  <2>6. QED
    BY <1>3, <2>3, <2>4, <2>5, TabStepInv, TabTyped, TabFacts
       DEF SaveAnswered, TabsInv, AutosaveInv
<1>5. CASE writes[s].phase # "saved"
  <2>. DEFINE e == SaveFailed(editor[b])
  <2>1. GoodTab(e)
    BY <1>1, SaveFailedKeeps, SameKnowledgeGood DEF GoodTab
  <2>2. Becoming(b, e)
    BY <1>5 DEF SaveAnswered
  <2>3. QED
    BY <1>3, <2>1, <2>2, TabStepInv, TabTyped, TabFacts
       DEF SaveAnswered, TabsInv, AutosaveInv, GoodTab
<1>6. QED
  BY <1>4, <1>5

LEMMA PutLostInv ==
  ASSUME AutosaveInv, NEW b \in Browsers, PutLost(b)
  PROVE  TabsInv'
<1>1. GoodTab(editor[b])
  BY TabFacts
<1>2. OnlyReleases /\ \A t \in Slots : writes'[t].owner # b
  BY DetachReleases DEF PutLost
<1>3. PICK e : GoodTab(e) /\ Becoming(b, e)
  <2>1. CASE InFlight(editor[b])
    BY <1>1, <2>1, SaveFailedKeeps, SameKnowledgeGood DEF GoodTab, PutLost
  <2>2. CASE ~InFlight(editor[b])
    BY <1>1, <2>2, LoadGivenUpGood DEF GoodTab, PutLost, AwaitsPut
  <2>3. QED
    BY <2>1, <2>2
<1>4. QED
  BY <1>2, <1>3, TabStepInv, TabTyped, FaultTyped
     DEF PutLost, TabsInv, AutosaveInv, GoodTab

LEMMA ProbeInv ==
  ASSUME AutosaveInv, NEW b \in Browsers, ProbeAnswered(b) \/ ProbeFails(b)
  PROVE  TabsInv'
<1>1. GoodTab(editor[b])
  BY TabFacts
<1>2. PICK e : /\ GoodTab(e) /\ Becoming(b, e)
               /\ e.load = editor[b].load /\ e.payload = editor[b].payload
               /\ e.sent = editor[b].sent /\ e.revision = editor[b].revision
  <2>1. CASE ProbeAnswered(b)
    <3>. DEFINE e == [editor[b] EXCEPT !.storage = "ready"]
    <3>1. e \in Editor /\ SameKnowledge(e, editor[b]) /\ e.sent = editor[b].sent
      BY <1>1 DEF GoodTab, Editor, SameKnowledge
    <3>2. QED
      BY <1>1, <2>1, <3>1, SameKnowledgeGood
         DEF ProbeAnswered, InFlight, SameKnowledge
  <2>2. CASE ProbeFails(b)
    <3>. DEFINE e == [editor[b] EXCEPT !.storage = "unavailable", !.ready = FALSE]
    <3>1. e \in Editor /\ e.load = editor[b].load /\ e.load = "done"
              /\ e.payload = editor[b].payload /\ e.sent = editor[b].sent
              /\ e.revision = editor[b].revision /\ e.synced = editor[b].synced
      BY <1>1, <2>2 DEF GoodTab, Editor, ProbeFails
    <3>2. GoodTab(e)
      BY <1>1, <3>1 DEF GoodTab
    <3>3. QED
      BY <2>2, <3>1, <3>2 DEF ProbeFails
  <2>3. QED
    BY <2>1, <2>2
<1>3. spent' \in [edits : 0 .. MaxEdits, faults : 0 .. MaxFaults]
  BY TabFacts, FaultTyped DEF ProbeAnswered, ProbeFails, AutosaveInv
<1>4. UNCHANGED <<file, writes, legacy>>
  BY DEF ProbeAnswered, ProbeFails
<1>5. QED
  BY <1>2, <1>3, <1>4, QuietTabInv, TabTyped DEF TabsInv, AutosaveInv, GoodTab

LEMMA OpenedGood == GoodTab(Opened)
  BY WorkspaceAssumption
     DEF Opened, GoodTab, Editor, NoPayload, MaybeWorkspace, InFlight

LEMMA ReloadInv ==
  ASSUME AutosaveInv, NEW b \in Browsers, Reload(b)
  PROVE  TabsInv'
<1>1. OnlyReleases /\ \A t \in Slots : writes'[t].owner # b
  BY DetachReleases DEF Reload
<1>2. QED
  BY <1>1, OpenedGood, TabStepInv, TabTyped, FaultTyped
     DEF Reload, TabsInv, AutosaveInv, GoodTab

\* A new request, of the tab that had none.
LEMMA PutArrivesInv ==
  ASSUME AutosaveInv, NEW b \in Browsers, NEW s \in Slots, PutArrives(b, s)
  PROVE  TabsInv'
<1>1. /\ writes'[s].owner = b
      /\ writes'[s].workspace = Outgoing(b).workspace
      /\ writes'[s].expected = Outgoing(b).expected
      /\ writes'[s].phase = "received"
      /\ \A t \in Slots \ {s} : writes'[t] = writes[t]
  BY DEF PutArrives, Receive, AutosaveInv, StoreInv, StoreTypeOK
<1>2. UNCHANGED <<file, editor, legacy, spent>>
  BY DEF PutArrives, Receive
<1>3. EditorTypeOK' /\ TabsInOrder'
  BY <1>2 DEF AutosaveInv, EditorTypeOK, TabsInOrder
<1>4. RequestsBelong'
  BY <1>1, <1>2 DEF PutArrives, AutosaveInv, RequestsBelong, AwaitsPut,
     Outgoing, Authoritative
<1>5. KnowledgeIsSound'
  BY <1>1, <1>2 DEF AutosaveInv, KnowledgeIsSound, Knows
<1>6. QED
  BY <1>3, <1>4, <1>5 DEF TabsInv

-----------------------------------------------------------------------------
(* Steps of the server *)

LEMMA ServerStepInv ==
  ASSUME AutosaveInv, UNCHANGED <<editor, legacy>>,
         spent' \in [edits : 0 .. MaxEdits, faults : 0 .. MaxFaults],
         \A s \in Slots : writes'[s].owner \in Browsers =>
             /\ writes'[s].owner = writes[s].owner
             /\ writes'[s].workspace = writes[s].workspace
             /\ writes'[s].expected = writes[s].expected,
         \A w : \A r \in Nat : Knows(r, w) => Knows(r, w)',
         \A s \in Slots : writes'[s].phase = "saved" =>
             Knows(writes[s].expected + 1, writes[s].workspace)'
  PROVE  TabsInv'
<1>1. EditorTypeOK' /\ TabsInOrder'
  BY DEF AutosaveInv, EditorTypeOK, TabsInOrder
<1>2. RequestsBelong'
  BY DEF AutosaveInv, RequestsBelong, AwaitsPut, Outgoing, Authoritative
<1>3. KnowledgeIsSound'
  <2>1. ASSUME NEW b \in Browsers
        PROVE  editor[b].revision \in Nat /\ editor[b].payload.revision \in Nat
    BY DEF AutosaveInv, EditorTypeOK, Editor
  <2>2. ASSUME NEW b \in Browsers
        PROVE  /\ editor[b].load = "done" =>
                    Knows(editor[b].revision, editor[b].synced)'
               /\ editor[b].load \in {"read", "saving"} =>
                    Knows(editor[b].payload.revision, editor[b].payload.workspace)'
    BY <2>1 DEF AutosaveInv, KnowledgeIsSound
  <2>3. QED
    BY <2>2 DEF KnowledgeIsSound
<1>4. QED
  BY <1>1, <1>2, <1>3 DEF TabsInv

\* The file stays, no answer becomes `saved`.
LEMMA FileStaysInv ==
  ASSUME AutosaveInv, UNCHANGED <<editor, legacy>>, OnlyReleases,
         spent' \in [edits : 0 .. MaxEdits, faults : 0 .. MaxFaults]
  PROVE  TabsInv'
<1>1. \A r, w : Knows(r, w) => Knows(r, w)'
  BY DEF Knows, OnlyReleases
<1>2. \A s \in Slots : writes'[s].phase = "saved" =>
          Knows(writes[s].expected + 1, writes[s].workspace)'
  BY DEF OnlyReleases, AutosaveInv, KnowledgeIsSound, Knows
<1>3. QED
  BY <1>1, <1>2, ServerStepInv DEF OnlyReleases

LEMMA BecomesReleases ==
  ASSUME AutosaveInv, NEW s \in Slots, NEW p \in Phases, p # "saved",
         Becomes(s, p), file' = file
  PROVE  OnlyReleases
<1>1. \A t \in Slots : writes'[t].owner = writes[t].owner
                       /\ writes'[t].workspace = writes[t].workspace
                       /\ writes'[t].expected = writes[t].expected
  BY DEF AutosaveInv, StoreInv, StoreTypeOK, Write, Becomes
<1>2. writes'[s].phase = p /\ \A t \in Slots \ {s} : writes'[t] = writes[t]
  BY BecomesTyped DEF AutosaveInv, StoreInv
<1>3. QED
  BY <1>1, <1>2 DEF OnlyReleases

\* The one step that changes the file: to a revision nobody knows yet.
LEMMA RenameTabsInv ==
  ASSUME AutosaveInv, NEW s \in Slots, Rename(s),
         UNCHANGED <<editor, legacy, spent>>
  PROVE  TabsInv'
<1>1. writes[s].expected = file.revision /\ file.revision \in Nat
  BY DEF Rename, AutosaveInv, StoreInv, OneWriteRuns, Running, StoreTypeOK, File
<1>2. file'.revision = file.revision + 1 /\ file'.workspace = writes[s].workspace
  BY <1>1 DEF Rename
<1>3. \A w : \A r \in Nat : Knows(r, w) => Knows(r, w)'
  BY <1>1, <1>2 DEF Knows
<1>4. \A t \in Slots : writes'[t].owner = writes[t].owner
                       /\ writes'[t].workspace = writes[t].workspace
                       /\ writes'[t].expected = writes[t].expected
                       /\ (t # s => writes'[t] = writes[t])
  BY DEF Rename, AutosaveInv, StoreInv, StoreTypeOK, Write, Becomes
<1>5. ASSUME NEW t \in Slots, writes'[t].phase = "saved"
      PROVE  Knows(writes[t].expected + 1, writes[t].workspace)'
  <2>1. CASE t = s
    BY <1>1, <1>2, <1>4, <2>1 DEF Knows
  <2>2. CASE t # s
    <3>1. Knows(writes[t].expected + 1, writes[t].workspace)
      BY <1>4, <1>5, <2>2 DEF AutosaveInv, KnowledgeIsSound
    <3>2. writes[t].expected + 1 \in Nat
      BY DEF AutosaveInv, StoreInv, StoreTypeOK, Write
    <3>3. QED
      BY <1>3, <1>4, <3>1, <3>2
  <2>3. QED
    BY <2>1, <2>2
<1>6. spent' \in [edits : 0 .. MaxEdits, faults : 0 .. MaxFaults]
  BY DEF AutosaveInv, EditorTypeOK
<1>7. QED
  BY <1>3, <1>4, <1>5, <1>6, ServerStepInv

LEMMA ServerInv ==
  ASSUME AutosaveInv, NEW s \in Slots, ServerSteps(s) \/ ServerDiskFails(s)
  PROVE  TabsInv'
<1>1. UNCHANGED <<editor, legacy>>
          /\ spent' \in [edits : 0 .. MaxEdits, faults : 0 .. MaxFaults]
  BY FaultTyped DEF ServerSteps, ServerProceeds, AnswerDropped,
     ServerDiskFails, AutosaveInv, EditorTypeOK
<1>2. CASE ServerDiskFails(s)
  BY <1>1, <1>2, BecomesReleases, FileStaysInv
     DEF ServerDiskFails, DiskFails, Phases, Answered
<1>3. CASE AnswerDropped(s)
  BY <1>1, <1>3, CloseReleases, FileStaysInv DEF AnswerDropped
<1>4. CASE ServerProceeds(s)
  <2>1. CASE Enqueue(s)
    BY <1>1, <2>1, BecomesReleases, FileStaysInv DEF Enqueue, Phases, Answered
  <2>2. CASE Compare(s)
    BY <1>1, <2>2, BecomesReleases, FileStaysInv
       DEF Compare, Phases, Answered, Running
  <2>3. CASE WriteTemporary(s)
    BY <1>1, <2>3, BecomesReleases, FileStaysInv
       DEF WriteTemporary, Phases, Running
  <2>4. CASE Rename(s)
    BY <1>4, <2>4, RenameTabsInv DEF ServerProceeds
  <2>5. QED
    BY <1>4, <2>1, <2>2, <2>3, <2>4 DEF ServerProceeds, Proceed
<1>5. QED
  BY <1>2, <1>3, <1>4 DEF ServerSteps

LEMMA ServerRestartsInv ==
  ASSUME AutosaveInv, ServerRestarts
  PROVE  TabsInv'
<1>1. ASSUME NEW s \in Slots
      PROVE  /\ writes'[s].owner = writes[s].owner
             /\ writes'[s].workspace = writes[s].workspace
             /\ writes'[s].expected = writes[s].expected
             /\ writes'[s].phase \in {"failed", writes[s].phase}
  BY DEF ServerRestarts, Restart, AutosaveInv, StoreInv, StoreTypeOK, Write
<1>2. OnlyReleases
  BY <1>1 DEF OnlyReleases, ServerRestarts, Restart
<1>3. QED
  BY <1>2, FaultTyped, FileStaysInv DEF ServerRestarts, AutosaveInv

-----------------------------------------------------------------------------
(* Theorems *)

LEMMA AutosaveInitInv == AutosaveInit => AutosaveInv
<1>. SUFFICES ASSUME AutosaveInit PROVE AutosaveInv
  OBVIOUS
<1>1. StoreInv
  BY StoreInitInv DEF AutosaveInit
<1>2. EditorTypeOK
  BY OpenedGood, WorkspaceAssumption, BoundAssumption
     DEF AutosaveInit, EditorTypeOK, GoodTab, MaybeWorkspace
<1>3. TabsInOrder
  BY OpenedGood DEF AutosaveInit, TabsInOrder, GoodTab
<1>4. RequestsBelong
  BY NullAssumption DEF AutosaveInit, StoreInit, FreeWrite, RequestsBelong
<1>5. KnowledgeIsSound
  BY OpenedGood
     DEF AutosaveInit, StoreInit, FreeWrite, KnowledgeIsSound, GoodTab
<1>6. QED
  BY <1>1, <1>2, <1>3, <1>4, <1>5 DEF AutosaveInv

LEMMA AutosaveStepInv ==
  ASSUME AutosaveInv, [AutosaveNext]_autosaveVars
  PROVE  AutosaveInv'
<1>1. StoreInv'
  BY UsesStore, StoreStepInv DEF AutosaveInv
<1>2. ASSUME NEW b \in Browsers, TabSteps(b)
      PROVE  TabsInv'
  BY <1>2, LoadReadInv, LoadAnsweredInv, TimerFiresInv, LoadSavedInv,
     PutArrivesInv, SaveAnsweredInv DEF TabSteps
<1>3. ASSUME UNCHANGED autosaveVars
      PROVE  TabsInv'
  <2>1. OnlyReleases
    BY <1>3 DEF autosaveVars, OnlyReleases
  <2>2. QED
    BY <1>3, <2>1, FileStaysInv DEF autosaveVars, AutosaveInv, EditorTypeOK
<1>4. ASSUME AutosaveNext
      PROVE  TabsInv'
  BY <1>2, <1>4, LoadLostInv, PutLostInv, ReloadInv, ProbeInv, EditInv,
     ServerInv, ServerRestartsInv DEF AutosaveNext
<1>5. TabsInv'
  BY <1>3, <1>4
<1>6. QED
  BY <1>1, <1>5 DEF AutosaveInv, TabsInv

LEMMA AutosaveInvariant == AutosaveSpec => []AutosaveInv
  BY AutosaveInitInv, AutosaveStepInv, PTL DEF AutosaveSpec

\* Tabs and store are well typed; the file only ever holds a workspace that
\* parseWorkspacePutRequest accepts.
THEOREM AutosaveTyped == AutosaveSpec => []AutosaveTypeOK
<1>1. AutosaveInv => AutosaveTypeOK
  BY DEF AutosaveInv, StoreInv, EditorTypeOK, AutosaveTypeOK
<1>2. QED
  BY <1>1, AutosaveInvariant, PTL

\* serverRevision and lastSyncedWorkspace of a tab never come apart: whatever
\* was edited, lost or restarted, a tab at the file's revision knows the file.
THEOREM AutosaveKnowsRevision == AutosaveSpec => []KnownRevision
<1>1. AutosaveInv => KnownRevision
  BY DEF AutosaveInv, KnowledgeIsSound, Knows, KnownRevision
<1>2. QED
  BY <1>1, AutosaveInvariant, PTL

\* No save is lost under another: what a save replaces is what its tab last
\* synced, even when the tab has been told since that the server is away.
THEOREM AutosaveReplacesWhatItSaw == AutosaveSpec => []SaveReplacesWhatItSaw
<1>1. ASSUME AutosaveInv, NEW b \in Browsers, NEW s \in Slots,
             writes[s].owner = b, writes[s].phase \in Running, InFlight(editor[b])
      PROVE  file.workspace = editor[b].synced
  <2>1. editor[b].load = "done"
    BY <1>1 DEF AutosaveInv, TabsInOrder
  <2>2. writes[s].expected = editor[b].revision
    BY <1>1, <2>1 DEF AutosaveInv, RequestsBelong, Outgoing
  <2>3. writes[s].expected = file.revision
    BY <1>1 DEF AutosaveInv, StoreInv, OneWriteRuns
  <2>4. QED
    BY <1>1, <2>1, <2>2, <2>3 DEF AutosaveInv, KnowledgeIsSound, Knows
<1>2. AutosaveInv => SaveReplacesWhatItSaw
  BY <1>1 DEF SaveReplacesWhatItSaw
<1>3. QED
  BY <1>2, AutosaveInvariant, PTL

\* Under any number of tabs the stored workspace is one atomic
\* compare-and-set register (README.md:325).
THEOREM AutosaveImplementsRegister == AutosaveSpec => StoreIsRegister
<1>1. AutosaveInit => StoreInit
  BY DEF AutosaveInit
<1>2. AutosaveInv /\ [AutosaveNext]_autosaveVars => [StoreNext]_storeVars
  BY UsesStore DEF AutosaveInv
<1>3. AutosaveSpec => StoreSpec
  BY <1>1, <1>2, AutosaveInvariant, PTL DEF AutosaveSpec, StoreSpec
<1>4. QED
  BY <1>3, StoreImplementsRegister
=============================================================================
