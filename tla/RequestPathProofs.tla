-------------------------- MODULE RequestPathProofs --------------------------
(***************************************************************************)
(* Requests through the API process, for every number of them, every pool, *)
(* every set of workflows and every configuration file: what a client is   *)
(* told is what happened, a decision is taken once, and an output is not   *)
(* ahead of its history.                                                   *)
(***************************************************************************)
EXTENDS RequestPath, WellFoundedInduction, TLAPS

------------------------------------------------------------------------------
RowState == WorkflowState \cup {"NONE"}
Row == [state : RowState, version : Nat, transitions : Nat, scenario : Nat, review : Nat]

Answer ==
  [status : Nat,
   class : {"none", "API_VALIDATION", "API_INTERNAL", "WF_NOT_FOUND", "WF_CONFLICT",
            "WF_TERMINAL", "WF_INVALID_APPROVAL"}]

\* What a statement may bring: a row, the state and version of one, a count.
Part == Row \cup (RowState \X Nat) \cup Nat

RequestRecord ==
  [pc : {"none", "usage", "sent", "getconn", "probe", "engine", "writing", "query",
         "returned", "answered", "lost"},
   c : Asked(Workflow) \cup {NoRequest.c}, conn : BOOLEAN, got : Seq(Part), write : Row,
   answer : Answer, effects : {0, 1}, unlogged : BOOLEAN]

\* A row's version counts its transitions, and what is approved was reviewed.
RowOK(row) ==
  /\ row.state = "NONE" => row = NoRow
  /\ row # NoRow => row.version = row.transitions + 1
  /\ row.state \in {"AWAITING_HUMAN_APPROVAL", "APPROVED"} => row.scenario = row.review

\* A row moves on with a new version and is never deleted; APPROVED is final.
MovesOn(a, b) ==
  /\ a.state # "APPROVED" /\ b.state # "NONE"
  /\ a.version < b.version /\ a.transitions <= b.transitions
  /\ RowOK(b)
Later(a, b) == a = b \/ MovesOn(a, b)

\* Where a request is says what it asked for, and what it has so far.
Placed(r, Q) ==
  /\ Q.pc = "none" <=> Q.c = NoRequest.c
  /\ Q.pc \in {"none", "usage", "sent", "getconn", "probe"} => Q.got = <<>> /\ Q.answer = Bare500
  /\ Q.pc \in {"getconn", "writing"} => Q.c.cmd \in Mutating
  /\ Q.pc = "probe" => Q.c.cmd = "ready"
  /\ Q.pc = "query" => Q.c.cmd \notin Mutating
  /\ Q.pc \in {"engine", "query"} =>
       /\ Q.c.cmd \in Mutating => Q.got = <<>>
       /\ Q.c.cmd \notin Mutating => Q.c.cmd \in ReadModels /\ Len(Q.got) < Len(Parts(Q.c.cmd))
  /\ Q.pc \in {"engine", "writing"} /\ Q.c.cmd = "approve" => Q.c.action \in ApprovalAction
  /\ Q.pc = "writing" /\ Q.c.cmd = "initiate" /\ Q.c.id # "given" => Q.c.wf = r

\* An approval that is about to write has seen a row that waited, and as long
\* as the version is the same so is the row.
Decides(Q, W) ==
  Q.pc = "writing" /\ Q.c.cmd = "approve" =>
    /\ Q.got[1] \in Row /\ Q.got[1].state = "AWAITING_HUMAN_APPROVAL"
    /\ Q.got[1].version <= W[Q.c.wf].version
    /\ Q.got[1].version = W[Q.c.wf].version => Q.got[1] = W[Q.c.wf]

\* Who has written holds the lock of a row that is still as it was read.
Writes(Q, W) ==
  Q.write # NoRow =>
    /\ Q.pc = "returned" /\ Q.c.cmd \in Mutating
    /\ MovesOn(W[Q.c.wf], Q.write)
    /\ Q.c.cmd = "initiate" => W[Q.c.wf] = NoRow
    /\ Q.c.cmd = "approve" => Q.got[1] \in Row /\ Q.got[1].version = W[Q.c.wf].version

\* What took effect has left its trace in the row.
TookEffect(Q, W) ==
  Q.effects = 1 =>
    /\ Q.pc = "answered" /\ Q.c.cmd \in Mutating
    /\ W[Q.c.wf].state # "NONE"
    /\ Q.c.cmd = "approve" => Q.got[1] \in Row /\ Q.got[1].version < W[Q.c.wf].version

\* The answer a mutating request is about to give, or has given.
Tells(Q) ==
  Q.c.cmd \in Mutating =>
    /\ Q.pc = "returned" => /\ Q.answer.status < 400 => Q.write # NoRow
                            /\ Q.answer.class # "none" => Q.write = NoRow \/ Q.unlogged
    /\ Q.pc = "answered" => /\ Q.answer.status < 400 => Q.effects = 1
                            /\ Q.answer.class # "none" => Q.effects = 0 \/ Q.unlogged

\* What an output has read so far, against the row as it is now.
Shows(Q, W) ==
  Q.c.cmd = "output" =>
    /\ Q.answer.status = 200 => Len(Q.got) = 4
    /\ Len(Q.got) >= 1 =>
         LET row == W[Q.c.wf]
             approved == Q.got[1][1] = "APPROVED"
         IN /\ Q.got[1] \in RowState \X Nat
            /\ row.state # "NONE" /\ Q.got[1][2] <= row.transitions + 1
            /\ approved => row.state = "APPROVED" /\ Q.got[1][2] = row.version
            /\ Len(Q.got) >= 2 /\ approved => Q.got[2] = row.scenario
            /\ Len(Q.got) >= 3 /\ approved => Q.got[3] = row.review
            /\ Len(Q.got) >= 4 => /\ Q.got[4] \in Nat /\ Q.got[1][2] <= Q.got[4] + 1
                                  /\ approved => Q.got[4] = row.transitions

RequestOK(r, Q, W) ==
  /\ Q \in RequestRecord
  /\ Placed(r, Q) /\ Decides(Q, W) /\ Writes(Q, W) /\ TookEffect(Q, W) /\ Tells(Q)
  /\ Shows(Q, W)

\* The row locks: no two transactions have written to one workflow.
OneWriter ==
  \A q, r \in Request :
    q # r /\ req[q].write # NoRow /\ req[r].write # NoRow => req[q].c.wf # req[r].c.wf

RequestInv ==
  /\ file \in Documents
  /\ wf \in [Workflow -> Row] /\ \A w \in Workflow : RowOK(wf[w])
  /\ req \in [Request -> RequestRecord] /\ \A r \in Request : RequestOK(r, req[r], wf)
  /\ OneWriter /\ DecidedOnce

------------------------------------------------------------------------------
\* The two literal rows.
LEMMA Rows == NoRow \in Row /\ Waiting \in Row /\ RowOK(NoRow) /\ RowOK(Waiting) /\ Waiting # NoRow
  <1>1. NoRow \in Row /\ Waiting \in Row
    BY DEF Row, RowState, WorkflowState, PAUSE_STATES, NoRow, Waiting
  <1>2. NoRow.state = "NONE" /\ Waiting.state # "NONE"
    BY DEF NoRow, Waiting
  <1>3. RowOK(NoRow)
    BY DEF RowOK, NoRow
  <1>4. RowOK(Waiting)
    BY DEF RowOK, Waiting
  <1> QED  BY <1>1, <1>2, <1>3, <1>4

\* A request that is more than a place for one names a workflow.
LEMMA AsksAbout ==
  ASSUME NEW r \in Request, NEW Q, Q \in RequestRecord, Placed(r, Q)
  PROVE  /\ Q.pc # "none" <=> Q.c \in Asked(Workflow)
         /\ Q.c.cmd # "none" <=> Q.c \in Asked(Workflow)
         /\ Q.c \in Asked(Workflow) => Q.c.wf \in Workflow
  <1>1. NoRequest.c.cmd = "none"
    BY DEF NoRequest
  <1>2. \A c \in Asked(Workflow) : c.cmd # "none" /\ c.wf \in Workflow
    BY DEF Asked, Mutating, ReadModels
  <1>3. Q.c \in Asked(Workflow) \cup {NoRequest.c}
    BY DEF RequestRecord
  <1> QED  BY <1>1, <1>2, <1>3 DEF Placed

\* What a request has read, decided, written and been told stays true while
\* the rows move on, as long as nobody touches the row it has locked.
LEMMA Keeps ==
  ASSUME NEW r \in Request, NEW Q, NEW W \in [Workflow -> Row], NEW V \in [Workflow -> Row],
         RequestOK(r, Q, W), \A w \in Workflow : RowOK(W[w]),
         \A w \in Workflow : Later(W[w], V[w]),
         Q.write # NoRow => V[Q.c.wf] = W[Q.c.wf]
  PROVE  RequestOK(r, Q, V)
  <1>1. Q \in RequestRecord /\ Placed(r, Q) /\ Tells(Q)
    BY DEF RequestOK
  <1>2. /\ Q.pc # "none" <=> Q.c \in Asked(Workflow)
        /\ Q.c.cmd # "none" <=> Q.c \in Asked(Workflow)
        /\ Q.c \in Asked(Workflow) => Q.c.wf \in Workflow
    BY <1>1, AsksAbout
  <1>3. CASE Q.c \notin Asked(Workflow)
    <2>1. Q.pc = "none" /\ Q.c.cmd = "none"
      BY <1>2, <1>3
    <2>2. Q.write = NoRow /\ Q.effects # 1
      BY <2>1 DEF RequestOK, Writes, TookEffect
    <2> QED
      BY <1>1, <2>1, <2>2 DEF RequestOK, Decides, Writes, TookEffect, Shows
  <1>4. CASE Q.c \in Asked(Workflow)
    <2> DEFINE a == W[Q.c.wf]
               b == V[Q.c.wf]
    <2>1. /\ a \in Row /\ b \in Row /\ Later(a, b) /\ RowOK(a)
      BY <1>2, <1>4
    <2>2. /\ a.version \in Nat /\ b.version \in Nat /\ a.transitions \in Nat
          /\ b.transitions \in Nat
      BY <2>1 DEF Row
    <2>3. a = b \/ (a.state # "APPROVED" /\ b.state # "NONE" /\ a.version < b.version
                    /\ a.transitions <= b.transitions)
      BY <2>1 DEF Later, MovesOn
    <2>4. Decides(Q, V)
      <3> SUFFICES ASSUME Q.pc = "writing", Q.c.cmd = "approve"
                   PROVE  /\ Q.got[1] \in Row /\ Q.got[1].state = "AWAITING_HUMAN_APPROVAL"
                          /\ Q.got[1].version <= b.version
                          /\ Q.got[1].version = b.version => Q.got[1] = b
        BY DEF Decides
      <3>1. /\ Q.got[1] \in Row /\ Q.got[1].state = "AWAITING_HUMAN_APPROVAL"
            /\ Q.got[1].version <= a.version
            /\ Q.got[1].version = a.version => Q.got[1] = a
        BY DEF RequestOK, Decides
      <3>2. Q.got[1].version \in Nat
        BY <3>1 DEF Row
      <3> HIDE DEF a, b
      <3> QED  BY <2>2, <2>3, <3>1, <3>2
    <2>5. Writes(Q, V)
      BY DEF RequestOK, Writes
    <2>6. TookEffect(Q, V)
      <3> SUFFICES ASSUME Q.effects = 1
                   PROVE  /\ Q.pc = "answered" /\ Q.c.cmd \in Mutating
                          /\ b.state # "NONE"
                          /\ Q.c.cmd = "approve" => /\ Q.got[1] \in Row
                                                    /\ Q.got[1].version < b.version
        BY DEF TookEffect
      <3>1. /\ Q.pc = "answered" /\ Q.c.cmd \in Mutating
            /\ a.state # "NONE"
            /\ Q.c.cmd = "approve" => Q.got[1] \in Row /\ Q.got[1].version < a.version
        BY DEF RequestOK, TookEffect
      <3>2. Q.c.cmd = "approve" => Q.got[1].version \in Nat
        BY <3>1 DEF Row
      <3> HIDE DEF a, b
      <3> QED  BY <2>2, <2>3, <3>1, <3>2
    <2>7. Shows(Q, V)
      <3> SUFFICES ASSUME Q.c.cmd = "output", Len(Q.got) >= 1
                   PROVE  LET approved == Q.got[1][1] = "APPROVED"
                          IN /\ Q.got[1] \in RowState \X Nat
                             /\ b.state # "NONE" /\ Q.got[1][2] <= b.transitions + 1
                             /\ approved => b.state = "APPROVED" /\ Q.got[1][2] = b.version
                             /\ Len(Q.got) >= 2 /\ approved => Q.got[2] = b.scenario
                             /\ Len(Q.got) >= 3 /\ approved => Q.got[3] = b.review
                             /\ Len(Q.got) >= 4 =>
                                  /\ Q.got[4] \in Nat /\ Q.got[1][2] <= Q.got[4] + 1
                                  /\ approved => Q.got[4] = b.transitions
        BY DEF RequestOK, Shows
      <3>1. /\ Q.got[1] \in RowState \X Nat
            /\ a.state # "NONE" /\ Q.got[1][2] <= a.transitions + 1
            /\ Q.got[1][1] = "APPROVED" => a.state = "APPROVED" /\ Q.got[1][2] = a.version
            /\ Len(Q.got) >= 2 /\ Q.got[1][1] = "APPROVED" => Q.got[2] = a.scenario
            /\ Len(Q.got) >= 3 /\ Q.got[1][1] = "APPROVED" => Q.got[3] = a.review
            /\ Len(Q.got) >= 4 => /\ Q.got[4] \in Nat /\ Q.got[1][2] <= Q.got[4] + 1
                                  /\ Q.got[1][1] = "APPROVED" => Q.got[4] = a.transitions
        BY DEF RequestOK, Shows
      <3>2. Q.got[1][2] \in Nat
        BY <3>1
      <3> HIDE DEF a, b
      <3> QED  BY <2>2, <2>3, <3>1, <3>2
    <2> QED  BY <1>1, <2>4, <2>5, <2>6, <2>7 DEF RequestOK
  <1> QED  BY <1>3, <1>4

\* The answers the routes give.
LEMMA Answers ==
  /\ \A class \in {"API_VALIDATION", "API_INTERNAL", "WF_NOT_FOUND", "WF_CONFLICT",
                   "WF_TERMINAL", "WF_INVALID_APPROVAL"} :
       /\ Envelope(class) \in Answer /\ Envelope(class).status >= 400
  /\ Bare500 \in Answer /\ Bare500.status = 500 /\ Bare500.class = "none"
  /\ \A ok \in BOOLEAN : Readiness(ok) \in Answer /\ Readiness(ok).class = "none"
  /\ \A c : /\ Success(c) \in Answer /\ Success(c).class = "none" /\ Success(c).status < 400
  <1>1. ASSUME NEW class \in {"API_VALIDATION", "API_INTERNAL", "WF_NOT_FOUND", "WF_CONFLICT",
                              "WF_TERMINAL", "WF_INVALID_APPROVAL"}
        PROVE  Envelope(class) \in Answer /\ Envelope(class).status >= 400
    <2>1. HttpStatus(class) \in Nat /\ HttpStatus(class) >= 400
      BY DEF HttpStatus
    <2> QED  BY <2>1 DEF Envelope, Answer
  <1>2. Bare500 \in Answer /\ Bare500.status = 500 /\ Bare500.class = "none"
    BY DEF Bare500, Answer
  <1>3. \A ok \in BOOLEAN : Readiness(ok) \in Answer /\ Readiness(ok).class = "none"
    BY DEF Readiness, Answer
  <1>4. \A c : /\ Success(c) \in Answer /\ Success(c).class = "none" /\ Success(c).status < 400
    BY DEF Success, Answer
  <1> QED  BY <1>1, <1>2, <1>3, <1>4

\* A step of one request that commits nothing.
LEMMA Moved ==
  ASSUME RequestInv, NEW r \in Request, NEW X, RequestOK(r, X, wf), X.effects = 0,
         X.write # NoRow =>
           \A q \in Request : q # r /\ req[q].write # NoRow => req[q].c.wf # X.c.wf,
         req' = [req EXCEPT ![r] = X], UNCHANGED <<file, wf>>
  PROVE  RequestInv'
  <1>1. X \in RequestRecord
    BY DEF RequestOK
  <1>2. req'[r] = X /\ \A q \in Request : q # r => req'[q] = req[q]
    BY DEF RequestInv
  <1>3. req' \in [Request -> RequestRecord]
    BY <1>1 DEF RequestInv
  <1>4. \A q \in Request : RequestOK(q, req'[q], wf)
    BY <1>2 DEF RequestInv
  <1>5. OneWriter'
    BY <1>2 DEF RequestInv, OneWriter
  <1>6. DecidedOnce'
    <2> SUFFICES ASSUME NEW q \in Request, NEW s \in Request, q # s,
                        req'[q].effects = 1, req'[s].effects = 1, req'[q].c.wf = req'[s].c.wf
                 PROVE  /\ ~ (req'[q].c.cmd = "initiate" /\ req'[s].c.cmd = "initiate")
                        /\ (req'[q].c.cmd = "approve" /\ req'[s].c.cmd = "approve" =>
                              req'[q].got[1].version # req'[s].got[1].version)
      BY DEF DecidedOnce
    <2>1. q # r /\ s # r
      BY <1>2
    <2> QED  BY <1>2, <2>1 DEF RequestInv, DecidedOnce
  <1> QED  BY <1>3, <1>4, <1>5, <1>6 DEF RequestInv

\* The rows of the workflows move on, and no request with them.
LEMMA RowsMove ==
  ASSUME RequestInv, wf' \in [Workflow -> Row],
         \A w \in Workflow : Later(wf[w], wf'[w]),
         \A r \in Request : req[r].write # NoRow => wf'[req[r].c.wf] = wf[req[r].c.wf],
         UNCHANGED <<file, req>>
  PROVE  RequestInv'
  <1>1. \A w \in Workflow : RowOK(wf'[w])
    BY DEF RequestInv, Later, MovesOn
  <1>2. \A r \in Request : RequestOK(r, req[r], wf')
    BY Keeps DEF RequestInv
  <1> QED  BY <1>1, <1>2 DEF RequestInv, OneWriter, DecidedOnce

\* A commit: the row that was locked becomes what was written.
LEMMA RowCommitted ==
  ASSUME RequestInv, NEW r \in Request, req[r].write # NoRow,
         wf' = [wf EXCEPT ![req[r].c.wf] = req[r].write]
  PROVE  /\ wf' \in [Workflow -> Row] /\ \A w \in Workflow : RowOK(wf'[w])
         /\ req[r].c.wf \in Workflow /\ wf'[req[r].c.wf] = req[r].write
         /\ \A q \in Request : q # r => RequestOK(q, req[q], wf')
  <1> DEFINE Q == req[r]
  <1>1. RequestOK(r, Q, wf) /\ Q \in RequestRecord
    BY DEF RequestInv
  <1>2. Q.pc = "returned" /\ Q.write \in Row /\ MovesOn(wf[Q.c.wf], Q.write)
    BY <1>1 DEF RequestOK, Writes, RequestRecord
  <1>3. Q.c.wf \in Workflow
    BY <1>1, <1>2, AsksAbout DEF RequestOK
  <1>4. wf' \in [Workflow -> Row] /\ wf'[Q.c.wf] = Q.write
        /\ \A w \in Workflow : w # Q.c.wf => wf'[w] = wf[w]
    BY <1>2, <1>3 DEF RequestInv
  <1>5. \A w \in Workflow : Later(wf[w], wf'[w])
    BY <1>2, <1>4 DEF Later
  <1>6. \A w \in Workflow : RowOK(wf'[w])
    BY <1>5 DEF RequestInv, Later, MovesOn
  <1>7. ASSUME NEW q \in Request, q # r PROVE RequestOK(q, req[q], wf')
    <2>1. RequestOK(q, req[q], wf) /\ \A w \in Workflow : RowOK(wf[w])
      BY DEF RequestInv
    <2>2. req[q].write # NoRow => req[q].c.wf \in Workflow
      <3> SUFFICES ASSUME req[q].write # NoRow PROVE req[q].c.wf \in Workflow
        OBVIOUS
      <3>1. req[q].pc = "returned" /\ req[q] \in RequestRecord /\ Placed(q, req[q])
        BY <2>1 DEF RequestOK, Writes
      <3> QED  BY <3>1, AsksAbout
    <2>3. req[q].write # NoRow => wf'[req[q].c.wf] = wf[req[q].c.wf]
      BY <1>4, <1>7, <2>2 DEF RequestInv, OneWriter
    <2>4. wf \in [Workflow -> Row]
      BY DEF RequestInv
    <2> QED  BY <1>4, <1>5, <2>1, <2>3, <2>4, Keeps
  <1> QED  BY <1>3, <1>4, <1>6, <1>7

\* The request whose write is committed: it took effect, and is answered.
LEMMA Commits ==
  ASSUME RequestInv, NEW r \in Request, NEW X, req[r].write # NoRow,
         wf' = [wf EXCEPT ![req[r].c.wf] = req[r].write],
         X \in RequestRecord, X.pc = "answered", X.c = req[r].c, X.got = req[r].got,
         X.write = NoRow, X.effects = 1, X.answer.class = "none" \/ X.unlogged,
         req' = [req EXCEPT ![r] = X], file' = file
  PROVE  RequestInv'
  <1> DEFINE Q == req[r]
  <1>1. RequestOK(r, Q, wf) /\ Q \in RequestRecord
    BY DEF RequestInv
  <1>2. /\ wf' \in [Workflow -> Row] /\ \A w \in Workflow : RowOK(wf'[w])
        /\ Q.c.wf \in Workflow /\ wf'[Q.c.wf] = Q.write
        /\ \A q \in Request : q # r => RequestOK(q, req[q], wf')
    BY RowCommitted
  <1>3. /\ Q.pc = "returned" /\ Q.c.cmd \in Mutating /\ Q.write \in Row /\ wf[Q.c.wf] \in Row
        /\ MovesOn(wf[Q.c.wf], Q.write)
        /\ Q.c.cmd = "initiate" => wf[Q.c.wf] = NoRow
        /\ Q.c.cmd = "approve" => Q.got[1] \in Row /\ Q.got[1].version = wf[Q.c.wf].version
    BY <1>1, <1>2 DEF RequestOK, Writes, RequestRecord, RequestInv
  <1>4. req'[r] = X /\ \A q \in Request : q # r => req'[q] = req[q]
    BY DEF RequestInv
  <1>5. RequestOK(r, X, wf')
    <2>1. Placed(r, X)
      BY <1>1, <1>3 DEF RequestOK, Placed
    <2>2. TookEffect(X, wf')
      BY <1>2, <1>3 DEF TookEffect, MovesOn
    <2>3. Decides(X, wf') /\ Writes(X, wf') /\ Tells(X)
      BY DEF Decides, Writes, Tells
    <2>4. Shows(X, wf')
      BY <1>3 DEF Shows, Mutating
    <2> QED  BY <2>1, <2>2, <2>3, <2>4 DEF RequestOK
  <1>6. \A q \in Request : RequestOK(q, req'[q], wf')
    BY <1>2, <1>4, <1>5
  <1>7. req' \in [Request -> RequestRecord]
    BY <1>4 DEF RequestInv
  <1>8. OneWriter'
    BY <1>4 DEF RequestInv, OneWriter
  <1>9. ASSUME NEW q \in Request, q # r, req[q].effects = 1, req[q].c.wf = Q.c.wf
        PROVE  /\ Q.c.cmd # "initiate"
               /\ (req[q].c.cmd = "approve" /\ Q.c.cmd = "approve" =>
                     req[q].got[1].version # Q.got[1].version)
    <2>1. /\ wf[Q.c.wf].state # "NONE"
          /\ req[q].c.cmd = "approve" => /\ req[q].got[1] \in Row
                                         /\ req[q].got[1].version < wf[Q.c.wf].version
      BY <1>9 DEF RequestInv, RequestOK, TookEffect
    <2>2. wf[Q.c.wf] # NoRow
      BY <2>1 DEF NoRow
    <2>3. \A row \in Row : row.version \in Nat
      BY DEF Row
    <2> QED  BY <1>3, <2>1, <2>2, <2>3
  <1>10. DecidedOnce'
    <2> SUFFICES ASSUME NEW q \in Request, NEW s \in Request, q # s,
                        req'[q].effects = 1, req'[s].effects = 1, req'[q].c.wf = req'[s].c.wf
                 PROVE  /\ ~ (req'[q].c.cmd = "initiate" /\ req'[s].c.cmd = "initiate")
                        /\ (req'[q].c.cmd = "approve" /\ req'[s].c.cmd = "approve" =>
                              req'[q].got[1].version # req'[s].got[1].version)
      BY DEF DecidedOnce
    <2>1. CASE q = r
      BY <1>4, <1>9, <2>1
    <2>2. CASE s = r
      BY <1>4, <1>9, <2>2
    <2>3. CASE q # r /\ s # r
      BY <1>4, <2>3 DEF RequestInv, DecidedOnce
    <2> QED  BY <2>1, <2>2, <2>3
  <1> QED  BY <1>2, <1>6, <1>7, <1>8, <1>10 DEF RequestInv

\* A socket is closed: nothing of an open transaction stays.
LEMMA LostOK ==
  ASSUME RequestInv, NEW r \in Request, InServer(r)
  PROVE  RequestOK(r, Lost(r), wf) /\ Lost(r).effects = 0 /\ Lost(r).write = NoRow
         /\ Lost(r).c = req[r].c
  <1> DEFINE Q == req[r]
             X == Lost(r)
  <1>1. RequestOK(r, Q, wf) /\ Q \in RequestRecord
    BY DEF RequestInv
  <1>2. /\ X \in RequestRecord /\ X.pc = "lost" /\ X.c = Q.c /\ X.got = Q.got
        /\ X.write = NoRow /\ X.answer = Q.answer /\ X.effects = Q.effects
    BY <1>1, Rows DEF Lost, RequestRecord
  <1>3. Q.effects = 0
    BY <1>1 DEF InServer, RequestOK, TookEffect, RequestRecord
  <1> HIDE DEF X
  <1>4. Placed(r, X)
    BY <1>1, <1>2 DEF RequestOK, Placed, InServer
  <1>5. Decides(X, wf) /\ Writes(X, wf) /\ Tells(X) /\ TookEffect(X, wf)
    BY <1>2, <1>3 DEF Decides, Writes, Tells, TookEffect
  <1>6. Shows(X, wf)
    BY <1>1, <1>2 DEF RequestOK, Shows
  <1> QED  BY <1>2, <1>3, <1>4, <1>5, <1>6 DEF RequestOK, X

\* A thread has ended, or the loop has answered, without a write.
LEMMA EndsOK ==
  ASSUME RequestInv, NEW r \in Request, InServer(r), NEW X, X \in RequestRecord,
         X.pc \in {"returned", "answered"}, X.c = req[r].c, X.got = req[r].got,
         X.write = NoRow, X.effects = 0,
         X.c.cmd \in Mutating => X.answer.status >= 400,
         X.answer.status = 200 /\ X.c.cmd = "output" => Len(X.got) = 4
  PROVE  RequestOK(r, X, wf)
  <1> DEFINE Q == req[r]
  <1>1. RequestOK(r, Q, wf) /\ Q \in RequestRecord
    BY DEF RequestInv
  <1>2. Placed(r, X)
    BY <1>1 DEF RequestOK, Placed, InServer
  <1>3. X.answer.status \in Nat
    BY DEF RequestRecord, Answer
  <1>4. Decides(X, wf) /\ Writes(X, wf) /\ TookEffect(X, wf) /\ Tells(X)
    BY <1>3 DEF Decides, Writes, Tells, TookEffect
  <1>5. Shows(X, wf)
    BY <1>1 DEF RequestOK, Shows
  <1> QED  BY <1>2, <1>4, <1>5 DEF RequestOK

\* The two ways to end are such records.
LEMMA Ends ==
  ASSUME RequestInv, NEW r \in Request, InServer(r), NEW a \in Answer, req[r].write = NoRow,
         req[r].c.cmd \in Mutating => a.status >= 400,
         a.status = 200 => req[r].c.cmd # "output"
  PROVE  /\ RequestOK(r, Returned(r, a), wf) /\ RequestOK(r, Answered(r, a), wf)
         /\ Returned(r, a).effects = 0 /\ Answered(r, a).effects = 0
         /\ Returned(r, a).write = NoRow /\ Answered(r, a).write = NoRow
  <1> DEFINE Q == req[r]
  <1>1. RequestOK(r, Q, wf) /\ Q \in RequestRecord
    BY DEF RequestInv
  <1>2. Q.effects = 0
    BY <1>1 DEF InServer, RequestOK, TookEffect, RequestRecord
  <1>3. LET X == Returned(r, a)
        IN /\ X \in RequestRecord /\ X.pc = "returned" /\ X.c = Q.c /\ X.got = Q.got
           /\ X.write = NoRow /\ X.answer = a /\ X.effects = 0
    <2>1. Returned(r, a) \in RequestRecord
      BY <1>1 DEF Returned, RequestRecord
    <2> QED  BY <1>1, <1>2, <2>1 DEF Returned, RequestRecord
  <1>4. LET X == Answered(r, a)
        IN /\ X \in RequestRecord /\ X.pc = "answered" /\ X.c = Q.c /\ X.got = Q.got
           /\ X.write = NoRow /\ X.answer = a /\ X.effects = 0
    <2>1. Answered(r, a) \in RequestRecord
      BY <1>1 DEF Answered, RequestRecord
    <2> QED  BY <1>1, <1>2, <2>1 DEF Answered, RequestRecord
  <1>5. RequestOK(r, Returned(r, a), wf)
    BY <1>3, EndsOK
  <1>6. RequestOK(r, Answered(r, a), wf)
    BY <1>4, EndsOK
  <1> QED  BY <1>3, <1>4, <1>5, <1>6

------------------------------------------------------------------------------
\* A client starts.
LEMMA StartKeeps ==
  ASSUME RequestInv, NEW r \in Request, NEW c \in Commands[file][r], Start(r, c)
  PROVE  RequestInv'
  <1> DEFINE Q == req[r]
             bad == c.cli /\ (CliRefuses(c)
                              \/ (c.cmd = "initiate" /\ c.config /\ Load(file) # "ok"))
             X == IF bad THEN [Q EXCEPT !.pc = "usage", !.c = c]
                  ELSE [Q EXCEPT !.pc = "sent", !.c = Sent(c)]
  <1>1. /\ RequestOK(r, Q, wf) /\ Q \in RequestRecord /\ Placed(r, Q) /\ Q.pc = "none"
    BY DEF RequestInv, RequestOK, Start
  <1>2. c \in Asked(Workflow)
    BY RequestAssumption DEF RequestInv
  <1>3. Sent(c) \in Asked(Workflow) /\ Sent(c).cmd = c.cmd
    BY <1>2 DEF Sent, Asked
  <1>4. PICK d \in Asked(Workflow) :
          /\ X.c = d /\ X.pc \in {"usage", "sent"} /\ X.got = Q.got /\ X.write = Q.write
          /\ X.answer = Q.answer /\ X.effects = Q.effects /\ X \in RequestRecord
    <2>1. CASE bad
      <3>1. X = [Q EXCEPT !.pc = "usage", !.c = c]
        BY <2>1
      <3> HIDE DEF X
      <3> QED  BY <1>1, <1>2, <3>1 DEF RequestRecord
    <2>2. CASE ~ bad
      <3>1. X = [Q EXCEPT !.pc = "sent", !.c = Sent(c)]
        BY <2>2
      <3> HIDE DEF X
      <3> QED  BY <1>1, <1>3, <3>1 DEF RequestRecord
    <2> QED  BY <2>1, <2>2
  <1>5. req' = [req EXCEPT ![r] = X] /\ UNCHANGED <<file, wf>>
    BY DEF Start
  <1> HIDE DEF X
  <1>6. Q.write = NoRow /\ Q.effects = 0 /\ Q.got = <<>> /\ Q.answer = Bare500
    BY <1>1 DEF RequestOK, Writes, TookEffect, RequestRecord, Placed
  <1>7. d # NoRequest.c
    BY DEF NoRequest, Asked
  <1>8. RequestOK(r, X, wf)
    <2>1. Placed(r, X)
      BY <1>4, <1>6, <1>7 DEF Placed
    <2>2. Decides(X, wf) /\ Writes(X, wf) /\ TookEffect(X, wf) /\ Tells(X)
      BY <1>4, <1>6 DEF Decides, Writes, Tells, TookEffect
    <2>3. X.answer.status = 500 /\ Len(X.got) = 0
      BY <1>4, <1>6 DEF Bare500
    <2>4. Shows(X, wf)
      BY <2>3 DEF Shows
    <2> QED  BY <1>4, <2>1, <2>2, <2>4 DEF RequestOK
  <1> QED  BY <1>4, <1>5, <1>6, <1>8, Moved

\* What the validation of a route lets through.
LEMMA Verdicts ==
  ASSUME NEW c \in Asked(Workflow)
  PROVE  /\ ValidateRequest(c) \in {"ok", "raises", "API_VALIDATION"}
         /\ RouteSpan(c) \in {"ok", "raises"}
         /\ ValidateRequest(c) = "ok" /\ c.cmd = "approve" => c.action \in ApprovalAction
         /\ c.cmd \in Mutating \/ c.cmd \in ReadModels \/ c.cmd = "ready"
  <1>1. \A text : Sanitize(text) \in {"ok", "raises", "API_VALIDATION"}
    BY DEF Sanitize
  <1>2. ValidateInitiate(c) \in {"ok", "raises", "API_VALIDATION"}
    BY <1>1 DEF ValidateInitiate
  <1>3. /\ ValidateApproval(c) \in {"ok", "raises", "API_VALIDATION"}
        /\ ValidateApproval(c) = "ok" => c.action \in ApprovalAction
    BY <1>1 DEF ValidateApproval
  <1>4. c.cmd \in Mutating \/ c.cmd \in ReadModels \/ c.cmd = "ready"
    BY DEF Asked
  <1> QED  BY <1>1, <1>2, <1>3, <1>4 DEF ValidateRequest, RouteSpan

\* A read model has something to read.
LEMMA PartsOfReadModels ==
  \A cmd \in ReadModels :
    /\ Len(Parts(cmd)) \in 1 .. 4 /\ Parts(cmd)[1] = "row"
    /\ \A i \in 1 .. Len(Parts(cmd)) :
         Parts(cmd)[i] \in {"row", "transitions", "scenario", "review"}
  BY DEF ReadModels, Parts

\* A route ends at once or goes on to its thread.
LEMMA RouteOK ==
  ASSUME RequestInv, NEW r \in Request, NEW conn \in BOOLEAN,
         req[r].pc \in {"sent", "getconn"}, req[r].c.cmd # "ready"
  PROVE  /\ RequestOK(r, Route(r, conn), wf)
         /\ Route(r, conn).effects = 0 /\ Route(r, conn).write = NoRow
  <1> DEFINE Q == req[r]
             verdict == ValidateRequest(Q.c)
             refusal == IF verdict # "ok" THEN verdict ELSE RouteSpan(Q.c)
             X == [Q EXCEPT !.pc = "engine", !.conn = conn]
  <1>1. RequestOK(r, Q, wf) /\ Q \in RequestRecord /\ Placed(r, Q) /\ InServer(r)
    BY DEF RequestInv, RequestOK, InServer
  <1>2. Q.c \in Asked(Workflow)
    BY <1>1, AsksAbout
  <1>3. /\ verdict \in {"ok", "raises", "API_VALIDATION"} /\ RouteSpan(Q.c) \in {"ok", "raises"}
        /\ verdict = "ok" /\ Q.c.cmd = "approve" => Q.c.action \in ApprovalAction
        /\ Q.c.cmd \in Mutating \/ Q.c.cmd \in ReadModels
    BY <1>2, Verdicts
  <1>4. Q.write = NoRow /\ Q.effects = 0 /\ Q.got = <<>> /\ Q.answer = Bare500
    BY <1>1 DEF RequestOK, Writes, TookEffect, RequestRecord, Placed
  <1>5. CASE refusal # "ok"
    <2>1. Refusal(refusal) \in Answer /\ Refusal(refusal).status >= 400
      BY <1>3, <1>5, Answers DEF Refusal
    <2>2. Route(r, conn) = Answered(r, Refusal(refusal))
      BY <1>5 DEF Route
    <2>3. Refusal(refusal).status # 200
      BY <2>1 DEF Answer
    <2> QED  BY <1>1, <1>4, <2>1, <2>2, <2>3, Ends
  <1>6. CASE refusal = "ok"
    <2>1. Route(r, conn) = X
      BY <1>6 DEF Route
    <2>2. /\ X \in RequestRecord /\ X.pc = "engine" /\ X.c = Q.c /\ X.got = Q.got
          /\ X.write = Q.write /\ X.answer = Q.answer /\ X.effects = Q.effects
      BY <1>1 DEF RequestRecord
    <2> HIDE DEF X
    <2>3. verdict = "ok"
      BY <1>6
    <2>4. Len(X.got) = 0 /\ X.answer.status = 500
      BY <1>4, <2>2 DEF Bare500
    <2>5. Q.c.cmd \in ReadModels => 0 < Len(Parts(Q.c.cmd))
      BY PartsOfReadModels
    <2>6. Placed(r, X)
      BY <1>1, <1>3, <1>4, <2>2, <2>3, <2>4, <2>5 DEF Placed
    <2>7. Decides(X, wf) /\ Writes(X, wf) /\ TookEffect(X, wf) /\ Tells(X)
      BY <1>4, <2>2 DEF Decides, Writes, Tells, TookEffect
    <2>8. Shows(X, wf)
      BY <2>4 DEF Shows
    <2> QED  BY <1>4, <2>1, <2>2, <2>6, <2>7, <2>8 DEF RequestOK
  <1> QED  BY <1>5, <1>6

\* The same request, a little further on the loop.
LEMMA WaitsOK ==
  ASSUME RequestInv, NEW r \in Request, req[r].pc = "sent", NEW pc \in {"getconn", "probe"},
         pc = "getconn" => req[r].c.cmd \in Mutating, pc = "probe" => req[r].c.cmd = "ready"
  PROVE  /\ RequestOK(r, [req[r] EXCEPT !.pc = pc], wf)
         /\ [req[r] EXCEPT !.pc = pc].effects = 0 /\ [req[r] EXCEPT !.pc = pc].write = NoRow
  <1> DEFINE Q == req[r]
             X == [Q EXCEPT !.pc = pc]
  <1>1. RequestOK(r, Q, wf) /\ Q \in RequestRecord /\ Placed(r, Q)
    BY DEF RequestInv, RequestOK
  <1>2. /\ X \in RequestRecord /\ X.pc = pc /\ X.c = Q.c /\ X.got = Q.got
        /\ X.write = Q.write /\ X.answer = Q.answer /\ X.effects = Q.effects
    BY <1>1 DEF RequestRecord
  <1>3. Q.write = NoRow /\ Q.effects = 0
    BY <1>1 DEF RequestOK, Writes, TookEffect, RequestRecord
  <1> SUFFICES RequestOK(r, X, wf) /\ X.effects = 0 /\ X.write = NoRow
    OBVIOUS
  <1> HIDE DEF X
  <1>4. Placed(r, X)
    BY <1>1, <1>2 DEF Placed
  <1>5. Decides(X, wf) /\ Writes(X, wf) /\ TookEffect(X, wf) /\ Tells(X)
    BY <1>2, <1>3 DEF Decides, Writes, Tells, TookEffect
  <1>6. Shows(X, wf)
    BY <1>1, <1>2 DEF RequestOK, Shows
  <1> QED  BY <1>2, <1>3, <1>4, <1>5, <1>6 DEF RequestOK

\* The event loop takes a request up, and ends a wait for the pool.
LEMMA LoopKeeps ==
  ASSUME RequestInv, NEW r \in Request,
         Accept(r) \/ GetConnection(r) \/ GetConnectionTimeout(r) \/ Probe(r)
  PROVE  RequestInv'
  <1> DEFINE Q == req[r]
  <1>1. RequestOK(r, Q, wf) /\ Q \in RequestRecord /\ Placed(r, Q)
    BY DEF RequestInv, RequestOK
  <1>2. Q.pc \in {"sent", "getconn", "probe"} /\ InServer(r) /\ UNCHANGED <<file, wf>>
    BY DEF Accept, GetConnection, GetConnectionTimeout, Probe, InServer
  <1>3. Q.write = NoRow
    BY <1>1, <1>2 DEF RequestOK, Writes
  <1>4. CASE Accept(r)
    <2>1. Q.pc = "sent"
      BY <1>4 DEF Accept
    <2>2. CASE Q.c.cmd = "ready"
      <3>1. req' = [req EXCEPT ![r] = [Q EXCEPT !.pc = "probe"]]
        BY <1>4, <2>2 DEF Accept, Mutating
      <3> QED  BY <1>2, <2>1, <2>2, <3>1, WaitsOK, Moved
    <2>3. CASE Q.c.cmd \in Mutating /\ Free > 0
      <3>1. req' = [req EXCEPT ![r] = Route(r, TRUE)] /\ Q.c.cmd # "ready"
        BY <1>4, <2>3 DEF Accept, Mutating
      <3> QED  BY <1>2, <2>1, <3>1, RouteOK, Moved
    <2>4. CASE Q.c.cmd \in Mutating /\ ~ (Free > 0)
      <3>1. req' = [req EXCEPT ![r] = [Q EXCEPT !.pc = "getconn"]]
        BY <1>4, <2>4 DEF Accept, Mutating
      <3> QED  BY <1>2, <2>1, <2>4, <3>1, WaitsOK, Moved
    <2>5. CASE Q.c.cmd \notin Mutating /\ Q.c.cmd # "ready"
      <3>1. req' = [req EXCEPT ![r] = Route(r, FALSE)]
        BY <1>4, <2>5 DEF Accept
      <3> QED  BY <1>2, <2>1, <2>5, <3>1, RouteOK, Moved
    <2> QED  BY <2>2, <2>3, <2>4, <2>5
  <1>5. CASE GetConnection(r)
    <2>1. req' = [req EXCEPT ![r] = Route(r, TRUE)] /\ Q.pc = "getconn"
      BY <1>5 DEF GetConnection
    <2>2. Q.c.cmd # "ready"
      BY <1>1, <2>1 DEF Placed, Mutating
    <2> QED  BY <1>2, <2>1, <2>2, RouteOK, Moved
  <1>6. CASE GetConnectionTimeout(r)
    <2>1. req' = [req EXCEPT ![r] = Answered(r, Bare500)]
      BY <1>6 DEF GetConnectionTimeout
    <2>2. Bare500 \in Answer /\ Bare500.status >= 400 /\ Bare500.status # 200
      BY Answers
    <2>3. RequestOK(r, Answered(r, Bare500), wf) /\ Answered(r, Bare500).effects = 0
          /\ Answered(r, Bare500).write = NoRow
      BY <1>2, <1>3, <2>2, Ends
    <2> QED  BY <1>2, <2>1, <2>3, Moved
  <1>7. CASE Probe(r)
    <2>1. PICK ok \in BOOLEAN : req' = [req EXCEPT ![r] = Answered(r, Readiness(ok))]
      BY <1>7 DEF Probe
    <2>2. Readiness(ok) \in Answer
      BY Answers
    <2>3. Q.c.cmd = "ready"
      BY <1>1, <1>7 DEF Placed, Probe
    <2>4. RequestOK(r, Answered(r, Readiness(ok)), wf)
          /\ Answered(r, Readiness(ok)).effects = 0 /\ Answered(r, Readiness(ok)).write = NoRow
      BY <1>2, <1>3, <2>2, <2>3, Ends DEF Mutating
    <2> QED  BY <1>2, <2>1, <2>4, Moved
  <1> QED  BY <1>4, <1>5, <1>6, <1>7

\* The engine's thread: allocate, validate_no_duplicate, emit_initiated.
LEMMA InitiateReadKeeps ==
  ASSUME RequestInv, NEW r \in Request, InitiateRead(r)
  PROVE  RequestInv'
  <1> DEFINE Q == req[r]
             X == [Q EXCEPT !.pc = "writing", !.c.wf = Target(r)]
  <1>1. /\ RequestOK(r, Q, wf) /\ Q \in RequestRecord /\ Placed(r, Q)
        /\ Q.pc = "engine" /\ Q.c.cmd = "initiate" /\ InServer(r) /\ UNCHANGED <<file, wf>>
    BY DEF RequestInv, RequestOK, InitiateRead, InServer
  <1>2. Q.c \in Asked(Workflow) /\ Q.c.wf \in Workflow
    BY <1>1, AsksAbout
  <1>3. Q.write = NoRow /\ Q.effects = 0
    BY <1>1 DEF RequestOK, Writes, TookEffect, RequestRecord
  <1>4. ASSUME NEW class \in {"API_INTERNAL", "WF_CONFLICT"},
               req' = [req EXCEPT ![r] = Returned(r, Envelope(class))]
        PROVE  RequestInv'
    <2>1. Envelope(class) \in Answer /\ Envelope(class).status >= 400
      BY Answers
    <2>2. Envelope(class).status # 200
      BY <2>1 DEF Answer
    <2> QED  BY <1>1, <1>3, <1>4, <2>1, <2>2, Ends, Moved
  <1>5. ASSUME req' = [req EXCEPT ![r] = X]
        PROVE  RequestInv'
    <2>1. Target(r) \in Workflow /\ (Q.c.id # "given" => Target(r) = r)
      BY <1>1, <1>2 DEF Target, Workflow
    <2>2. [Q.c EXCEPT !.wf = Target(r)] \in Asked(Workflow)
      BY <1>2, <2>1 DEF Asked
    <2>3. /\ X.c = [Q.c EXCEPT !.wf = Target(r)] /\ X.c.cmd = Q.c.cmd /\ X.c.id = Q.c.id
          /\ X.c.wf = Target(r)
      BY <1>1, <1>2 DEF RequestRecord, Asked
    <2>4. /\ X \in RequestRecord /\ X.pc = "writing" /\ X.got = Q.got
          /\ X.write = Q.write /\ X.answer = Q.answer /\ X.effects = Q.effects
      BY <1>1, <2>2 DEF RequestRecord
    <2>5. X.c # NoRequest.c
      BY <1>1, <2>3 DEF NoRequest
    <2> HIDE DEF X
    <2>6. Placed(r, X)
      BY <1>1, <2>1, <2>3, <2>4, <2>5 DEF Placed, Mutating
    <2>7. Decides(X, wf) /\ Writes(X, wf) /\ TookEffect(X, wf) /\ Tells(X) /\ Shows(X, wf)
      BY <1>1, <1>3, <2>3, <2>4 DEF Decides, Writes, Tells, TookEffect, Shows
    <2>8. RequestOK(r, X, wf)
      BY <2>4, <2>6, <2>7 DEF RequestOK
    <2> QED  BY <1>1, <1>3, <1>5, <2>4, <2>8, Moved
  <1> HIDE DEF X
  <1>6. \/ \E class \in {"API_INTERNAL", "WF_CONFLICT"} :
             req' = [req EXCEPT ![r] = Returned(r, Envelope(class))]
        \/ req' = [req EXCEPT ![r] = X]
    BY DEF InitiateRead, X
  <1> QED  BY <1>4, <1>5, <1>6

\* create_workflow: the row is inserted when there is none.
LEMMA InitiateWriteKeeps ==
  ASSUME RequestInv, NEW r \in Request, InitiateWrite(r)
  PROVE  RequestInv'
  <1> DEFINE Q == req[r]
             new == [NoRow EXCEPT !.state = "COLLECTING", !.version = 2, !.transitions = 1]
             X == [Returned(r, Success(Q.c)) EXCEPT !.write = new]
  <1>1. /\ RequestOK(r, Q, wf) /\ Q \in RequestRecord /\ Placed(r, Q)
        /\ Q.pc = "writing" /\ Q.c.cmd = "initiate" /\ InServer(r) /\ UNCHANGED <<file, wf>>
        /\ ~ Locked(Target(r))
    BY DEF RequestInv, RequestOK, InitiateWrite, InServer
  <1>2. Q.c \in Asked(Workflow) /\ Q.c.wf \in Workflow /\ Target(r) = Q.c.wf
    <2>1. Q.c \in Asked(Workflow) /\ Q.c.wf \in Workflow
      BY <1>1, AsksAbout
    <2> QED  BY <1>1, <2>1 DEF Target, Placed
  <1>3. Q.write = NoRow /\ Q.effects = 0
    BY <1>1 DEF RequestOK, Writes, TookEffect, RequestRecord
  <1>4. CASE wf[Target(r)] # NoRow
    <2>1. Envelope("API_INTERNAL") \in Answer /\ Envelope("API_INTERNAL").status >= 400
      BY Answers
    <2>2. Envelope("API_INTERNAL").status # 200
      BY <2>1 DEF Answer
    <2>3. req' = [req EXCEPT ![r] = Returned(r, Envelope("API_INTERNAL"))]
      BY <1>4 DEF InitiateWrite
    <2> QED  BY <1>1, <1>3, <2>1, <2>2, <2>3, Ends, Moved
  <1>5. CASE wf[Target(r)] = NoRow
    <2>1. req' = [req EXCEPT ![r] = X]
      BY <1>5 DEF InitiateWrite
    <2>2. new \in Row /\ new # NoRow /\ RowOK(new) /\ MovesOn(NoRow, new)
      <3>1. NoRow = [state |-> "NONE", version |-> 0, transitions |-> 0, scenario |-> 0,
                     review |-> 0]
        BY DEF NoRow
      <3>2. /\ new.state = "COLLECTING" /\ new.version = 2 /\ new.transitions = 1
            /\ new.scenario = 0 /\ new.review = 0
        BY <3>1
      <3>a. "COLLECTING" \in RowState
        BY DEF RowState, WorkflowState, TRANSIENT_STATES
      <3>b. new \in Row
        BY <3>a, Rows DEF Row
      <3> HIDE DEF new
      <3>3. new # NoRow
        BY <3>1, <3>2
      <3>4. RowOK(new)
        BY <3>2 DEF RowOK
      <3> QED  BY <3>1, <3>2, <3>b, <3>3, <3>4 DEF MovesOn
    <2> HIDE DEF new
    <2>3. Success(Q.c) \in Answer /\ Success(Q.c).class = "none"
      BY Answers
    <2>4. /\ X \in RequestRecord /\ X.pc = "returned" /\ X.c = Q.c /\ X.got = Q.got
          /\ X.write = new /\ X.answer = Success(Q.c) /\ X.effects = Q.effects
      <3>1. Returned(r, Success(Q.c)) \in RequestRecord
        BY <1>1, <2>3 DEF Returned, RequestRecord
      <3>2. /\ Returned(r, Success(Q.c)).pc = "returned" /\ Returned(r, Success(Q.c)).c = Q.c
            /\ Returned(r, Success(Q.c)).got = Q.got
            /\ Returned(r, Success(Q.c)).answer = Success(Q.c)
            /\ Returned(r, Success(Q.c)).effects = Q.effects
        BY <1>1 DEF Returned, RequestRecord
      <3> QED  BY <2>2, <3>1, <3>2 DEF RequestRecord
    <2> HIDE DEF X
    <2>5. Placed(r, X)
      BY <1>1, <2>4 DEF Placed
    <2>6. Writes(X, wf)
      BY <1>1, <1>2, <1>5, <2>2, <2>4 DEF Writes, Mutating
    <2>7. Decides(X, wf) /\ TookEffect(X, wf) /\ Tells(X) /\ Shows(X, wf)
      BY <1>1, <1>3, <2>2, <2>3, <2>4 DEF Decides, Tells, TookEffect, Shows
    <2>8. RequestOK(r, X, wf)
      BY <2>4, <2>5, <2>6, <2>7 DEF RequestOK
    <2>9. \A q \in Request : q # r /\ req[q].write # NoRow => req[q].c.wf # X.c.wf
      BY <1>1, <1>2, <2>4 DEF Locked
    <2> QED  BY <1>1, <1>3, <2>1, <2>4, <2>8, <2>9, Moved
  <1> QED  BY <1>4, <1>5

\* apply_approval_action up to the decision.
LEMMA ApprovalReadKeeps ==
  ASSUME RequestInv, NEW r \in Request, ApprovalRead(r)
  PROVE  RequestInv'
  <1> DEFINE Q == req[r]
             row == wf[Q.c.wf]
             X == [Q EXCEPT !.pc = "writing", !.got = <<row>>]
  <1>1. /\ RequestOK(r, Q, wf) /\ Q \in RequestRecord /\ Placed(r, Q)
        /\ Q.pc = "engine" /\ Q.c.cmd = "approve" /\ InServer(r) /\ UNCHANGED <<file, wf>>
    BY DEF RequestInv, RequestOK, ApprovalRead, InServer
  <1>2. Q.c \in Asked(Workflow) /\ Q.c.wf \in Workflow
    BY <1>1, AsksAbout
  <1>3. Q.write = NoRow /\ Q.effects = 0
    BY <1>1 DEF RequestOK, Writes, TookEffect, RequestRecord
  <1>4. row \in Row
    BY <1>2 DEF RequestInv
  <1>5. ASSUME NEW class \in {"WF_NOT_FOUND", "WF_TERMINAL", "WF_INVALID_APPROVAL"},
               req' = [req EXCEPT ![r] = Returned(r, Envelope(class))]
        PROVE  RequestInv'
    <2>1. Envelope(class) \in Answer /\ Envelope(class).status >= 400
      BY Answers
    <2>2. Envelope(class).status # 200
      BY <2>1 DEF Answer
    <2> QED  BY <1>1, <1>3, <1>5, <2>1, <2>2, Ends, Moved
  <1>6. ASSUME row.state = "AWAITING_HUMAN_APPROVAL", req' = [req EXCEPT ![r] = X]
        PROVE  RequestInv'
    <2>1. <<row>> \in Seq(Part) /\ <<row>>[1] = row
      BY <1>4 DEF Part
    <2>2. /\ X \in RequestRecord /\ X.pc = "writing" /\ X.c = Q.c /\ X.got = <<row>>
          /\ X.write = Q.write /\ X.answer = Q.answer /\ X.effects = Q.effects
      BY <1>1, <2>1 DEF RequestRecord
    <2> HIDE DEF X
    <2>3. Placed(r, X)
      BY <1>1, <2>2 DEF Placed, Mutating
    <2>4. Decides(X, wf)
      BY <1>4, <1>6, <2>1, <2>2 DEF Decides, Row
    <2>5. Writes(X, wf) /\ TookEffect(X, wf) /\ Tells(X) /\ Shows(X, wf)
      BY <1>1, <1>3, <2>2 DEF Writes, Tells, TookEffect, Shows
    <2>6. RequestOK(r, X, wf)
      BY <2>2, <2>3, <2>4, <2>5 DEF RequestOK
    <2> QED  BY <1>1, <1>3, <1>6, <2>2, <2>6, Moved
  <1>7. \/ \E class \in {"WF_NOT_FOUND", "WF_TERMINAL", "WF_INVALID_APPROVAL"} :
             req' = [req EXCEPT ![r] = Returned(r, Envelope(class))]
        \/ row.state = "AWAITING_HUMAN_APPROVAL" /\ req' = [req EXCEPT ![r] = X]
    <2>1. row = NoRow => row.state # "AWAITING_HUMAN_APPROVAL" /\ row.state \notin TERMINAL_STATES
      BY DEF NoRow, TERMINAL_STATES
    <2>2. row.state \in TERMINAL_STATES => row.state # "AWAITING_HUMAN_APPROVAL"
      BY DEF TERMINAL_STATES
    <2>3. CASE row = NoRow
      BY <2>1, <2>3 DEF ApprovalRead
    <2>4. CASE row.state = "AWAITING_HUMAN_APPROVAL"
      BY <2>1, <2>2, <2>4 DEF ApprovalRead
    <2>5. CASE row # NoRow /\ row.state \in TERMINAL_STATES
      BY <2>1, <2>2, <2>5 DEF ApprovalRead
    <2>6. CASE /\ row # NoRow /\ row.state # "AWAITING_HUMAN_APPROVAL"
               /\ row.state \notin TERMINAL_STATES
      BY <2>6 DEF ApprovalRead
    <2> QED  BY <2>3, <2>4, <2>5, <2>6
  <1> QED  BY <1>5, <1>6, <1>7

\* execute_approval: the row moves on from the version that was read.
LEMMA ApprovalWriteKeeps ==
  ASSUME RequestInv, NEW r \in Request, ApprovalWrite(r)
  PROVE  RequestInv'
  <1> DEFINE Q == req[r]
             row == wf[Q.c.wf]
             new == Approved(row, Q.c.action)
             X == [Returned(r, Success(Q.c)) EXCEPT !.write = new]
  <1>1. /\ RequestOK(r, Q, wf) /\ Q \in RequestRecord /\ Placed(r, Q)
        /\ Q.pc = "writing" /\ Q.c.cmd = "approve" /\ InServer(r) /\ UNCHANGED <<file, wf>>
        /\ ~ Locked(Q.c.wf)
    BY DEF RequestInv, RequestOK, ApprovalWrite, InServer
  <1>2. Q.c \in Asked(Workflow) /\ Q.c.wf \in Workflow
    BY <1>1, AsksAbout
  <1>3. Q.write = NoRow /\ Q.effects = 0
    BY <1>1 DEF RequestOK, Writes, TookEffect, RequestRecord
  <1>4. row \in Row /\ RowOK(row)
    BY <1>2 DEF RequestInv
  <1>5. CASE row.version # Q.got[1].version
    <2>1. Envelope("WF_CONFLICT") \in Answer /\ Envelope("WF_CONFLICT").status >= 400
      BY Answers
    <2>2. Envelope("WF_CONFLICT").status # 200
      BY <2>1 DEF Answer
    <2>3. req' = [req EXCEPT ![r] = Returned(r, Envelope("WF_CONFLICT"))]
      BY <1>5 DEF ApprovalWrite
    <2> QED  BY <1>1, <1>3, <2>1, <2>2, <2>3, Ends, Moved
  <1>6. CASE row.version = Q.got[1].version
    <2>1. req' = [req EXCEPT ![r] = X]
      BY <1>6 DEF ApprovalWrite
    <2>2. Q.got[1] = row /\ row.state = "AWAITING_HUMAN_APPROVAL"
      BY <1>1, <1>6 DEF RequestOK, Decides
    <2>3. new \in Row /\ new # NoRow /\ MovesOn(row, new)
      <3> DEFINE to == LookupApproval(Q.c.action).to
      <3>1. to \in {"APPROVED", "REJECTED", "GENERATING_SCENARIO"}
        BY <1>1 DEF Placed, LookupApproval, ApprovalAction, Move, Decide
      <3>2. new = [row EXCEPT !.state = to, !.version = @ + 1, !.transitions = @ + 1]
        BY DEF Approved
      <3> HIDE DEF new, to
      <3>3. to \in RowState
        BY <3>1 DEF RowState, WorkflowState, TERMINAL_STATES, TRANSIENT_STATES
      <3>4. /\ new \in Row /\ new.state = to /\ new.version = row.version + 1
            /\ new.transitions = row.transitions + 1 /\ new.scenario = row.scenario
            /\ new.review = row.review
        <4>1. row.version + 1 \in Nat /\ row.transitions + 1 \in Nat
          BY <1>4 DEF Row
        <4>2. new \in Row
          BY <1>4, <3>2, <3>3, <4>1 DEF Row
        <4> QED  BY <1>4, <3>2, <4>2 DEF Row
      <3>5. row # NoRow
        BY <2>2 DEF NoRow
      <3>6. row.version = row.transitions + 1 /\ row.scenario = row.review
            /\ row.version \in Nat /\ row.transitions \in Nat
        BY <1>4, <2>2, <3>5 DEF RowOK, Row
      <3>7. RowOK(new)
        BY <3>1, <3>4, <3>6 DEF RowOK
      <3>8. new.state # "NONE"
        BY <3>1, <3>4
      <3>9. new # NoRow
        BY <3>8 DEF NoRow
      <3> QED  BY <2>2, <3>4, <3>6, <3>7, <3>8, <3>9 DEF MovesOn
    <2> HIDE DEF new
    <2>4. Success(Q.c) \in Answer /\ Success(Q.c).class = "none"
      BY Answers
    <2>5. /\ X \in RequestRecord /\ X.pc = "returned" /\ X.c = Q.c /\ X.got = Q.got
          /\ X.write = new /\ X.answer = Success(Q.c) /\ X.effects = Q.effects
      <3>1. Returned(r, Success(Q.c)) \in RequestRecord
        BY <1>1, <2>4 DEF Returned, RequestRecord
      <3>2. /\ Returned(r, Success(Q.c)).pc = "returned" /\ Returned(r, Success(Q.c)).c = Q.c
            /\ Returned(r, Success(Q.c)).got = Q.got
            /\ Returned(r, Success(Q.c)).answer = Success(Q.c)
            /\ Returned(r, Success(Q.c)).effects = Q.effects
        BY <1>1 DEF Returned, RequestRecord
      <3> QED  BY <2>3, <3>1, <3>2 DEF RequestRecord
    <2> HIDE DEF X
    <2>6. Placed(r, X)
      BY <1>1, <2>5 DEF Placed
    <2>7. Writes(X, wf)
      BY <1>1, <1>4, <2>2, <2>3, <2>5 DEF Writes, Mutating
    <2>8. Decides(X, wf) /\ TookEffect(X, wf) /\ Tells(X) /\ Shows(X, wf)
      BY <1>1, <1>3, <2>3, <2>4, <2>5 DEF Decides, Tells, TookEffect, Shows
    <2>9. RequestOK(r, X, wf)
      BY <2>5, <2>6, <2>7, <2>8 DEF RequestOK
    <2>10. \A q \in Request : q # r /\ req[q].write # NoRow => req[q].c.wf # X.c.wf
      BY <1>1, <2>5 DEF Locked
    <2> QED  BY <1>1, <1>3, <2>1, <2>5, <2>9, <2>10, Moved
  <1> QED  BY <1>5, <1>6

\* A connection for the next statement of a read model, or none in time.
LEMMA QueryConnectionKeeps ==
  ASSUME RequestInv, NEW r \in Request, QueryConnection(r) \/ QueryTimeout(r)
  PROVE  RequestInv'
  <1> DEFINE Q == req[r]
             X == [Q EXCEPT !.pc = "query", !.conn = TRUE]
  <1>1. /\ RequestOK(r, Q, wf) /\ Q \in RequestRecord /\ Placed(r, Q)
        /\ Q.pc = "engine" /\ Q.c.cmd \notin Mutating /\ InServer(r) /\ UNCHANGED <<file, wf>>
    BY DEF RequestInv, RequestOK, QueryConnection, QueryTimeout, InServer
  <1>2. Q.write = NoRow /\ Q.effects = 0
    BY <1>1 DEF RequestOK, Writes, TookEffect, RequestRecord
  <1>3. CASE QueryConnection(r)
    <2>1. req' = [req EXCEPT ![r] = X]
      BY <1>3 DEF QueryConnection, RequestInv
    <2>2. /\ X \in RequestRecord /\ X.pc = "query" /\ X.c = Q.c /\ X.got = Q.got
          /\ X.write = Q.write /\ X.answer = Q.answer /\ X.effects = Q.effects
      BY <1>1 DEF RequestRecord
    <2> HIDE DEF X
    <2>3. Placed(r, X)
      BY <1>1, <2>2 DEF Placed
    <2>4. Decides(X, wf) /\ Writes(X, wf) /\ TookEffect(X, wf) /\ Tells(X)
      BY <1>2, <2>2 DEF Decides, Writes, Tells, TookEffect
    <2>5. Shows(X, wf)
      BY <1>1, <2>2 DEF RequestOK, Shows
    <2>6. RequestOK(r, X, wf)
      BY <2>2, <2>3, <2>4, <2>5 DEF RequestOK
    <2> QED  BY <1>1, <1>2, <2>1, <2>2, <2>6, Moved
  <1>4. CASE QueryTimeout(r)
    <2>1. Envelope("API_INTERNAL") \in Answer /\ Envelope("API_INTERNAL").status >= 400
      BY Answers
    <2>2. Envelope("API_INTERNAL").status # 200
      BY <2>1 DEF Answer
    <2>3. req' = [req EXCEPT ![r] = Returned(r, Envelope("API_INTERNAL"))]
      BY <1>4 DEF QueryTimeout
    <2> QED  BY <1>1, <1>2, <2>1, <2>2, <2>3, Ends, Moved
  <1> QED  BY <1>3, <1>4

\* What one more statement adds to what an output has read.
LEMMA ShowsMore ==
  ASSUME NEW W, NEW Q, NEW X, Shows(Q, W), NEW row \in Row, RowOK(row), row # NoRow,
         row = W[Q.c.wf], X.c = Q.c, Q.c.cmd = "output", Q.got \in Seq(Part), Len(Q.got) < 4,
         X.got = Append(Q.got, Value(row, Parts("output")[Len(Q.got) + 1])),
         X.answer.status = 200 => Len(X.got) = 4
  PROVE  Shows(X, W)
  <1> DEFINE n == Len(Q.got) + 1
             v == Value(row, Parts("output")[n])
  <1>1. n \in 1 .. 4 /\ Len(X.got) = n /\ X.got[n] = v
        /\ \A i \in 1 .. Len(Q.got) : X.got[i] = Q.got[i]
    OBVIOUS
  <1>2. /\ row.state # "NONE" /\ row.version = row.transitions + 1
        /\ row.version \in Nat /\ row.transitions \in Nat /\ row.state \in RowState
    BY DEF RowOK, Row
  <1>3. /\ n = 1 => v = <<row.state, row.version>>
        /\ n = 2 => v = row.scenario
        /\ n = 3 => v = row.review
        /\ n = 4 => v = row.transitions
    BY DEF Parts, Value
  <1>4. Len(Q.got) \in Nat /\ n = Len(Q.got) + 1
    OBVIOUS
  <1>5. n > 1 => LET approved == Q.got[1][1] = "APPROVED"
                 IN /\ X.got[1] = Q.got[1]
                    /\ n > 2 => X.got[2] = Q.got[2]
                    /\ n > 3 => X.got[3] = Q.got[3]
                    /\ Q.got[1] \in RowState \X Nat
                    /\ row.state # "NONE" /\ Q.got[1][2] <= row.transitions + 1
                    /\ approved => row.state = "APPROVED" /\ Q.got[1][2] = row.version
                    /\ n > 2 /\ approved => Q.got[2] = row.scenario
                    /\ n > 3 /\ approved => Q.got[3] = row.review
    BY <1>1, <1>4 DEF Shows
  <1> HIDE DEF n, v
  <1>6. CASE n = 1
    <2>1. X.got[1] = <<row.state, row.version>>
      BY <1>1, <1>3, <1>6
    <2>2. X.got[1] \in RowState \X Nat /\ X.got[1][1] = row.state /\ X.got[1][2] = row.version
      <3> DEFINE pair == <<row.state, row.version>>
      <3>1. pair \in RowState \X Nat /\ pair[1] = row.state /\ pair[2] = row.version
        BY <1>2
      <3> HIDE DEF pair
      <3>2. X.got[1] = pair
        BY <2>1 DEF pair
      <3> QED  BY <3>1, <3>2
    <2> QED  BY <1>1, <1>2, <1>6, <2>2 DEF Shows
  <1>7. CASE n = 2
    BY <1>1, <1>3, <1>5, <1>7 DEF Shows
  <1>8. CASE n = 3
    BY <1>1, <1>3, <1>5, <1>8 DEF Shows
  <1>9. CASE n = 4
    BY <1>1, <1>2, <1>3, <1>5, <1>9 DEF Shows
  <1> QED  BY <1>1, <1>6, <1>7, <1>8, <1>9

\* A statement of a read model.
LEMMA QueryKeeps ==
  ASSUME RequestInv, NEW r \in Request, Query(r)
  PROVE  RequestInv'
  <1> DEFINE Q == req[r]
             row == wf[Q.c.wf]
             n == Len(Q.got) + 1
             got == Append(Q.got, Value(row, Parts(Q.c.cmd)[n]))
             Y == IF row = NoRow THEN Returned(r, Envelope("WF_NOT_FOUND"))
                  ELSE IF n < Len(Parts(Q.c.cmd)) THEN [Q EXCEPT !.pc = "engine", !.got = got]
                  ELSE [Returned(r, Success(Q.c)) EXCEPT !.got = got]
             X == [Y EXCEPT !.conn = FALSE]
  <1>1. /\ RequestOK(r, Q, wf) /\ Q \in RequestRecord /\ Placed(r, Q)
        /\ Q.pc = "query" /\ InServer(r) /\ UNCHANGED <<file, wf>>
        /\ req' = [req EXCEPT ![r] = X]
    BY DEF RequestInv, RequestOK, Query, InServer
  <1>2. Q.c \in Asked(Workflow) /\ Q.c.wf \in Workflow
    BY <1>1, AsksAbout
  <1>3. Q.write = NoRow /\ Q.effects = 0 /\ Q.got \in Seq(Part)
    BY <1>1 DEF RequestOK, Writes, TookEffect, RequestRecord
  <1>4. row \in Row /\ RowOK(row)
    BY <1>2 DEF RequestInv
  <1>5. Q.c.cmd \in ReadModels /\ Q.c.cmd \notin Mutating /\ Len(Q.got) < Len(Parts(Q.c.cmd))
    BY <1>1 DEF Placed
  <1>6. Len(Parts(Q.c.cmd)) \in 1 .. 4 /\ n \in 1 .. Len(Parts(Q.c.cmd)) /\ Len(Q.got) \in Nat
    BY <1>3, <1>5, PartsOfReadModels
  <1>7. got \in Seq(Part) /\ Len(got) = n
    <2>1. Parts(Q.c.cmd)[n] \in {"row", "transitions", "scenario", "review"}
      BY <1>5, <1>6, PartsOfReadModels
    <2>2. Value(row, Parts(Q.c.cmd)[n]) \in Part
      <3>1. <<row.state, row.version>> \in RowState \X Nat /\ row.transitions \in Nat
            /\ row.scenario \in Nat /\ row.review \in Nat
        BY <1>4 DEF Row
      <3> QED  BY <2>1, <3>1 DEF Value, Part
    <2> QED  BY <1>3, <2>2
  <1> HIDE DEF got
  <1>8. /\ Envelope("WF_NOT_FOUND") \in Answer /\ Envelope("WF_NOT_FOUND").status # 200
        /\ Success(Q.c) \in Answer
    <2>1. Envelope("WF_NOT_FOUND") \in Answer /\ Envelope("WF_NOT_FOUND").status >= 400
      BY Answers
    <2> QED  BY <2>1, Answers DEF Answer
  <1>9. /\ Y \in RequestRecord /\ Y.c = Q.c /\ Y.write = Q.write /\ Y.effects = Q.effects
        /\ \/ /\ row = NoRow /\ Y.pc = "returned" /\ Y.got = Q.got
              /\ Y.answer = Envelope("WF_NOT_FOUND")
           \/ /\ row # NoRow /\ n < Len(Parts(Q.c.cmd)) /\ Y.pc = "engine" /\ Y.got = got
              /\ Y.answer = Q.answer
           \/ /\ row # NoRow /\ ~ (n < Len(Parts(Q.c.cmd))) /\ Y.pc = "returned" /\ Y.got = got
    <2>1. ASSUME NEW a \in Answer
          PROVE  /\ Returned(r, a) \in RequestRecord /\ Returned(r, a).pc = "returned"
                 /\ Returned(r, a).c = Q.c /\ Returned(r, a).got = Q.got
                 /\ Returned(r, a).write = Q.write /\ Returned(r, a).effects = Q.effects
                 /\ Returned(r, a).answer = a
      <3>1. Returned(r, a) \in RequestRecord
        BY <1>1 DEF Returned, RequestRecord
      <3> QED  BY <1>1, <3>1 DEF Returned, RequestRecord
    <2>2. CASE row = NoRow
      BY <1>8, <2>1, <2>2
    <2>3. CASE row # NoRow /\ n < Len(Parts(Q.c.cmd))
      <3>1. Y = [Q EXCEPT !.pc = "engine", !.got = got]
        BY <2>3
      <3> HIDE DEF Y
      <3>2. Y \in RequestRecord
        BY <1>1, <1>7, <3>1 DEF RequestRecord
      <3> QED  BY <1>1, <2>3, <3>1, <3>2 DEF RequestRecord
    <2>4. CASE row # NoRow /\ ~ (n < Len(Parts(Q.c.cmd)))
      <3> DEFINE Z == Returned(r, Success(Q.c))
      <3>1. Y = [Z EXCEPT !.got = got]
        BY <2>4
      <3>2. /\ Z \in RequestRecord /\ Z.pc = "returned" /\ Z.c = Q.c /\ Z.write = Q.write
            /\ Z.effects = Q.effects
        BY <1>8, <2>1
      <3> HIDE DEF Y, Z
      <3>3. Y \in RequestRecord
        BY <1>7, <3>1, <3>2 DEF RequestRecord
      <3> QED  BY <2>4, <3>1, <3>2, <3>3 DEF RequestRecord
    <2> QED  BY <2>2, <2>3, <2>4
  <1> HIDE DEF Y
  <1>10. /\ X \in RequestRecord /\ X.pc = Y.pc /\ X.c = Y.c /\ X.got = Y.got
         /\ X.write = Y.write /\ X.answer = Y.answer /\ X.effects = Y.effects
    <2>1. X \in RequestRecord
      BY <1>9 DEF RequestRecord
    <2> QED  BY <1>9, <2>1 DEF RequestRecord
  <1> HIDE DEF X
  <1>11. Placed(r, X)
    BY <1>1, <1>5, <1>6, <1>7, <1>9, <1>10 DEF Placed, Mutating
  <1>12. Decides(X, wf) /\ Writes(X, wf) /\ TookEffect(X, wf) /\ Tells(X)
    BY <1>3, <1>5, <1>9, <1>10 DEF Decides, Writes, Tells, TookEffect, Mutating
  <1>13. Shows(X, wf)
    <2> SUFFICES ASSUME Q.c.cmd = "output" PROVE Shows(X, wf)
      BY <1>9, <1>10 DEF Shows
    <2>1. Shows(Q, wf)
      BY <1>1 DEF RequestOK
    <2>2. Len(Parts("output")) = 4
      BY DEF Parts
    <2>3. CASE row = NoRow
      BY <1>8, <1>9, <1>10, <2>1, <2>3 DEF Shows
    <2>4. CASE row # NoRow
      <3>1. X.got = Append(Q.got, Value(row, Parts("output")[Len(Q.got) + 1]))
        BY <1>9, <1>10, <2>4 DEF got
      <3>2. Len(Q.got) < 4 /\ X.c = Q.c
        BY <1>5, <1>9, <1>10, <2>2
      <3>3. X.answer.status = 200 => Len(X.got) = 4
        BY <1>6, <1>7, <1>9, <1>10, <2>1, <2>2, <2>4, <3>2 DEF Shows
      <3> QED  BY <1>3, <1>4, <2>1, <2>4, <3>1, <3>2, <3>3, ShowsMore
    <2> QED  BY <2>3, <2>4
  <1>14. RequestOK(r, X, wf)
    BY <1>10, <1>11, <1>12, <1>13 DEF RequestOK
  <1> QED  BY <1>1, <1>3, <1>9, <1>10, <1>14, Moved

\* The loop answers, and whatever the answer is, commits.
LEMMA FinishKeeps ==
  ASSUME RequestInv, NEW r \in Request, Finish(r)
  PROVE  RequestInv'
  <1> DEFINE Q == req[r]
             e == IF Q.write = NoRow THEN Q.effects ELSE Q.effects + 1
             X == [Answered(r, Q.answer) EXCEPT
                     !.write = NoRow, !.effects = IF Q.write = NoRow THEN @ ELSE @ + 1]
  <1>1. /\ RequestOK(r, Q, wf) /\ Q \in RequestRecord /\ Placed(r, Q)
        /\ Q.pc = "returned" /\ InServer(r) /\ file' = file /\ Committed(r)
    BY DEF RequestInv, RequestOK, Finish, InServer
  <1>2. Q.effects = 0 /\ e \in {0, 1} /\ (Q.write # NoRow => e = 1) /\ (Q.write = NoRow => e = 0)
    BY <1>1 DEF RequestOK, TookEffect, RequestRecord
  <1>3. Answered(r, Q.answer) \in RequestRecord
        /\ Answered(r, Q.answer).pc = "answered" /\ Answered(r, Q.answer).c = Q.c
        /\ Answered(r, Q.answer).got = Q.got /\ Answered(r, Q.answer).answer = Q.answer
        /\ Answered(r, Q.answer).effects = Q.effects
        /\ Answered(r, Q.answer).unlogged = Q.unlogged
    <2>1. Answered(r, Q.answer) \in RequestRecord
      BY <1>1 DEF Answered, RequestRecord
    <2> QED  BY <1>1, <2>1 DEF Answered, RequestRecord
  <1>4. req' = [req EXCEPT ![r] = X]
    BY DEF Finish
  <1>5. /\ X \in RequestRecord /\ X.pc = "answered" /\ X.c = Q.c /\ X.got = Q.got
        /\ X.write = NoRow /\ X.answer = Q.answer /\ X.effects = e /\ X.unlogged = Q.unlogged
    <2> DEFINE Y == Answered(r, Q.answer)
    <2>1. X = [Y EXCEPT !.write = NoRow, !.effects = e]
      BY <1>3
    <2> HIDE DEF X, Y, e
    <2>2. Y \in RequestRecord /\ Y.pc = "answered" /\ Y.c = Q.c /\ Y.got = Q.got
          /\ Y.answer = Q.answer /\ Y.unlogged = Q.unlogged
      BY <1>3 DEF Y
    <2> QED  BY <1>2, <2>1, <2>2, Rows DEF RequestRecord
  <1> HIDE DEF X, e
  <1>6. CASE Q.write = NoRow
    <2>1. wf' = wf
      BY <1>1, <1>6 DEF Committed
    <2>2. Q.answer.status \in Nat
      BY <1>1 DEF RequestRecord, Answer
    <2>3. Q.c.cmd \in Mutating => Q.answer.status >= 400
      BY <1>1, <1>6, <2>2 DEF RequestOK, Tells
    <2>4. Q.answer.status = 200 /\ Q.c.cmd = "output" => Len(Q.got) = 4
      BY <1>1 DEF RequestOK, Shows
    <2>5. RequestOK(r, X, wf)
      BY <1>1, <1>2, <1>5, <1>6, <2>3, <2>4, EndsOK
    <2> QED  BY <1>1, <1>2, <1>4, <1>5, <1>6, <2>1, <2>5, Moved
  <1>7. CASE Q.write # NoRow
    <2>1. wf' = [wf EXCEPT ![Q.c.wf] = Q.write]
      BY <1>1, <1>7 DEF Committed
    <2>2. Q.answer.class = "none" \/ Q.unlogged
      BY <1>1, <1>7 DEF RequestOK, Writes, Tells
    <2> QED  BY <1>1, <1>2, <1>4, <1>5, <1>7, <2>1, <2>2, Commits
  <1> QED  BY <1>6, <1>7

\* The commit raises, with its effect or without.
LEMMA CommitFailsKeeps ==
  ASSUME RequestInv, NEW r \in Request, CommitFails(r)
  PROVE  RequestInv'
  <1> DEFINE Q == req[r]
             Y == Answered(r, Bare500)
  <1>1. /\ RequestOK(r, Q, wf) /\ Q \in RequestRecord /\ Placed(r, Q)
        /\ Q.pc = "returned" /\ InServer(r) /\ file' = file
    BY DEF RequestInv, RequestOK, CommitFails, InServer
  <1>2. Q.effects = 0
    BY <1>1 DEF RequestOK, TookEffect, RequestRecord
  <1>3. Bare500 \in Answer /\ Bare500.status = 500 /\ Bare500.class = "none"
    BY Answers
  <1>4. /\ Y \in RequestRecord /\ Y.pc = "answered" /\ Y.c = Q.c /\ Y.got = Q.got
        /\ Y.answer = Bare500 /\ Y.effects = 0
    <2>1. Y \in RequestRecord
      BY <1>1, <1>3 DEF Answered, RequestRecord
    <2> QED  BY <1>1, <1>2, <2>1 DEF Answered, RequestRecord
  <1>5. CASE UNCHANGED wf /\ req' = [req EXCEPT ![r] = [Y EXCEPT !.write = NoRow]]
    <2> DEFINE X == [Y EXCEPT !.write = NoRow]
    <2> HIDE DEF Y
    <2>1. /\ X \in RequestRecord /\ X.pc = "answered" /\ X.c = Q.c /\ X.got = Q.got
          /\ X.write = NoRow /\ X.answer = Bare500 /\ X.effects = 0
      BY <1>4, Rows DEF RequestRecord
    <2>2. req' = [req EXCEPT ![r] = X]
      BY <1>5
    <2> HIDE DEF X
    <2>3. RequestOK(r, X, wf)
      BY <1>1, <1>3, <2>1, EndsOK
    <2> QED  BY <1>1, <1>5, <2>1, <2>2, <2>3, Moved
  <1>6. CASE /\ Q.write # NoRow /\ Committed(r)
             /\ req' = [req EXCEPT ![r] = [Y EXCEPT !.write = NoRow, !.effects = @ + 1]]
    <2> DEFINE X == [Y EXCEPT !.write = NoRow, !.effects = @ + 1]
    <2>5. X = [Y EXCEPT !.write = NoRow, !.effects = 1]
      BY <1>4
    <2> HIDE DEF Y
    <2>1. /\ X \in RequestRecord /\ X.pc = "answered" /\ X.c = Q.c /\ X.got = Q.got
          /\ X.write = NoRow /\ X.answer = Bare500 /\ X.effects = 1
      <3> HIDE DEF X
      <3> QED  BY <1>4, <2>5, Rows DEF RequestRecord
    <2>2. req' = [req EXCEPT ![r] = X]
      BY <1>6
    <2>3. wf' = [wf EXCEPT ![Q.c.wf] = Q.write]
      BY <1>6 DEF Committed
    <2> HIDE DEF X
    <2>4. X.answer.class = "none"
      BY <1>3, <2>1
    <2> QED  BY <1>1, <1>6, <2>1, <2>2, <2>3, <2>4, Commits
  <1> QED  BY <1>5, <1>6 DEF CommitFails

\* A statement raises: nothing has been written, and nothing will be.
LEMMA StatementFailsKeeps ==
  ASSUME RequestInv, NEW r \in Request, StatementFails(r)
  PROVE  RequestInv'
  <1> DEFINE Q == req[r]
             mutating == Q.c.cmd \in Mutating
             Y == Returned(r, Envelope("API_INTERNAL"))
             X == [Y EXCEPT !.conn = @ /\ mutating]
  <1>1. /\ RequestOK(r, Q, wf) /\ Q \in RequestRecord
        /\ Q.pc \in {"engine", "writing", "query"} /\ InServer(r) /\ UNCHANGED <<file, wf>>
        /\ req' = [req EXCEPT ![r] = X]
    BY DEF RequestInv, RequestOK, StatementFails, InServer
  <1>2. Q.write = NoRow
    BY <1>1 DEF RequestOK, Writes
  <1>3. /\ Envelope("API_INTERNAL") \in Answer /\ Envelope("API_INTERNAL").status >= 400
        /\ Envelope("API_INTERNAL").status # 200
    <2>1. Envelope("API_INTERNAL") \in Answer /\ Envelope("API_INTERNAL").status >= 400
      BY Answers
    <2> QED  BY <2>1 DEF Answer
  <1>4. RequestOK(r, Y, wf) /\ Y.effects = 0 /\ Y.write = NoRow
    BY <1>1, <1>2, <1>3, Ends
  <1>5. Y \in RequestRecord
    BY <1>4 DEF RequestOK
  <1> HIDE DEF Y, mutating
  <1>6. (Y.conn /\ mutating) \in BOOLEAN
    OBVIOUS
  <1>7. /\ X \in RequestRecord /\ X.pc = Y.pc /\ X.c = Y.c /\ X.got = Y.got
        /\ X.write = Y.write /\ X.answer = Y.answer /\ X.effects = Y.effects
        /\ X.unlogged = Y.unlogged
    <2>1. X = [Y EXCEPT !.conn = (Y.conn /\ mutating)]
      OBVIOUS
    <2> HIDE DEF X
    <2> QED  BY <1>5, <1>6, <2>1 DEF RequestRecord
  <1> HIDE DEF X
  <1>8. Placed(r, X) /\ Tells(X)
    BY <1>4, <1>7 DEF RequestOK, Placed, Tells
  <1>9. Decides(X, wf) /\ Writes(X, wf) /\ TookEffect(X, wf) /\ Shows(X, wf)
    BY <1>4, <1>7 DEF RequestOK, Decides, Writes, TookEffect, Shows
  <1> QED  BY <1>1, <1>4, <1>7, <1>8, <1>9, Moved DEF RequestOK

\* The line about an effect is not written: the write stays as it is.
LEMMA LogFailsKeeps ==
  ASSUME RequestInv, NEW r \in Request, LogFails(r)
  PROVE  RequestInv'
  <1> DEFINE Q == req[r]
             X == [Q EXCEPT !.answer = Envelope("API_INTERNAL"), !.unlogged = TRUE]
  <1>1. /\ RequestOK(r, Q, wf) /\ Q \in RequestRecord
        /\ Q.pc = "returned" /\ Q.write # NoRow /\ UNCHANGED <<file, wf>>
        /\ req' = [req EXCEPT ![r] = X]
    BY DEF RequestInv, RequestOK, LogFails
  <1>2. Envelope("API_INTERNAL") \in Answer /\ Envelope("API_INTERNAL").status >= 400
    BY Answers
  <1>3. /\ X \in RequestRecord /\ X.pc = Q.pc /\ X.c = Q.c /\ X.got = Q.got
        /\ X.write = Q.write /\ X.answer = Envelope("API_INTERNAL")
        /\ X.effects = Q.effects /\ X.unlogged
    BY <1>1, <1>2 DEF RequestRecord
  <1> HIDE DEF X
  <1>4. Q.effects = 0 /\ Q.c.cmd \in Mutating
    BY <1>1 DEF RequestOK, TookEffect, Writes, RequestRecord
  <1>5. Placed(r, X) /\ Decides(X, wf) /\ Writes(X, wf) /\ TookEffect(X, wf) /\ Tells(X)
    <2>1. Placed(r, X) /\ Decides(X, wf) /\ Writes(X, wf) /\ TookEffect(X, wf)
      BY <1>1, <1>3 DEF RequestOK, Placed, Decides, Writes, TookEffect
    <2>2. X.answer.status >= 400 /\ X.answer.status \in Nat
      BY <1>2, <1>3 DEF Answer
    <2> QED  BY <1>1, <1>3, <2>1, <2>2 DEF Tells
  <1>6. Shows(X, wf)
    BY <1>3, <1>4 DEF Shows, Mutating
  <1>7. RequestOK(r, X, wf)
    BY <1>3, <1>5, <1>6 DEF RequestOK
  <1>8. \A q \in Request : q # r /\ req[q].write # NoRow => req[q].c.wf # X.c.wf
    BY <1>1, <1>3 DEF RequestInv, OneWriter
  <1> QED  BY <1>1, <1>3, <1>4, <1>7, <1>8, Moved

\* A worker moves a row on that nobody has locked.
LEMMA WorkerKeeps ==
  ASSUME RequestInv, NEW w \in Workflow, Worker(w)
  PROVE  RequestInv'
  <1> DEFINE row == wf[w]
  <1>1. row \in Row /\ RowOK(row) /\ wf \in [Workflow -> Row]
    BY DEF RequestInv
  <1>2. /\ row.version \in Nat /\ row.transitions \in Nat /\ row.scenario \in Nat
        /\ row.review \in Nat
    BY <1>1 DEF Row
  <1>3. {"SELECTING_TOPIC", "REVIEWING", "FAILED"} \subseteq RowState
    BY DEF RowState, WorkflowState, TRANSIENT_STATES, TERMINAL_STATES
  <1>4. ASSUME NEW new \in Row,
               row.state \in {"COLLECTING", "GENERATING_SCENARIO", "REVIEWING"},
               new.state \in {"SELECTING_TOPIC", "REVIEWING", "FAILED"},
               \/ new.version = row.version + 1 /\ new.transitions = row.transitions + 1
               \/ new.version = row.version + 2 /\ new.transitions = row.transitions + 2,
               wf' = [wf EXCEPT ![w] = new]
        PROVE  RequestInv'
    <2>1. row # NoRow
      BY <1>4 DEF NoRow
    <2>2. row.version = row.transitions + 1
      BY <1>1, <2>1 DEF RowOK
    <2>3. RowOK(new)
      BY <1>2, <1>4, <2>2 DEF RowOK
    <2>4. MovesOn(row, new)
      BY <1>2, <1>4, <2>3 DEF MovesOn
    <2>5. /\ wf' \in [Workflow -> Row] /\ wf'[w] = new
          /\ \A x \in Workflow : x # w => wf'[x] = wf[x]
      BY <1>1, <1>4
    <2>6. \A x \in Workflow : Later(wf[x], wf'[x])
      BY <2>4, <2>5 DEF Later
    <2>7. ASSUME NEW r \in Request, req[r].write # NoRow
          PROVE  wf'[req[r].c.wf] = wf[req[r].c.wf]
      <3>1. req[r].c.wf # w
        BY <2>7 DEF Worker, Locked
      <3>2. req[r].pc = "returned" /\ req[r] \in RequestRecord /\ Placed(r, req[r])
        BY <2>7 DEF RequestInv, RequestOK, Writes
      <3>3. req[r].c.wf \in Workflow
        BY <3>2, AsksAbout
      <3> QED  BY <2>5, <3>1, <3>3
    <2> QED  BY <2>5, <2>6, <2>7, RowsMove DEF Worker
  <1>5. CASE /\ row.state = "COLLECTING"
             /\ wf' = [wf EXCEPT ![w] = [row EXCEPT !.state = "SELECTING_TOPIC",
                                          !.version = @ + 2, !.transitions = @ + 2]]
    <2> DEFINE new == [row EXCEPT !.state = "SELECTING_TOPIC", !.version = @ + 2,
                                  !.transitions = @ + 2]
    <2>1. row.version + 2 \in Nat /\ row.transitions + 2 \in Nat
      BY <1>2
    <2>2. new \in Row
      BY <1>1, <1>3, <2>1 DEF Row
    <2>3. /\ new.state = "SELECTING_TOPIC" /\ new.version = row.version + 2
          /\ new.transitions = row.transitions + 2
      BY <1>1 DEF Row
    <2> HIDE DEF new
    <2>4. wf' = [wf EXCEPT ![w] = new]
      BY <1>5 DEF new
    <2> QED  BY <1>4, <1>5, <2>2, <2>3, <2>4
  <1>6. CASE /\ row.state = "GENERATING_SCENARIO"
             /\ wf' = [wf EXCEPT ![w] =
                         [[row EXCEPT !.state = "REVIEWING", !.version = @ + 2,
                                      !.transitions = @ + 2] EXCEPT !.scenario = @ + 1]]
    <2> DEFINE mid == [row EXCEPT !.state = "REVIEWING", !.version = @ + 2,
                                  !.transitions = @ + 2]
               new == [mid EXCEPT !.scenario = @ + 1]
    <2>1. row.version + 2 \in Nat /\ row.transitions + 2 \in Nat /\ row.scenario + 1 \in Nat
      BY <1>2
    <2>2. mid \in Row
      BY <1>1, <1>3, <2>1 DEF Row
    <2>3. /\ mid.state = "REVIEWING" /\ mid.version = row.version + 2
          /\ mid.transitions = row.transitions + 2 /\ mid.scenario = row.scenario
      BY <1>1 DEF Row
    <2>4. wf' = [wf EXCEPT ![w] = new]
      BY <1>6
    <2> HIDE DEF mid
    <2>5. new \in Row
      BY <2>1, <2>2, <2>3 DEF Row
    <2>6. new.state = mid.state /\ new.version = mid.version /\ new.transitions = mid.transitions
      BY <2>2 DEF Row
    <2> HIDE DEF new
    <2> QED  BY <1>4, <1>6, <2>3, <2>4, <2>5, <2>6
  <1>7. CASE /\ row.state = "REVIEWING"
             /\ wf' = [wf EXCEPT ![w] = [row EXCEPT !.state = "FAILED",
                                          !.version = @ + 1, !.transitions = @ + 1]]
    <2> DEFINE new == [row EXCEPT !.state = "FAILED", !.version = @ + 1,
                                  !.transitions = @ + 1]
    <2>1. row.version + 1 \in Nat /\ row.transitions + 1 \in Nat
      BY <1>2
    <2>2. new \in Row
      BY <1>1, <1>3, <2>1 DEF Row
    <2>3. /\ new.state = "FAILED" /\ new.version = row.version + 1
          /\ new.transitions = row.transitions + 1
      BY <1>1 DEF Row
    <2> HIDE DEF new
    <2>4. wf' = [wf EXCEPT ![w] = new]
      BY <1>7 DEF new
    <2> QED  BY <1>4, <1>7, <2>2, <2>3, <2>4
  <1> QED  BY <1>5, <1>6, <1>7 DEF Worker

\* The process ends, or nobody listens: sockets are closed.
LEMMA DropKeeps ==
  ASSUME RequestInv, DropAll, UNCHANGED <<file, wf>>
  PROVE  RequestInv'
  <1>1. \A r \in Request : req'[r] = IF InServer(r) THEN Lost(r) ELSE req[r]
    BY DEF DropAll
  <1>2. ASSUME NEW r \in Request
        PROVE  /\ RequestOK(r, req'[r], wf) /\ req'[r].c = req[r].c
               /\ req'[r].write # NoRow => req'[r] = req[r]
               /\ req'[r].effects = 1 => req'[r] = req[r]
    BY <1>1, LostOK DEF RequestInv
  <1>3. req' \in [Request -> RequestRecord]
    BY <1>2 DEF DropAll, RequestOK
  <1>4. OneWriter'
    BY <1>2 DEF RequestInv, OneWriter
  <1>5. DecidedOnce'
    <2> SUFFICES ASSUME NEW q \in Request, NEW s \in Request, q # s,
                        req'[q].effects = 1, req'[s].effects = 1, req'[q].c.wf = req'[s].c.wf
                 PROVE  /\ ~ (req'[q].c.cmd = "initiate" /\ req'[s].c.cmd = "initiate")
                        /\ (req'[q].c.cmd = "approve" /\ req'[s].c.cmd = "approve" =>
                              req'[q].got[1].version # req'[s].got[1].version)
      BY DEF DecidedOnce
    <2>1. req'[q] = req[q] /\ req'[s] = req[s]
      BY <1>2
    <2> QED  BY <2>1 DEF RequestInv, DecidedOnce
  <1> QED  BY <1>2, <1>3, <1>4, <1>5 DEF RequestInv

------------------------------------------------------------------------------
LEMMA RequestInit == Init => RequestInv
  <1> SUFFICES ASSUME Init PROVE RequestInv
    OBVIOUS
  <1>1. wf \in [Workflow -> Row] /\ \A w \in Workflow : RowOK(wf[w])
    BY Rows DEF Init
  <1>2. NoRequest \in RequestRecord
    <2>1. <<>> \in Seq(Part) /\ NoRow \in Row /\ Bare500 \in Answer
      BY Rows, Answers
    <2> QED  BY <2>1 DEF NoRequest, RequestRecord
  <1>3. /\ NoRequest.pc = "none" /\ NoRequest.c.cmd = "none" /\ NoRequest.write = NoRow
        /\ NoRequest.effects = 0 /\ NoRequest.got = <<>> /\ NoRequest.answer = Bare500
    BY DEF NoRequest
  <1>4. \A r \in Request : RequestOK(r, NoRequest, wf)
    <2> TAKE r \in Request
    <2>1. Placed(r, NoRequest)
      BY <1>3 DEF Placed
    <2>2. Decides(NoRequest, wf) /\ Writes(NoRequest, wf) /\ TookEffect(NoRequest, wf)
          /\ Tells(NoRequest) /\ Shows(NoRequest, wf)
      BY <1>3 DEF Decides, Writes, TookEffect, Tells, Shows, Mutating
    <2> QED  BY <1>2, <2>1, <2>2 DEF RequestOK
  <1>5. OneWriter /\ DecidedOnce
    BY <1>3 DEF Init, OneWriter, DecidedOnce
  <1> QED  BY <1>1, <1>2, <1>4, <1>5 DEF Init, RequestInv

LEMMA RequestStep == RequestInv /\ [Next]_vars => RequestInv'
  <1> SUFFICES ASSUME RequestInv, [Next]_vars PROVE RequestInv'
    OBVIOUS
  <1>1. CASE UNCHANGED vars
    BY <1>1 DEF vars, RequestInv, OneWriter, DecidedOnce
  <1>2. CASE LoadConfig \/ Wire \/ Stop
    BY <1>2 DEF LoadConfig, Wire, Stop, RequestInv, OneWriter, DecidedOnce
  <1>3. CASE Teardown \/ Kill
    BY <1>3, DropKeeps DEF Teardown, Kill
  <1>4. ASSUME NEW r \in Request, NEW c \in Commands[file][r], Start(r, c) PROVE RequestInv'
    BY <1>4, StartKeeps
  <1>5. ASSUME NEW r \in Request, Refused(r) PROVE RequestInv'
    <2>1. InServer(r) /\ req' = [req EXCEPT ![r] = Lost(r)] /\ UNCHANGED <<file, wf>>
      BY <1>5 DEF Refused, InServer
    <2> QED  BY <2>1, LostOK, Moved
  <1>6. ASSUME NEW r \in Request, LoopStep(r) PROVE RequestInv'
    BY <1>6, LoopKeeps, FinishKeeps DEF LoopStep
  <1>7. ASSUME NEW r \in Request, ThreadStep(r) PROVE RequestInv'
    BY <1>7, InitiateReadKeeps, InitiateWriteKeeps, ApprovalReadKeeps, ApprovalWriteKeeps,
       QueryConnectionKeeps, QueryKeeps DEF ThreadStep
  <1>8. ASSUME NEW r \in Request, CommitFails(r) \/ StatementFails(r) \/ LogFails(r)
        PROVE  RequestInv'
    BY <1>8, CommitFailsKeeps, StatementFailsKeeps, LogFailsKeeps
  <1>9. ASSUME NEW w \in Workflow, Worker(w) PROVE RequestInv'
    BY <1>9, WorkerKeeps
  <1> QED
    BY <1>1, <1>2, <1>3, <1>4, <1>5, <1>6, <1>7, <1>8, <1>9 DEF Next

\* Approvals that are sent again, or by two humans, decide once, and an id
\* is given to one workflow only, however many clients there are: the
\* conditional UPDATE of execute_approval and the insert of create_workflow.
THEOREM DecisionsAreTakenOnce == Spec => []DecidedOnce
  <1>1. RequestInv => DecidedOnce
    BY DEF RequestInv
  <1> QED  BY RequestInit, RequestStep, <1>1, PTL DEF Spec

\* A client that is told of a success had its effect, and one that is given
\* an error class had none: wrap_mutating commits after either.  Only when
\* the line about an effect cannot be logged is the answer an error too.
THEOREM AnswersAreTrue == Spec => []AnswerTellsEffect
  <1>1. RequestInv => AnswerTellsEffect
    <2> SUFFICES ASSUME RequestInv, NEW r \in Request, req[r].c.cmd \in Mutating
                 PROVE  /\ req[r].pc = "answered" =>
                             /\ ExitCode(req[r].answer) = "SUCCESS" => req[r].effects = 1
                             /\ req[r].answer.class # "none" /\ ~ req[r].unlogged =>
                                  req[r].effects = 0
                        /\ req[r].pc = "usage" => req[r].effects = 0
      BY DEF AnswerTellsEffect
    <2>1. Tells(req[r]) /\ TookEffect(req[r], wf) /\ req[r].effects \in {0, 1}
      BY DEF RequestInv, RequestOK, RequestRecord
    <2> QED  BY <2>1 DEF Tells, TookEffect, ExitCode
  <1> QED  BY RequestInit, RequestStep, <1>1, PTL DEF Spec

\* An output that is shown, part by part and without a transaction, is never
\* ahead of its history, and once APPROVED shows what was approved.
THEOREM OutputsAreConsistent == Spec => []OutputNotBehind
  <1>1. RequestInv => OutputNotBehind
    <2> SUFFICES ASSUME RequestInv, NEW r \in Request, req[r].c.cmd = "output",
                        req[r].answer.status = 200
                 PROVE  LET row == wf[req[r].c.wf]
                            shown == [i \in {Parts("output")[j] : j \in 1 .. 4} |->
                                        req[r].got[CHOOSE j \in 1 .. 4 : Parts("output")[j] = i]]
                        IN /\ shown["transitions"] >= shown["row"][2] - 1
                           /\ shown["row"][1] = "APPROVED" =>
                                /\ shown["transitions"] = shown["row"][2] - 1
                                /\ shown["scenario"] = row.scenario
                                /\ shown["review"] = shown["scenario"]
      BY DEF OutputNotBehind
    <2> DEFINE Q == req[r]
               row == wf[Q.c.wf]
               at(i) == CHOOSE j \in 1 .. 4 : Parts("output")[j] = i
               shown == [i \in {Parts("output")[j] : j \in 1 .. 4} |-> Q.got[at(i)]]
    <2>1. /\ Parts("output")[1] = "row" /\ Parts("output")[2] = "scenario"
          /\ Parts("output")[3] = "review" /\ Parts("output")[4] = "transitions"
      BY DEF Parts
    <2>2. at("row") = 1 /\ at("scenario") = 2 /\ at("review") = 3 /\ at("transitions") = 4
      <3>1. \A i \in {"row", "scenario", "review", "transitions"} :
              at(i) \in 1 .. 4 /\ Parts("output")[at(i)] = i
        BY <2>1
      <3> QED  BY <2>1, <3>1
    <2> HIDE DEF at
    <2>3. /\ shown["row"] = Q.got[1] /\ shown["scenario"] = Q.got[2]
          /\ shown["review"] = Q.got[3] /\ shown["transitions"] = Q.got[4]
      <3>1. {"row", "scenario", "review", "transitions"} \subseteq
              {Parts("output")[j] : j \in 1 .. 4}
        BY <2>1
      <3> QED  BY <2>2, <3>1
    <2>4. RequestOK(r, Q, wf) /\ Q \in RequestRecord /\ Placed(r, Q)
      BY DEF RequestInv, RequestOK
    <2>5. row \in Row /\ RowOK(row)
      BY <2>4, AsksAbout DEF RequestInv
    <2>6. /\ Q.got[1] \in RowState \X Nat /\ Q.got[4] \in Nat /\ Q.got[1][2] <= Q.got[4] + 1
          /\ Q.got[1][1] = "APPROVED" =>
               /\ row.state = "APPROVED" /\ Q.got[1][2] = row.version
               /\ Q.got[2] = row.scenario /\ Q.got[3] = row.review
               /\ Q.got[4] = row.transitions
      BY <2>4 DEF RequestOK, Shows
    <2>7. Q.got[1][2] \in Nat
      BY <2>6
    <2>8. Q.got[1][1] = "APPROVED" => /\ row.version = row.transitions + 1
                                      /\ row.scenario = row.review /\ row.transitions \in Nat
      <3> SUFFICES ASSUME row.state = "APPROVED"
                   PROVE  /\ row.version = row.transitions + 1
                          /\ row.scenario = row.review /\ row.transitions \in Nat
        BY <2>6
      <3>1. row # NoRow
        BY DEF NoRow
      <3> QED  BY <2>5, <3>1 DEF RowOK, Row
    <2> HIDE DEF shown, row
    <2>9. /\ shown["transitions"] >= shown["row"][2] - 1
          /\ shown["row"][1] = "APPROVED" =>
               /\ shown["transitions"] = shown["row"][2] - 1
               /\ shown["scenario"] = row.scenario /\ shown["review"] = shown["scenario"]
      BY <2>3, <2>6, <2>7, <2>8
    <2> QED  BY <2>9 DEF shown, row, at
  <1> QED  BY RequestInit, RequestStep, <1>1, PTL DEF Spec
==============================================================================
