------------------------- MODULE ArcaEnqueue_proofs -------------------------
(***************************************************************************)
(* Theorems about ArcaEnqueue, for any number of handlers, environments,   *)
(* invoices and requests.                                                  *)
(***************************************************************************)
EXTENDS ArcaEnqueue, TLAPS

(* A handler past its reception holds the lock of the environment it was   *)
(* asked for; one that completes an invoice has read the row it writes.    *)
Sessions ==
  /\ \A h \in Handlers : pc[h] # "idle" =>
       serving[h] \in Requests /\ lock[serving[h].env] = h
  /\ \A h \in Handlers : pc[h] = "resume" =>
       /\ Completes(serving[h])
       /\ original[h] \in AllRequests
       /\ Known(serving[h].ext)
       /\ original[h].sale = rows[serving[h].ext].request.sale
       /\ original[h].sale = serving[h].sale

Typed == TypeOK /\ Sessions

(* Requests and rows are records with the fields the model reads. *)
LEMMA RequestFields ==
  ASSUME NEW r \in AllRequests
  PROVE  /\ r.env \in Environments /\ r.ext \in Externals
         /\ r.sale \in Sales \cup {None} /\ r.receiver \in BOOLEAN
         /\ r.number \in Numbers \cup {None}
BY DEF AllRequests

(* What the answers may be, as replies. *)
LEMMA AnswersTyped ==
  ASSUME NEW r PROVE AnswerToKnown(r) \in Replies /\ AnswerToAwaiting(r) \in Replies
                     /\ AfterCollision(r) \in Replies
BY DEF AnswerToKnown, AnswerToAwaiting, AfterCollision, Replies

(* An answer is a reply, and adds no request but its own to the accepted. *)
LEMMA AnswerTyped ==
  ASSUME TypeOK, NEW h \in Handlers, NEW r \in Requests, NEW a \in Replies, Answer(h, r, a)
  PROVE  reply' \in [Handlers -> Replies] /\ accepted' \subseteq Requests
BY DEF Answer, TypeOK

(* A handler that ends leaves the sessions of the others as they were. *)
LEMMA EndsTyped ==
  ASSUME Typed, NEW h \in Handlers, Ends(h)
  PROVE  /\ pc' \in [Handlers -> {"idle", "insert", "resume"}]
         /\ serving' \in [Handlers -> Requests \cup {None}]
         /\ original' \in [Handlers -> AllRequests \cup {None}]
         /\ lock' \in [Environments -> Handlers \cup {None}]
         /\ \A g \in Handlers : pc'[g] # "idle" =>
              /\ g # h /\ pc'[g] = pc[g]
              /\ serving'[g] = serving[g] /\ original'[g] = original[g]
              /\ serving[g] \in Requests /\ lock'[serving[g].env] = g
<1> USE DEF Typed, TypeOK, Ends
<1>1. /\ pc' \in [Handlers -> {"idle", "insert", "resume"}]
      /\ serving' \in [Handlers -> Requests \cup {None}]
      /\ original' \in [Handlers -> AllRequests \cup {None}]
      /\ lock' \in [Environments -> Handlers \cup {None}]
  OBVIOUS
<1>2. ASSUME NEW g \in Handlers, pc'[g] # "idle"
      PROVE  /\ g # h /\ pc'[g] = pc[g]
             /\ serving'[g] = serving[g] /\ original'[g] = original[g]
             /\ serving[g] \in Requests /\ lock'[serving[g].env] = g
  <2>1. g # h /\ pc'[g] = pc[g] /\ serving'[g] = serving[g] /\ original'[g] = original[g]
    BY <1>2
  <2>2. serving[g] \in Requests /\ lock[serving[g].env] = g
    BY <1>2, <2>1 DEF Sessions
  <2>3. serving[g].env \in Environments
    BY <2>2, RequestFields, ConstantsAssumption
  <2> QED
    BY <2>1, <2>2, <2>3
<1> QED
  BY <1>1, <1>2

(* A handler that starts takes a free lock, which nobody else holds. *)
LEMMA WorksTyped ==
  ASSUME Typed, NEW h \in Handlers, NEW r \in Requests, NEW step \in {"insert", "resume"},
         NEW read \in AllRequests \cup {None}, Receives(h, r), Works(h, r, step, read)
  PROVE  /\ TypeOK'
         /\ \A g \in Handlers : pc'[g] # "idle" =>
              serving'[g] \in Requests /\ lock'[serving'[g].env] = g
         /\ \A g \in Handlers \ {h} :
              pc'[g] = pc[g] /\ serving'[g] = serving[g] /\ original'[g] = original[g]
         /\ pc'[h] = step /\ serving'[h] = r /\ original'[h] = read
<1> USE ConstantsAssumption DEF Typed, TypeOK, Works, Receives, Called
<1>1. r \in AllRequests /\ r.env \in Environments
  BY RequestFields
<1>2. TypeOK'
  <2>1. lock' \in [Environments -> Handlers \cup {None}]
    BY <1>1
  <2>2. reply' \in [Handlers -> Replies]
    BY DEF Replies
  <2>3. calls' \in Nat
    OBVIOUS
  <2> QED
    BY <2>1, <2>2, <2>3
<1>3. \A g \in Handlers \ {h} :
        pc'[g] = pc[g] /\ serving'[g] = serving[g] /\ original'[g] = original[g]
  OBVIOUS
<1>4. pc'[h] = step /\ serving'[h] = r /\ original'[h] = read
  OBVIOUS
<1>5. ASSUME NEW g \in Handlers, pc'[g] # "idle"
      PROVE  serving'[g] \in Requests /\ lock'[serving'[g].env] = g
  <2>1. CASE g = h
    BY <1>1, <1>4, <2>1
  <2>2. CASE g # h
    <3>1. serving[g] \in Requests /\ lock[serving[g].env] = g
      BY <1>3, <1>5, <2>2 DEF Sessions
    <3>2. serving[g].env \in Environments
      BY <3>1, RequestFields
    <3>3. serving[g].env # r.env
      BY <3>1 DEF Free
    <3> QED
      BY <1>1, <1>3, <2>2, <3>1, <3>2, <3>3
  <2> QED
    BY <2>1, <2>2
<1> QED
  BY <1>2, <1>3, <1>4, <1>5

(* Every step keeps the types and the sessions. *)
LEMMA TypedNext == ASSUME Typed, [Next]_vars PROVE Typed'
<1> USE ConstantsAssumption
<1>1. ASSUME NEW h \in Handlers, NEW r \in Requests,
             \/ AnswerKnown(h, r) \/ AnswerAwaiting(h, r)
             \/ AnswerSaleTaken(h, r) \/ Refuse(h, r)
      PROVE  Typed'
  <2>1. \E a \in Replies : Answer(h, r, a)
    BY <1>1, AnswersTyped
    DEF AnswerKnown, AnswerAwaiting, AnswerSaleTaken, Refuse, Replies
  <2>2. reply' \in [Handlers -> Replies] /\ accepted' \subseteq Requests
    BY <2>1, AnswerTyped DEF Typed
  <2>3. UNCHANGED <<rows, sent, pc, serving, original, lock>> /\ calls' = calls + 1
    BY <1>1 DEF AnswerKnown, AnswerAwaiting, AnswerSaleTaken, Refuse, Receives, Called, session
  <2> QED
    BY <2>2, <2>3 DEF Typed, TypeOK, Sessions, Known
<1>2. ASSUME NEW h \in Handlers, NEW r \in Requests, StartInsert(h, r)
      PROVE  Typed'
  <2>1. Receives(h, r) /\ Works(h, r, "insert", None)
    BY <1>2 DEF StartInsert
  <2>2. rows' = rows
    BY <2>1 DEF Works
  <2> HIDE DEF Works
  <2>3. Sessions'
    BY <2>1, <2>2, WorksTyped DEF Typed, Sessions, Known
  <2> QED
    BY <2>1, <2>3, WorksTyped DEF Typed
<1>3. ASSUME NEW h \in Handlers, NEW r \in Requests, StartResume(h, r)
      PROVE  Typed'
  <2>1. /\ Receives(h, r) /\ Works(h, r, "resume", rows[r.ext].request)
        /\ Known(r.ext) /\ SameOperation(r) /\ Completes(r)
    BY <1>3 DEF StartResume, Awaiting
  <2>2. r.ext \in Externals /\ rows[r.ext] \in Rows
    BY <2>1, RequestFields DEF Typed, TypeOK, Known
  <2>3. rows[r.ext].request \in AllRequests
    BY <2>2 DEF Rows
  <2>4. rows' = rows
    BY <2>1 DEF Works
  <2>5. Sessions'
    BY <2>1, <2>3, <2>4, WorksTyped DEF Typed, Sessions, Known, SameOperation
  <2> QED
    BY <2>1, <2>3, <2>5, WorksTyped DEF Typed
<1>4. ASSUME NEW h \in Handlers, InsertCollides(h) \/ ResumeCollides(h) \/ Fail(h)
      PROVE  Typed'
  <2>1. Ends(h) /\ serving[h] \in Requests /\ UNCHANGED <<rows, sent, calls>>
    BY <1>4 DEF InsertCollides, ResumeCollides, Fail, Typed, Sessions
  <2>2. \E a \in Replies : Answer(h, serving[h], a)
    BY <1>4, AnswersTyped DEF InsertCollides, ResumeCollides, Fail, Replies
  <2>3. reply' \in [Handlers -> Replies] /\ accepted' \subseteq Requests
    BY <2>1, <2>2, AnswerTyped DEF Typed
  <2>4. TypeOK'
    BY <2>1, <2>3, EndsTyped DEF Typed, TypeOK
  <2>5. Sessions'
    BY <2>1, EndsTyped DEF Typed, Sessions, Known
  <2> QED
    BY <2>4, <2>5 DEF Typed
<1>5. ASSUME NEW h \in Handlers, CommitInsert(h)
      PROVE  Typed'
  <2> DEFINE r == serving[h]
             new == [request |-> r, number |-> r.number, status |-> InitialStatus(r)]
  <2>1. Ends(h) /\ r \in Requests /\ UNCHANGED <<sent, calls>> /\ Answer(h, r, "invoice")
    BY <1>5 DEF CommitInsert, Typed, Sessions
  <2>2. rows' = [rows EXCEPT ![r.ext] = new] /\ ~Known(r.ext)
    BY <1>5 DEF CommitInsert, Collides
  <2>3. new \in Rows /\ r.ext \in Externals
    BY <2>1, RequestFields DEF Rows, InitialStatus, Statuses
  <2> HIDE DEF new
  <2>4. reply' \in [Handlers -> Replies] /\ accepted' \subseteq Requests
    BY <2>1, AnswerTyped DEF Typed, Replies
  <2>5. rows' \in [Externals -> Rows \cup {None}]
    BY <2>2, <2>3 DEF Typed, TypeOK
  <2>6. TypeOK'
    BY <2>1, <2>4, <2>5, EndsTyped DEF Typed, TypeOK
  <2>7. \A x \in Externals : Known(x) => rows'[x] = rows[x]
    BY <2>2 DEF Typed, TypeOK
  <2>8. \A g \in Handlers : pc'[g] = "resume" => serving[g].ext \in Externals
    BY <2>1, EndsTyped, RequestFields
  <2>9. Sessions'
    BY <2>1, <2>7, <2>8, EndsTyped DEF Typed, Sessions, Known
  <2> QED
    BY <2>6, <2>9 DEF Typed
<1>6. ASSUME NEW h \in Handlers, CommitResume(h)
      PROVE  Typed'
  <2> DEFINE r == serving[h]
             new == [request |-> Completed(h), number |-> r.number, status |-> "pending"]
  <2>1. /\ Ends(h) /\ r \in Requests /\ UNCHANGED <<sent, calls>> /\ Answer(h, r, "invoice")
        /\ original[h] \in AllRequests /\ Known(r.ext)
        /\ original[h].sale = rows[r.ext].request.sale
    BY <1>6 DEF CommitResume, Typed, Sessions
  <2>2. rows' = [rows EXCEPT ![r.ext] = new]
    BY <1>6 DEF CommitResume
  <2>3. /\ r.ext \in Externals /\ r.number \in Numbers \cup {None}
    BY <2>1, RequestFields
  <2>4. Completed(h) \in AllRequests /\ Completed(h).sale = original[h].sale
    BY <2>1, <2>3 DEF Completed, AllRequests
  <2>5. new \in Rows /\ new.request.sale = rows[r.ext].request.sale
    BY <2>1, <2>3, <2>4 DEF Rows, Statuses
  <2> HIDE DEF new
  <2>6. reply' \in [Handlers -> Replies] /\ accepted' \subseteq Requests
    BY <2>1, AnswerTyped DEF Typed, Replies
  <2>7. rows' \in [Externals -> Rows \cup {None}]
    BY <2>2, <2>5 DEF Typed, TypeOK
  <2>8. TypeOK'
    BY <2>1, <2>6, <2>7, EndsTyped DEF Typed, TypeOK
  <2>9. \A x \in Externals : Known(x) =>
          rows'[x] # None /\ rows'[x].request.sale = rows[x].request.sale
    BY <2>1, <2>2, <2>5 DEF Typed, TypeOK, Known
  <2>10. \A g \in Handlers : pc'[g] = "resume" => serving[g].ext \in Externals
    BY <2>1, EndsTyped, RequestFields
  <2>11. Sessions'
    BY <2>1, <2>9, <2>10, EndsTyped DEF Typed, Sessions, Known
  <2> QED
    BY <2>8, <2>11 DEF Typed
<1>7. ASSUME NEW x \in Externals,
             \/ \E n \in Numbers : Process(x, n)
             \/ \E outcome \in {"approved", "rejected"} : Finish(x, outcome)
      PROVE  Typed'
  <2>1. Known(x) /\ rows[x] \in Rows /\ UNCHANGED <<session, reply, accepted, calls>>
    BY <1>7 DEF Process, Finish, Typed, TypeOK, Known
  <2>2. PICK new \in Rows : new.request = rows[x].request /\ rows' = [rows EXCEPT ![x] = new]
    <3>1. ASSUME NEW n \in Numbers, Process(x, n)
          PROVE  \E new \in Rows : new.request = rows[x].request /\ rows' = [rows EXCEPT ![x] = new]
      <4> DEFINE new == [rows[x] EXCEPT !.number = n, !.status = "processing"]
      <4>1. new \in Rows /\ new.request = rows[x].request
        BY <2>1 DEF Rows, Statuses
      <4>2. rows' = [rows EXCEPT ![x] = new]
        BY <2>1, <3>1 DEF Process, Typed, TypeOK
      <4> QED
        BY <4>1, <4>2
    <3>2. ASSUME NEW outcome \in {"approved", "rejected"}, Finish(x, outcome)
          PROVE  \E new \in Rows : new.request = rows[x].request /\ rows' = [rows EXCEPT ![x] = new]
      <4> DEFINE new == [rows[x] EXCEPT !.status = outcome]
      <4>1. new \in Rows /\ new.request = rows[x].request
        BY <2>1 DEF Rows, Statuses
      <4>2. rows' = [rows EXCEPT ![x] = new]
        BY <2>1, <3>2 DEF Finish, Typed, TypeOK
      <4> QED
        BY <4>1, <4>2
    <3> QED
      BY <1>7, <3>1, <3>2
  <2>3. sent' \subseteq Externals \X Numbers
    <3>1. ASSUME NEW n \in Numbers, Process(x, n) PROVE sent' \subseteq Externals \X Numbers
      BY <3>1 DEF Process, Typed, TypeOK
    <3>2. ASSUME NEW outcome \in {"approved", "rejected"}, Finish(x, outcome)
          PROVE  sent' \subseteq Externals \X Numbers
      BY <3>2 DEF Finish, Typed, TypeOK
    <3> QED
      BY <1>7, <3>1, <3>2
  <2>4. TypeOK'
    BY <2>1, <2>2, <2>3 DEF Typed, TypeOK, session
  <2>5. \A y \in Externals : Known(y) =>
          rows'[y] # None /\ rows'[y].request.sale = rows[y].request.sale
    BY <2>1, <2>2 DEF Typed, TypeOK, Known
  <2>6. \A g \in Handlers : pc[g] = "resume" => serving[g].ext \in Externals
    BY RequestFields DEF Typed, Sessions
  <2>7. Sessions'
    BY <2>1, <2>5, <2>6 DEF Typed, Sessions, Known, session
  <2> QED
    BY <2>4, <2>7 DEF Typed
<1>8. CASE UNCHANGED vars
  BY <1>8 DEF vars, session, Typed, TypeOK, Sessions, Known
<1> QED
  BY <1>1, <1>2, <1>3, <1>4, <1>5, <1>6, <1>7, <1>8 DEF Next

(* The types and the sessions, in every state. *)
LEMMA TypedAlways == Spec => []Typed
<1>1. Init => Typed
  <2> SUFFICES ASSUME Init PROVE Typed
    OBVIOUS
  <2>1. TypeOK
    BY ConstantsAssumption DEF Init, TypeOK, Replies
  <2>2. Sessions
    BY DEF Init, Sessions
  <2> QED
    BY <2>1, <2>2 DEF Typed
<1>2. QED
  BY <1>1, TypedNext, PTL DEF Spec

(* Every variable of enqueue keeps its type in every behaviour. *)
THEOREM Typing == Spec => []TypeOK
BY TypedAlways, PTL DEF Typed

-----------------------------------------------------------------------------
(* What the steps that write rows do to them, as a reader of the table     *)
(* sees it.                                                                *)
LEMMA InsertWrites ==
  ASSUME Typed, NEW h \in Handlers, CommitInsert(h)
  PROVE  LET r == serving[h] IN
         /\ r \in Requests /\ r.ext \in Externals /\ sent' = sent
         /\ ~Known(r.ext) /\ ~SaleTaken(r) /\ ~NumberTaken(r.ext, r.env, r.number)
         /\ rows'[r.ext] # None
         /\ rows'[r.ext].request = r /\ rows'[r.ext].number = r.number
         /\ \A y \in Externals \ {r.ext} : rows'[y] = rows[y]
<1> DEFINE r == serving[h]
           new == [request |-> r, number |-> r.number, status |-> InitialStatus(r)]
<1>1. r \in Requests /\ r \in AllRequests
  BY ConstantsAssumption DEF CommitInsert, Typed, Sessions
<1>2. new \in Rows /\ new.request = r /\ new.number = r.number
  BY <1>1, RequestFields DEF Rows, InitialStatus, Statuses
<1>3. rows' = [rows EXCEPT ![r.ext] = new] /\ sent' = sent
  BY DEF CommitInsert
<1>4. ~Known(r.ext) /\ ~SaleTaken(r) /\ ~NumberTaken(r.ext, r.env, r.number)
  BY DEF CommitInsert, Collides
<1>5. r.ext \in Externals
  BY <1>1, RequestFields
<1> HIDE DEF new
<1> QED
  BY <1>1, <1>2, <1>3, <1>4, <1>5, ConstantsAssumption DEF Typed, TypeOK

LEMMA ResumeWrites ==
  ASSUME Typed, NEW h \in Handlers, CommitResume(h)
  PROVE  LET r == serving[h] IN
         /\ r \in Requests /\ r.ext \in Externals /\ sent' = sent
         /\ Known(r.ext) /\ rows'[r.ext] # None
         /\ rows'[r.ext].request.sale = rows[r.ext].request.sale
         /\ rows'[r.ext].request.sale = r.sale
         /\ rows'[r.ext].number = r.number
         /\ ~NumberTaken(r.ext, rows'[r.ext].request.env, r.number)
         /\ \A y \in Externals \ {r.ext} : rows'[y] = rows[y]
<1> DEFINE r == serving[h]
           new == [request |-> Completed(h), number |-> r.number, status |-> "pending"]
<1>1. /\ r \in Requests /\ r \in AllRequests /\ original[h] \in AllRequests /\ Known(r.ext)
      /\ original[h].sale = rows[r.ext].request.sale /\ original[h].sale = r.sale
  BY ConstantsAssumption DEF CommitResume, Typed, Sessions
<1>2. r.ext \in Externals /\ r.number \in Numbers \cup {None}
  BY <1>1, RequestFields
<1>3. /\ Completed(h) \in AllRequests /\ Completed(h).sale = original[h].sale
      /\ Completed(h).env = original[h].env
  BY <1>1, <1>2 DEF Completed, AllRequests
<1>4. new \in Rows /\ new.request = Completed(h) /\ new.number = r.number
  BY <1>2, <1>3 DEF Rows, Statuses
<1>5. rows' = [rows EXCEPT ![r.ext] = new] /\ sent' = sent
  BY DEF CommitResume
<1>6. ~NumberTaken(r.ext, new.request.env, r.number)
  BY <1>3, <1>4 DEF CommitResume, ReferenceTaken
<1> HIDE DEF new
<1>7. rows'[r.ext] = new /\ \A y \in Externals \ {r.ext} : rows'[y] = rows[y]
  BY <1>2, <1>5 DEF Typed, TypeOK
<1>8. new # None
  BY <1>4, ConstantsAssumption
<1> QED
  BY <1>1, <1>2, <1>3, <1>4, <1>5, <1>6, <1>7, <1>8

LEMMA ProcessWrites ==
  ASSUME Typed, NEW x \in Externals, NEW n \in Numbers, Process(x, n)
  PROVE  /\ Known(x) /\ ~Awaiting(x) /\ sent' = sent \cup {<<x, n>>}
         /\ rows'[x] # None /\ rows'[x].request = rows[x].request
         /\ rows'[x].number = n /\ rows'[x].status = "processing"
         /\ \/ rows[x].number = n
            \/ rows[x].number = None /\ ~NumberTaken(x, rows[x].request.env, n)
         /\ \A y \in Externals \ {x} : rows'[y] = rows[y]
         /\ UNCHANGED <<session, accepted>>
<1> DEFINE new == [rows[x] EXCEPT !.number = n, !.status = "processing"]
<1>1. Known(x) /\ rows[x] \in Rows /\ ~Awaiting(x)
  BY DEF Process, Known, Awaiting, Typed, TypeOK
<1>2. /\ new \in Rows /\ new.request = rows[x].request
      /\ new.number = n /\ new.status = "processing"
  BY <1>1 DEF Rows, Statuses
<1>3. rows' = [rows EXCEPT ![x] = new]
  BY <1>1 DEF Process, Typed, TypeOK
<1>4. /\ sent' = sent \cup {<<x, n>>} /\ UNCHANGED <<session, accepted>>
      /\ \/ rows[x].number = n
         \/ rows[x].number = None /\ ~NumberTaken(x, rows[x].request.env, n)
  BY DEF Process
<1> HIDE DEF new
<1> QED
  BY <1>1, <1>2, <1>3, <1>4, ConstantsAssumption DEF Typed, TypeOK

LEMMA FinishWrites ==
  ASSUME Typed, NEW x \in Externals, NEW outcome \in {"approved", "rejected"},
         Finish(x, outcome)
  PROVE  /\ Known(x) /\ ~Awaiting(x) /\ sent' = sent
         /\ rows'[x] # None /\ rows'[x].request = rows[x].request
         /\ rows'[x].number = rows[x].number
         /\ rows'[x].status # "receiver_identification_required"
         /\ \A y \in Externals \ {x} : rows'[y] = rows[y]
         /\ UNCHANGED <<session, accepted>>
<1> DEFINE new == [rows[x] EXCEPT !.status = outcome]
<1>1. Known(x) /\ rows[x] \in Rows /\ ~Awaiting(x)
  BY DEF Finish, Known, Awaiting, Typed, TypeOK
<1>2. /\ new \in Rows /\ new.request = rows[x].request
      /\ new.number = rows[x].number /\ new.status = outcome
  BY <1>1 DEF Rows, Statuses
<1>3. rows' = [rows EXCEPT ![x] = new]
  BY <1>1 DEF Finish, Typed, TypeOK
<1>4. sent' = sent /\ UNCHANGED <<session, accepted>>
  BY DEF Finish
<1> HIDE DEF new
<1> QED
  BY <1>1, <1>2, <1>3, <1>4, ConstantsAssumption DEF Typed, TypeOK

(* Every other step leaves the table, and what was sent, as they were. *)
LEMMA Writers ==
  ASSUME [Next]_vars
  PROVE  \/ rows' = rows /\ sent' = sent
         \/ \E h \in Handlers : CommitInsert(h) \/ CommitResume(h)
         \/ \E x \in Externals, n \in Numbers : Process(x, n)
         \/ \E x \in Externals, outcome \in {"approved", "rejected"} : Finish(x, outcome)
<1>1. ASSUME NEW h \in Handlers, NEW r \in Requests,
             \/ AnswerKnown(h, r) \/ AnswerAwaiting(h, r)
             \/ AnswerSaleTaken(h, r) \/ Refuse(h, r)
             \/ StartInsert(h, r) \/ StartResume(h, r)
      PROVE  rows' = rows /\ sent' = sent
  BY <1>1 DEF AnswerKnown, AnswerAwaiting, AnswerSaleTaken, Refuse, StartInsert,
              StartResume, Works
<1>2. ASSUME NEW h \in Handlers, InsertCollides(h) \/ ResumeCollides(h) \/ Fail(h)
      PROVE  rows' = rows /\ sent' = sent
  BY <1>2 DEF InsertCollides, ResumeCollides, Fail
<1>3. CASE UNCHANGED vars
  BY <1>3 DEF vars
<1> QED
  BY <1>1, <1>2, <1>3 DEF Next

-----------------------------------------------------------------------------
(* A row is never deleted, and is always of the same sale. *)
LEMMA SalesKept ==
  ASSUME Typed, [Next]_vars, NEW x \in Externals, Known(x)
  PROVE  rows'[x] # None /\ rows'[x].request.sale = rows[x].request.sale
<1>1. CASE rows' = rows
  BY <1>1 DEF Known
<1>2. ASSUME NEW h \in Handlers, CommitInsert(h)
      PROVE  rows'[x] = rows[x]
  BY <1>2, InsertWrites
<1>3. ASSUME NEW h \in Handlers, CommitResume(h)
      PROVE  rows'[x] # None /\ rows'[x].request.sale = rows[x].request.sale
  BY <1>3, ResumeWrites DEF Known
<1>4. ASSUME NEW y \in Externals, NEW n \in Numbers, Process(y, n)
      PROVE  rows'[x] # None /\ rows'[x].request.sale = rows[x].request.sale
  BY <1>4, ProcessWrites DEF Known
<1>5. ASSUME NEW y \in Externals, NEW outcome \in {"approved", "rejected"},
             Finish(y, outcome)
      PROVE  rows'[x] # None /\ rows'[x].request.sale = rows[x].request.sale
  BY <1>5, FinishWrites DEF Known
<1> QED
  BY <1>1, <1>2, <1>3, <1>4, <1>5, Writers DEF Known

(* Only the insertion of an invoice makes a sale known. *)
LEMMA SaleNext ==
  ASSUME Typed, OneInvoicePerSale, [Next]_vars
  PROVE  OneInvoicePerSale'
<1>1. ASSUME NEW h \in Handlers, CommitInsert(h)
      PROVE  OneInvoicePerSale'
  <2>1. \A x \in Externals : Known(x)' /\ x # serving[h].ext => Known(x) /\ rows'[x] = rows[x]
    BY <1>1, InsertWrites DEF Known
  <2>2. \A x \in Externals : Known(x) /\ serving[h].sale # None =>
          rows[x].request.sale # serving[h].sale
    BY <1>1, InsertWrites DEF SaleTaken
  <2> QED
    BY <1>1, <2>1, <2>2, InsertWrites DEF OneInvoicePerSale
<1>2. CASE \A x \in Externals : Known(x)' => Known(x)
  BY <1>2, SalesKept DEF OneInvoicePerSale
<1>3. CASE rows' = rows
  BY <1>3 DEF OneInvoicePerSale, Known
<1>4. ASSUME NEW h \in Handlers, CommitResume(h)
      PROVE  \A x \in Externals : Known(x)' => Known(x)
  BY <1>4, ResumeWrites DEF Known
<1>5. ASSUME NEW x \in Externals, NEW n \in Numbers, Process(x, n)
      PROVE  \A y \in Externals : Known(y)' => Known(y)
  BY <1>5, ProcessWrites DEF Known
<1>6. ASSUME NEW x \in Externals, NEW outcome \in {"approved", "rejected"},
             Finish(x, outcome)
      PROVE  \A y \in Externals : Known(y)' => Known(y)
  BY <1>6, FinishWrites DEF Known
<1> QED
  BY <1>1, <1>2, <1>3, <1>4, <1>5, <1>6, Writers

(* A sale is never invoiced twice. *)
THEOREM SaleInvoicedOnce == Spec => []OneInvoicePerSale
<1>1. Init => OneInvoicePerSale
  BY DEF Init, OneInvoicePerSale, Known
<1> QED
  BY <1>1, SaleNext, TypedAlways, PTL DEF Spec

-----------------------------------------------------------------------------
(* A request enters the accepted ones with the invoice of its sale stored, *)
(* also when another handler stored it meanwhile.                          *)
LEMMA AcceptedNow ==
  ASSUME Typed, [Next]_vars, NEW r \in accepted', r \notin accepted
  PROVE  r.ext \in Externals /\ rows'[r.ext] # None /\ rows'[r.ext].request.sale = r.sale
<1> USE ConstantsAssumption
<1>1. ASSUME NEW s \in Requests, Known(s.ext), AnswerToKnown(s) = "invoice"
      PROVE  s.ext \in Externals /\ rows[s.ext].request.sale = s.sale
  BY <1>1, RequestFields DEF AnswerToKnown
<1>2. ASSUME NEW h \in Handlers, NEW s \in Requests, AnswerKnown(h, s)
      PROVE  r.ext \in Externals /\ rows'[r.ext] # None /\ rows'[r.ext].request.sale = r.sale
  <2>1. r = s /\ AnswerToKnown(s) = "invoice" /\ Known(s.ext) /\ rows' = rows
    BY <1>2 DEF AnswerKnown, Answer
  <2> QED
    BY <1>1, <2>1 DEF Known
<1>3. ASSUME NEW h \in Handlers, NEW s \in Requests, AnswerAwaiting(h, s)
      PROVE  r.ext \in Externals /\ rows'[r.ext] # None /\ rows'[r.ext].request.sale = r.sale
  <2>1. r = s /\ SameOperation(s) /\ Known(s.ext) /\ rows' = rows
    BY <1>3 DEF AnswerAwaiting, AnswerToAwaiting, Answer, Awaiting
  <2> QED
    BY <2>1, RequestFields DEF Known, SameOperation
<1>4. ASSUME NEW h \in Handlers, InsertCollides(h)
      PROVE  r.ext \in Externals /\ rows'[r.ext] # None /\ rows'[r.ext].request.sale = r.sale
  <2>1. serving[h] \in Requests
    BY <1>4 DEF InsertCollides, Typed, Sessions
  <2>2. /\ r = serving[h] /\ rows' = rows
        /\ Known(serving[h].ext) /\ AnswerToKnown(serving[h]) = "invoice"
    BY <1>4 DEF InsertCollides, Answer, AfterCollision
  <2> QED
    BY <1>1, <2>1, <2>2 DEF Known
<1>5. ASSUME NEW h \in Handlers, CommitInsert(h)
      PROVE  r.ext \in Externals /\ rows'[r.ext] # None /\ rows'[r.ext].request.sale = r.sale
  <2>1. r = serving[h]
    BY <1>5 DEF CommitInsert, Answer
  <2> QED
    BY <1>5, <2>1, InsertWrites
<1>6. ASSUME NEW h \in Handlers, CommitResume(h)
      PROVE  r.ext \in Externals /\ rows'[r.ext] # None /\ rows'[r.ext].request.sale = r.sale
  <2>1. r = serving[h]
    BY <1>6 DEF CommitResume, Answer
  <2> QED
    BY <1>6, <2>1, ResumeWrites
<1>7. ASSUME NEW h \in Handlers, NEW s \in Requests,
             \/ AnswerSaleTaken(h, s) \/ Refuse(h, s)
             \/ StartInsert(h, s) \/ StartResume(h, s)
      PROVE  accepted' = accepted
  BY <1>7 DEF AnswerSaleTaken, Refuse, StartInsert, StartResume, Works, Answer
<1>8. ASSUME NEW h \in Handlers, ResumeCollides(h) \/ Fail(h)
      PROVE  accepted' = accepted
  BY <1>8 DEF ResumeCollides, Fail, Answer
<1>9. ASSUME NEW x \in Externals,
             \/ \E n \in Numbers : Process(x, n)
             \/ \E outcome \in {"approved", "rejected"} : Finish(x, outcome)
      PROVE  accepted' = accepted
  BY <1>9 DEF Process, Finish
<1>10. CASE UNCHANGED vars
  BY <1>10 DEF vars
<1> QED
  BY <1>2, <1>3, <1>4, <1>5, <1>6, <1>7, <1>8, <1>9, <1>10 DEF Next

(* What was accepted has its row from then on. *)
LEMMA AcceptedNext ==
  ASSUME Typed, AcceptedIsStored, [Next]_vars
  PROVE  AcceptedIsStored'
<1>1. ASSUME NEW r \in accepted', r \in accepted
      PROVE  rows'[r.ext] # None /\ rows'[r.ext].request.sale = r.sale
  <2>1. r \in AllRequests
    BY <1>1, ConstantsAssumption DEF Typed, TypeOK
  <2>2. r.ext \in Externals
    BY <2>1, RequestFields
  <2> QED
    BY <1>1, <2>2, SalesKept DEF AcceptedIsStored
<1> QED
  BY <1>1, AcceptedNow DEF AcceptedIsStored, Known

(* An accepted request keeps its invoice, which is of its sale. *)
THEOREM AcceptedStays == Spec => []AcceptedIsStored
<1>1. Init => AcceptedIsStored
  BY DEF Init, AcceptedIsStored
<1> QED
  BY <1>1, AcceptedNext, TypedAlways, PTL DEF Spec

-----------------------------------------------------------------------------
(* Two invoices of an environment never have one number. *)
NumbersUnique ==
  \A x, y \in Externals :
    Known(x) /\ Known(y) /\ rows[x].request.env = rows[y].request.env
      /\ rows[x].number = rows[y].number /\ rows[x].number # None => x = y

(* What was sent is the number of the row, which waits for no receiver. *)
SentNumbers ==
  \A x \in Externals, n \in Numbers :
    <<x, n>> \in sent => Known(x) /\ ~Awaiting(x) /\ rows[x].number = n

(* While a handler completes an invoice, nobody else does: the row still   *)
(* waits for its receiver.                                                 *)
ResumeAwaits == \A h \in Handlers : pc[h] = "resume" => Awaiting(serving[h].ext)

(* The first writer of a number finds it free. *)
LEMMA NumbersNext ==
  ASSUME Typed, NumbersUnique, [Next]_vars
  PROVE  NumbersUnique'
<1>1. ASSUME NEW x \in Externals, rows'[x] # None,
             \A y \in Externals \ {x} : rows'[y] = rows[y],
             ~NumberTaken(x, rows'[x].request.env, rows'[x].number)
      PROVE  NumbersUnique'
  BY <1>1 DEF NumbersUnique, NumberTaken, Known
<1>2. ASSUME NEW x \in Externals, Known(x), rows'[x] # None,
             \A y \in Externals \ {x} : rows'[y] = rows[y],
             rows'[x].request = rows[x].request, rows'[x].number = rows[x].number
      PROVE  NumbersUnique'
  BY <1>2 DEF NumbersUnique, Known
<1>3. CASE rows' = rows
  BY <1>3 DEF NumbersUnique, Known
<1>4. ASSUME NEW h \in Handlers, CommitInsert(h) PROVE NumbersUnique'
  <2> DEFINE r == serving[h]
  <2>1. /\ r.ext \in Externals /\ rows'[r.ext] # None
        /\ \A y \in Externals \ {r.ext} : rows'[y] = rows[y]
        /\ rows'[r.ext].request = r /\ rows'[r.ext].number = r.number
        /\ ~NumberTaken(r.ext, r.env, r.number)
    BY <1>4, InsertWrites
  <2> HIDE DEF r
  <2> QED
    BY <1>1, <2>1
<1>5. ASSUME NEW h \in Handlers, CommitResume(h) PROVE NumbersUnique'
  <2> DEFINE r == serving[h]
  <2>1. /\ r.ext \in Externals /\ rows'[r.ext] # None
        /\ \A y \in Externals \ {r.ext} : rows'[y] = rows[y]
        /\ rows'[r.ext].number = r.number
        /\ ~NumberTaken(r.ext, rows'[r.ext].request.env, r.number)
    BY <1>5, ResumeWrites
  <2> HIDE DEF r
  <2> QED
    BY <1>1, <2>1
<1>6. ASSUME NEW x \in Externals, NEW n \in Numbers, Process(x, n) PROVE NumbersUnique'
  BY <1>1, <1>2, <1>6, ProcessWrites
<1>7. ASSUME NEW x \in Externals, NEW outcome \in {"approved", "rejected"},
             Finish(x, outcome)
      PROVE  NumbersUnique'
  BY <1>2, <1>7, FinishWrites
<1> QED
  BY <1>3, <1>4, <1>5, <1>6, <1>7, Writers

(* The lock of the one environment keeps a second completion out until the *)
(* first has ended, and then the row waits no longer.                      *)
LEMMA ResumeNext ==
  ASSUME Typed, ResumeAwaits, OneEnvironment, [Next]_vars
  PROVE  ResumeAwaits'
<1> USE ConstantsAssumption
<1>1. ASSUME NEW g \in Handlers, pc'[g] = "resume", pc[g] = "resume",
             serving'[g] = serving[g], NEW h \in Handlers, h # g, CommitResume(h)
      PROVE  serving[g].ext # serving[h].ext
  <2>1. /\ serving[g] \in Requests /\ Completes(serving[g]) /\ lock[serving[g].env] = g
        /\ serving[h] \in Requests /\ Completes(serving[h]) /\ lock[serving[h].env] = h
    BY <1>1 DEF CommitResume, Typed, Sessions
  <2> QED
    BY <1>1, <2>1 DEF OneEnvironment
<1>2. ASSUME NEW g \in Handlers, pc'[g] = "resume", pc[g] = "resume",
             serving'[g] = serving[g],
             rows'[serving[g].ext] = rows[serving[g].ext]
      PROVE  Awaiting(serving[g].ext)'
  BY <1>2 DEF ResumeAwaits, Awaiting, Known
<1>3. \A g \in Handlers : pc[g] = "resume" =>
        serving[g].ext \in Externals /\ Awaiting(serving[g].ext)
  BY RequestFields DEF ResumeAwaits, Typed, Sessions
<1>4. ASSUME NEW h \in Handlers, NEW r \in Requests,
             \/ AnswerKnown(h, r) \/ AnswerAwaiting(h, r)
             \/ AnswerSaleTaken(h, r) \/ Refuse(h, r)
      PROVE  ResumeAwaits'
  BY <1>4 DEF AnswerKnown, AnswerAwaiting, AnswerSaleTaken, Refuse, session,
              ResumeAwaits, Awaiting, Known
<1>5. ASSUME NEW h \in Handlers, NEW r \in Requests, NEW step \in {"insert", "resume"},
             NEW read \in AllRequests \cup {None}, Receives(h, r), Works(h, r, step, read),
             step = "resume" => Awaiting(r.ext)
      PROVE  ResumeAwaits'
  <2>1. rows' = rows
    BY <1>5 DEF Works
  <2>2. \A g \in Handlers : pc'[g] = "resume" => Awaiting(serving'[g].ext)
    BY <1>5, WorksTyped DEF ResumeAwaits
  <2> QED
    BY <2>1, <2>2 DEF ResumeAwaits, Awaiting, Known
<1>6. ASSUME NEW h \in Handlers, NEW r \in Requests, StartInsert(h, r) PROVE ResumeAwaits'
  BY <1>5, <1>6 DEF StartInsert
<1>7. ASSUME NEW h \in Handlers, NEW r \in Requests, StartResume(h, r) PROVE ResumeAwaits'
  <2>1. /\ Receives(h, r) /\ Works(h, r, "resume", rows[r.ext].request) /\ Awaiting(r.ext)
    BY <1>7 DEF StartResume
  <2>2. rows[r.ext].request \in AllRequests
    BY <2>1, RequestFields DEF Awaiting, Known, Typed, TypeOK, Rows
  <2> QED
    BY <1>5, <2>1, <2>2
<1>8. ASSUME NEW h \in Handlers, InsertCollides(h) \/ ResumeCollides(h) \/ Fail(h)
      PROVE  ResumeAwaits'
  <2>1. Ends(h) /\ rows' = rows
    BY <1>8 DEF InsertCollides, ResumeCollides, Fail
  <2> QED
    BY <2>1, EndsTyped DEF ResumeAwaits, Awaiting, Known
<1>9. ASSUME NEW h \in Handlers, CommitInsert(h) PROVE ResumeAwaits'
  <2>1. Ends(h)
    BY <1>9 DEF CommitInsert
  <2>2. \A x \in Externals : Awaiting(x) => rows'[x] = rows[x]
    BY <1>9, InsertWrites DEF Awaiting
  <2> QED
    BY <1>2, <1>3, <2>1, <2>2, EndsTyped DEF ResumeAwaits
<1>10. ASSUME NEW h \in Handlers, CommitResume(h) PROVE ResumeAwaits'
  <2>1. Ends(h)
    BY <1>10 DEF CommitResume
  <2>2. ASSUME NEW g \in Handlers, pc'[g] = "resume"
        PROVE  Awaiting(serving[g].ext)'
    <3>1. g # h /\ pc[g] = "resume" /\ serving'[g] = serving[g]
      BY <2>1, <2>2, EndsTyped
    <3>2. serving[g].ext # serving[h].ext /\ serving[g].ext \in Externals
      BY <1>1, <1>3, <1>10, <2>2, <3>1
    <3> QED
      BY <1>2, <1>10, <2>2, <3>1, <3>2, ResumeWrites
  <2> QED
    BY <2>2 DEF ResumeAwaits
<1>11. ASSUME NEW x \in Externals, ~Awaiting(x), UNCHANGED session,
              \A y \in Externals \ {x} : rows'[y] = rows[y]
       PROVE  ResumeAwaits'
  BY <1>2, <1>3, <1>11 DEF ResumeAwaits, session
<1>12. ASSUME NEW x \in Externals, NEW n \in Numbers, Process(x, n) PROVE ResumeAwaits'
  BY <1>11, <1>12, ProcessWrites
<1>13. ASSUME NEW x \in Externals, NEW outcome \in {"approved", "rejected"},
              Finish(x, outcome)
       PROVE  ResumeAwaits'
  BY <1>11, <1>13, FinishWrites
<1>14. CASE UNCHANGED vars
  BY <1>14 DEF vars, session, ResumeAwaits, Awaiting, Known
<1> QED
  BY <1>4, <1>6, <1>7, <1>8, <1>9, <1>10, <1>12, <1>13, <1>14 DEF Next

(* A number that was sent stays that of its row. *)
LEMMA SentNext ==
  ASSUME Typed, SentNumbers, ResumeAwaits, [Next]_vars
  PROVE  SentNumbers'
<1>1. ASSUME NEW x \in Externals, sent' = sent, \A n \in Numbers : <<x, n>> \notin sent,
             \A y \in Externals \ {x} : rows'[y] = rows[y]
      PROVE  SentNumbers'
  BY <1>1 DEF SentNumbers, Awaiting, Known
<1>2. CASE rows' = rows /\ sent' = sent
  BY <1>2 DEF SentNumbers, Awaiting, Known
<1>3. ASSUME NEW h \in Handlers, CommitInsert(h) PROVE SentNumbers'
  <2>1. /\ serving[h].ext \in Externals /\ ~Known(serving[h].ext) /\ sent' = sent
        /\ \A y \in Externals \ {serving[h].ext} : rows'[y] = rows[y]
    BY <1>3, InsertWrites
  <2> QED
    BY <1>1, <2>1 DEF SentNumbers
<1>4. ASSUME NEW h \in Handlers, CommitResume(h) PROVE SentNumbers'
  <2>1. /\ serving[h].ext \in Externals /\ Awaiting(serving[h].ext) /\ sent' = sent
        /\ \A y \in Externals \ {serving[h].ext} : rows'[y] = rows[y]
    BY <1>4, ResumeWrites DEF ResumeAwaits, CommitResume
  <2> QED
    BY <1>1, <2>1 DEF SentNumbers
<1>5. ASSUME NEW x \in Externals, NEW n \in Numbers, Process(x, n) PROVE SentNumbers'
  <2>1. \A m \in Numbers : <<x, m>> \in sent => m = n
    BY <1>5, ProcessWrites, ConstantsAssumption DEF SentNumbers
  <2> QED
    BY <1>5, <2>1, ProcessWrites DEF SentNumbers, Awaiting, Known
<1>6. ASSUME NEW x \in Externals, NEW outcome \in {"approved", "rejected"},
             Finish(x, outcome)
      PROVE  SentNumbers'
  BY <1>6, FinishWrites DEF SentNumbers, Awaiting, Known
<1> QED
  BY <1>2, <1>3, <1>4, <1>5, <1>6, Writers

(* The numbers of an environment, and what was sent under them. *)
NumbersInv == Typed /\ NumbersUnique /\ (OneEnvironment => SentNumbers /\ ResumeAwaits)

LEMMA NumbersAlways == Spec => []NumbersInv
<1>1. Init => NumbersUnique /\ SentNumbers /\ ResumeAwaits
  BY DEF Init, NumbersUnique, SentNumbers, ResumeAwaits, Known
<1>2. NumbersInv /\ Typed' /\ [Next]_vars => NumbersInv'
  BY NumbersNext, ResumeNext, SentNext DEF NumbersInv, OneEnvironment, Completes
<1>3. Typed /\ NumbersUnique /\ SentNumbers /\ ResumeAwaits => NumbersInv
  BY DEF NumbersInv
<1> QED
  BY <1>1, <1>2, <1>3, TypedAlways, PTL DEF Spec

(* No invoice is sent to ARCA under two numbers. *)
THEOREM OneNumber == Spec => []OneNumberPerInvoice
<1>1. NumbersInv => OneNumberPerInvoice
  BY DEF NumbersInv, SentNumbers, OneNumberPerInvoice
<1> QED
  BY <1>1, NumbersAlways, PTL

(* No number is sent to ARCA for two invoices of its environment. *)
THEOREM OneInvoice == Spec => []OneInvoicePerNumber
<1>1. NumbersInv => OneInvoicePerNumber
  BY ConstantsAssumption DEF NumbersInv, NumbersUnique, SentNumbers, OneInvoicePerNumber
<1> QED
  BY <1>1, NumbersAlways, PTL

=============================================================================
