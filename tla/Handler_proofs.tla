--------------------------- MODULE Handler_proofs ---------------------------
(***************************************************************************)
(* The HTTP layer is one more client of SqliteDb: what is proved of        *)
(* SqliteDb holds of what clients see over HTTP.                           *)
(***************************************************************************)
EXTENDS Handler, SqliteDb_proofs

USE DEF dbVars, callVars

\* Every step of the handler is a step of SqliteDb, or leaves it alone.
LEMMA HttpStep == HttpNext => [Next]_vars
<1> SUFFICES ASSUME HttpNext PROVE [Next]_vars
    OBVIOUS
<1>1. CASE DatabaseStep
    BY <1>1 DEF DatabaseStep, Next
<1>2. CASE \E c \in Containers : LambdaCrash(c)
    BY <1>2 DEF LambdaCrash, Next
<1>3. CASE \E r \in Reqs : ServeRequest(r)
    BY <1>3 DEF ServeRequest, Next
<1>4. CASE \E r \in Reqs : Respond(r) \/ GiveUp(r)
    BY <1>4 DEF Respond, GiveUp
<1>5. CASE \E r \in Reqs, c \in Containers, q \in RequestsSent : Refuse(r, c, q)
    BY <1>5 DEF Refuse
<1>6. CASE \E r \in Reqs, c \in Containers, q \in RequestsSent, kind \in KindsSent :
              Admit(r, c, q, kind)
    BY <1>6 DEF Admit, Next
<1> QED BY <1>1, <1>2, <1>3, <1>4, <1>5, <1>6 DEF HttpNext

\* The database under the handler is SqliteDb (handle, sql of handler.rs).
THEOREM HandlerIsAClient == HttpSpec => Spec
<1>1. HttpInit => Init
    BY DEF HttpInit
<1>2. [HttpNext]_allVars => [Next]_vars
    BY HttpStep DEF allVars
<1> QED BY <1>1, <1>2, PTL DEF HttpSpec, Spec

-----------------------------------------------------------------------------
(* Responses.                                                              *)

\* A request that was not received, or that was refused, has no call; 200 is
\* the status of a call that was answered ok, or of one that never was (GET
\* /health); and what became a call was let through by the checks.
StatusInv ==
    /\ status \in [Reqs -> Statuses]
    /\ request \in [Reqs -> Request]
    /\ \A r \in Reqs :
          /\ status[r] \in {"none", "400", "401", "404", "413"} => call[r] = "idle"
          /\ status[r] = "200" => call[r] \in {"ok", "idle"}
          /\ call[r] # "idle" => Verdict(request[r]) = "open"

LEMMA VerdictTyped ==
    ASSUME NEW q
    PROVE  Verdict(q) \in {"open", "200", "400", "401", "404", "413"}
BY DEF Verdict

LEMMA StatusStep ==
    ASSUME TypeOK, StatusInv, [HttpNext]_allVars
    PROVE  StatusInv' /\ \A r \in Reqs : status[r] = "200" => status'[r] = "200"
<1> USE DEF StatusInv
<1>1. CASE \E r \in Reqs : ServeRequest(r) \/ (DatabaseStep /\ Panic(r))
  <2>1. PICK r \in Reqs : (Serve(r) \/ Panic(r)) /\ UNCHANGED httpVars
      BY <1>1 DEF ServeRequest, DatabaseStep
  <2> QED BY <2>1, ServeFrame DEF httpVars
<1>2. CASE \/ DatabaseStep /\ \E c \in Containers : \/ Open(c)
                                                    \/ AutoCheckpoint(c)
                                                    \/ OtherConnection(c)
           \/ UNCHANGED allVars
  <2>1. UNCHANGED <<call, status, request>>
      BY <1>2 DEF DatabaseStep, Open, ColdOpen, WarmOpen, Connect, AutoCheckpoint,
                  OtherConnection, callVars, dbVars, httpVars, allVars, vars
  <2> QED BY <2>1
<1>3. CASE \E c \in Containers : LambdaCrash(c)
    BY <1>3 DEF LambdaCrash, Crash, TypeOK, Statuses
<1>4. CASE \E r \in Reqs : Respond(r)
  <2>1. PICK r \in Reqs : Respond(r)
      BY <1>4
  <2>2. /\ StatusOf(call[r]) \in {"200", "400_sql", "500"}
        /\ StatusOf(call[r]) = "200" => call[r] = "ok"
      BY <2>1 DEF Respond, StatusOf, Answers, Statuses
  <2> QED BY <2>1, <2>2 DEF Respond, vars, Statuses
<1>5. CASE \E r \in Reqs : GiveUp(r)
    BY <1>5 DEF GiveUp, vars, Statuses
<1>6. CASE \E r \in Reqs, c \in Containers, q \in RequestsSent : Refuse(r, c, q)
  <2>1. PICK r \in Reqs, c \in Containers, q \in RequestsSent : Refuse(r, c, q)
      BY <1>6
  <2>2. /\ status[r] = "none"
        /\ Verdict(q) # "open" /\ q \in Request
        /\ request' = [request EXCEPT ![r] = q]
        /\ status' = [status EXCEPT ![r] = Verdict(q)]
        /\ UNCHANGED call
      BY <2>1, HandlerAssumption DEF Refuse, Received, vars, HandlerAssumption
  <2> QED BY <2>2, VerdictTyped DEF Statuses
<1>7. CASE \E r \in Reqs, c \in Containers, q \in RequestsSent, kind \in KindsSent :
              Admit(r, c, q, kind)
  <2>1. PICK r \in Reqs, c \in Containers, q \in RequestsSent, kind \in KindsSent :
               Admit(r, c, q, kind)
      BY <1>7
  <2>2. /\ status[r] = "none"
        /\ Verdict(q) = "open" /\ q \in Request
        /\ request' = [request EXCEPT ![r] = q]
        /\ status' = [status EXCEPT ![r] = "open"]
        /\ call' = [call EXCEPT ![r] = "queued"]
      BY <2>1, HandlerAssumption DEF Admit, Received, Submit, HandlerAssumption
  <2> QED BY <2>2 DEF Statuses, TypeOK
<1> QED BY <1>1, <1>2, <1>3, <1>4, <1>5, <1>6, <1>7 DEF HttpNext, DatabaseStep

THEOREM StatusInvariant == HttpSpec => []StatusInv
<1>1. HttpInit => StatusInv
    BY DEF HttpInit, Init, StatusInv, Statuses, Request
<1>2. TypeOK /\ StatusInv /\ [HttpNext]_allVars => StatusInv'
    BY StatusStep
<1> QED BY <1>1, <1>2, HandlerIsAClient, TypeCorrect, PTL DEF HttpSpec

\* The handler answers with the statuses above and no other.
THEOREM HttpTypeCorrect == HttpSpec => []HttpTypeOK
<1>1. TypeOK /\ StatusInv => HttpTypeOK
    BY DEF HttpTypeOK, StatusInv
<1> QED BY <1>1, HandlerIsAClient, TypeCorrect, StatusInvariant, PTL

-----------------------------------------------------------------------------
(* What a refusal means.                                                   *)

\* A request that is not a call, or whose statement has yet to run, left none.
LEMMA NoTraceBeforeRun ==
    ASSUME OnceInv, NEW r \in Reqs, LeftTrace(r)
    PROVE  call[r] \notin {"idle", "queued"}
BY DEF OnceInv, Applied, LeftTrace

\* Rows come from requests that passed every check (check_auth,
\* parse_sql_request), whatever else happens.
THEOREM RowsAreChecked == HttpSpec => []NoUncheckedWrite
<1>1. StatusInv /\ OnceInv => NoUncheckedWrite
  <2> SUFFICES ASSUME StatusInv, OnceInv, NEW r \in Reqs, LeftTrace(r)
               PROVE  /\ AuthSet => request[r].token = "right"
                      /\ request[r].route = "sql"
                      /\ BodyCap => ~request[r].large
                      /\ request[r].valid
      BY DEF NoUncheckedWrite
  <2>1. Verdict(request[r]) = "open" /\ request[r] \in Request
      BY NoTraceBeforeRun DEF StatusInv
  <2> QED BY <2>1 DEF Verdict, CheckAuth, Accepts, Request
<1> QED BY <1>1, HandlerIsAClient, StatusInvariant, OnceInvariant, PTL

\* An error code that names a refusal is proof that nothing happened.
THEOREM RefusalsAreClean == HttpSpec => []RefusalLeavesNoTrace
<1>1. StatusInv /\ OnceInv => RefusalLeavesNoTrace
    BY NoTraceBeforeRun DEF StatusInv, RefusalLeavesNoTrace, Code, Statuses
<1> QED BY <1>1, HandlerIsAClient, StatusInvariant, OnceInvariant, PTL

-----------------------------------------------------------------------------
(* What a response 200 means.                                              *)

\* A response 200 promises no more than the answer of exec_durable did.
LEMMA OkIsPromised ==
    ASSUME DurableInv, StatusInv
    PROVE  OkWrites \subseteq Promised
BY DEF OkWrites, Promised, DurableInv, FlushInv, CallInv, StatusInv

THEOREM OkWritesAreDurable == Durable => (HttpSpec => []OkIsDurable)
<1>1. DurableInv /\ StatusInv => OkIsDurable
    BY OkIsPromised DEF DurableInv, AckedDurable, OkIsDurable
<1> QED BY <1>1, HandlerIsAClient, DurableInvariant, StatusInvariant, PTL

\* The commits and the status behind a response 200 are there to stay.
LEMMA OkWritesStay ==
    ASSUME Durable, DurableInv, StatusInv, TypeOK', [HttpNext]_allVars
    PROVE  OkWrites \subseteq OkWrites'
<1>1. \A r \in Reqs : status[r] = "200" => status'[r] = "200"
    BY StatusStep DEF DurableInv, FlushInv
<1>2. \A r \in Reqs : call[r] = "ok" => commits'[r] = commits[r]
  <2>1. [Next]_vars
      BY HttpStep DEF allVars
  <2> QED BY <2>1, CommitsStay DEF DurableInv, FlushInv
<1>3. \A r \in Reqs : call[r] = "idle" => commits[r] = {}
    BY DEF DurableInv, FlushInv, CallInv
<1> QED BY <1>1, <1>2, <1>3 DEF OkWrites, StatusInv

\* What a client was told with 200 is in S3 from then on, and not only when
\* it was told.
THEOREM OkIsKept ==
    ASSUME NEW w
    PROVE  Durable => (HttpSpec => [](w \in OkWrites => [](w \in Contents(store))))
<1> SUFFICES ASSUME Durable PROVE HttpSpec => [](w \in OkWrites => [](w \in Contents(store)))
    OBVIOUS
<1>1. DurableInv /\ StatusInv /\ TypeOK' /\ w \in OkWrites /\ [HttpNext]_allVars
      => (w \in OkWrites)'
    BY OkWritesStay
<1>2. OkIsDurable /\ w \in OkWrites => w \in Contents(store)
    BY DEF OkIsDurable
<1> QED BY <1>1, <1>2, HandlerIsAClient, TypeCorrect, DurableInvariant, StatusInvariant,
        OkWritesAreDurable, PTL DEF HttpSpec

\* With one container at a time each request meets a connection that shows all
\* that clients were told with 200 (ReservedConcurrentExecutions: 1).
THEOREM OkIsServed ==
    Durable /\ SingleWriter =>
        (HttpSpec => [](\A c \in Containers : mounted[c] => OkWrites \subseteq Contents(db[c])))
<1>1. DurableInv /\ StatusInv /\ ServesEveryAck
      => \A c \in Containers : mounted[c] => OkWrites \subseteq Contents(db[c])
    BY OkIsPromised DEF ServesEveryAck
<1> QED BY <1>1, HandlerIsAClient, DurableInvariant, StatusInvariant, EveryAckIsServed, PTL

\* Over HTTP as well rustyhip is an append-only log of transactions.
THEOREM HttpRefinement == Durable => (HttpSpec => ImplementsHttpLog)
<1> SUFFICES ASSUME Durable PROVE HttpSpec => ImplementsHttpLog
    OBVIOUS
<1>1. HttpInit => HttpLog!Init
    BY DEF HttpInit, Init, StorageInit, HttpLog!Init, OkWrites
<1>2. /\ DurableInv /\ StatusInv /\ TypeOK' /\ DurableInv' /\ StatusInv'
      /\ [HttpNext]_allVars
      => [HttpLog!Advance]_<<store, OkWrites>>
  <2> SUFFICES ASSUME DurableInv, StatusInv, TypeOK', DurableInv', StatusInv',
                      [HttpNext]_allVars
               PROVE  HttpLog!Advance
      OBVIOUS
  <2>1. HttpLog!Extends(store, store')
    <3>1. [Next]_vars
        BY HttpStep DEF allVars
    <3> QED BY <3>1, DurableStep DEF Grows, IsPrefixOf, HttpLog!Extends
  <2>2. \A i \in 1..Len(store') : store'[i] \subseteq Reqs
      BY DEF TypeOK, StorageTypeOK, Transactions
  <2>3. OkWrites' \subseteq HttpLog!Logged(store')
    <3>1. OkWrites' \subseteq Promised'
        BY DEF OkWrites, Promised, DurableInv, FlushInv, CallInv, StatusInv
    <3> QED BY <3>1 DEF DurableInv, AckedDurable, Contents, HttpLog!Logged
  <2>4. OkWrites \subseteq OkWrites'
      BY OkWritesStay
  <2> QED BY <2>1, <2>2, <2>3, <2>4 DEF HttpLog!Advance
<1> QED BY <1>1, <1>2, HandlerIsAClient, DurableInvariant, StatusInvariant, TypeCorrect, PTL
        DEF HttpSpec, ImplementsHttpLog, HttpLog!Spec

=============================================================================
