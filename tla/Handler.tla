------------------------------ MODULE Handler ------------------------------
(***************************************************************************)
(* handle of src/handler.rs over SqliteDb: the bearer token, the route and *)
(* the body are checked in this order, what is left is an /sql call handed *)
(* to exec_durable, and its result is mapped to an HTTP status.            *)
(*                                                                         *)
(* lambda_http::run gives a process one invocation at a time.  The gateway *)
(* may give up on one that is too slow, which does not stop the process.   *)
(***************************************************************************)
EXTENDS SqliteDb

CONSTANTS AuthSet,      \* is RUSTYHIP_AUTH_TOKEN set?
          BodyCap,      \* is RUSTYHIP_MAX_BODY_BYTES set?
          RequestsSent  \* the requests clients send

\* What the handler tells apart in a request.
Request == [token : {"right", "wrong", "missing"},
            route : {"sql", "health", "unknown"},
            large : BOOLEAN,   \* longer than the cap
            valid : BOOLEAN]   \* a JSON SqlRequest

ASSUME HandlerAssumption ==
    /\ {AuthSet, BodyCap} \subseteq BOOLEAN
    /\ RequestsSent \subseteq Request

VARIABLES request,  \* request[r]: what was received
          status    \* status[r]: the HTTP status of the response, once sent

httpVars == <<request, status>>
allVars == <<vars, httpVars>>

\* none: not received yet; open: being handled; lost: never answered.  The
\* two kinds of 400 differ in the code of their body.
Statuses == {"none", "open", "200", "400", "400_sql", "401", "404", "413", "500", "lost"}

\* RUSTYHIP_E_* in the body of an error response; none where there is none.
Code(s) ==
    CASE s = "400_sql"          -> "SQL"
      [] s \in {"400", "413"}   -> "VALIDATION"
      [] s = "401"              -> "UNAUTHORIZED"
      [] s = "404"              -> "NOT_FOUND"
      [] s = "500"              -> "INTERNAL"
      [] OTHER                  -> "none"

HttpTypeOK ==
    /\ TypeOK
    /\ request \in [Reqs -> Request]
    /\ status \in [Reqs -> Statuses]

HttpInit ==
    /\ Init
    /\ request = [r \in Reqs |-> [token |-> "missing", route |-> "unknown",
                                  large |-> FALSE, valid |-> FALSE]]
    /\ status = [r \in Reqs |-> "none"]

-----------------------------------------------------------------------------

\* Mutant: a request that carries no token at all gets in.
CheckAuthIfPresent(q) == ~AuthSet \/ q.token # "wrong"

CheckAuth(q) == ~AuthSet \/ q.token = "right"

\* parse_sql_request: the size comes before the JSON.
Accepts(q) == ~(BodyCap /\ q.large) /\ q.valid

\* The status of a request that never reaches the database, or open.
Verdict(q) ==
    IF ~CheckAuth(q) THEN "401"
    ELSE IF q.route = "health" THEN "200"
    ELSE IF q.route = "unknown" THEN "404"
    ELSE IF Accepts(q) THEN "open"
    ELSE IF BodyCap /\ q.large THEN "413" ELSE "400"

\* Mutant: only a failed statement is an error to the client.
StatusOfCommitted(answer) == IF answer = "sql" THEN "400_sql" ELSE "200"

\* Mutant: a failed statement is reported as an invalid request.
StatusOfMerged(answer) ==
    IF answer = "ok" THEN "200" ELSE IF answer = "sql" THEN "400" ELSE "500"

\* Mutant: a new variant of ExecError is given a status of its own.
StatusOfUnavailable(answer) ==
    CASE answer = "ok"               -> "200"
      [] answer = "sql"              -> "400_sql"
      [] answer = "checkpoint_error" -> "503"
      [] answer = "internal"         -> "500"

\* The match on the result of exec_durable.
StatusOf(answer) ==
    CASE answer = "ok"                              -> "200"
      [] answer = "sql"                             -> "400_sql"
      [] answer \in {"checkpoint_error", "internal"} -> "500"

\* The process waits for its next invocation.
Idle(c) ==
    \A r \in Reqs : at[r] = c => /\ status[r] # "open"
                                 /\ call[r] \notin {"queued", "checkpoint"}

Received(r, q) ==
    /\ status[r] = "none"
    /\ request' = [request EXCEPT ![r] = q]
    /\ status' = [status EXCEPT ![r] = Verdict(q)]

\* Answered without a look at the database.
Refuse(r, c, q) ==
    /\ mounted[c]
    /\ Idle(c)
    /\ Verdict(q) # "open"
    /\ Received(r, q)
    /\ UNCHANGED vars

Admit(r, c, q, kind) ==
    /\ Idle(c)
    /\ Verdict(q) = "open"
    /\ Received(r, q)
    /\ Submit(r, c, kind)

\* Mutant: the response is sent while the blocking task is still at work.
RespondEarly(r) ==
    /\ status[r] = "open"
    /\ call[r] # "lost"
    /\ status' = [status EXCEPT ![r] = IF call[r] \in Answers THEN StatusOf(call[r])
                                       ELSE "200"]
    /\ UNCHANGED <<vars, request>>

Respond(r) ==
    /\ status[r] = "open"
    /\ call[r] \in Answers \ {"lost"}
    /\ status' = [status EXCEPT ![r] = StatusOf(call[r])]
    /\ UNCHANGED <<vars, request>>

\* The gateway gives up; the statement goes on.
GiveUp(r) ==
    /\ status[r] = "open"
    /\ status' = [status EXCEPT ![r] = "lost"]
    /\ UNCHANGED <<vars, request>>

\* The process dies with its invocation, answered by exec_durable or not.
LambdaCrash(c) ==
    /\ Crash(c)
    /\ status' = [r \in Reqs |-> IF at[r] = c /\ status[r] = "open"
                                 THEN "lost" ELSE status[r]]
    /\ UNCHANGED request

\* Steps of the database that the HTTP layer has no part in.
DatabaseStep ==
    /\ \/ \E c \in Containers : Open(c) \/ AutoCheckpoint(c) \/ OtherConnection(c)
       \/ \E r \in Reqs : Panic(r)
    /\ UNCHANGED httpVars

ServeRequest(r) == Serve(r) /\ UNCHANGED httpVars

HttpNext ==
    \/ DatabaseStep
    \/ \E c \in Containers : LambdaCrash(c)
    \/ \E r \in Reqs :
          \/ ServeRequest(r)
          \/ Respond(r)
          \/ GiveUp(r)
          \/ \E c \in Containers, q \in RequestsSent :
                \/ Refuse(r, c, q)
                \/ \E kind \in KindsSent : Admit(r, c, q, kind)

HttpSpec == HttpInit /\ [][HttpNext]_allVars

\* The runtime of a process polls the handler until it is done, and runs the
\* blocking task it awaits.  Nobody need give up, and nothing need crash.
Progress(c) == \E r \in Reqs : at[r] = c /\ (ServeRequest(r) \/ Respond(r))

FairHttpSpec == HttpSpec /\ \A c \in Containers : WF_allVars(Progress(c))

-----------------------------------------------------------------------------
(* Properties.                                                             *)

\* The writes clients hold a 200 for.
OkWrites == UNION {commits[r] : r \in {q \in Reqs : status[q] = "200"}}

\* End to end: what a client was told with 200 is in S3, whatever happened to
\* the process between the answer of exec_durable and the response.
OkIsDurable == OkWrites \subseteq Contents(store)

\* A request whose rows are found in S3, on a connection or in an open
\* transaction.
LeftTrace(r) ==
    \/ r \in Contents(store)
    \/ \E c \in Containers : r \in Contents(db[c]) \cup pending[c]

\* Rows come from requests with the right token, to /sql, in a body that was
\* accepted, and from no other.
NoUncheckedWrite ==
    \A r \in Reqs :
        LeftTrace(r) =>
            /\ AuthSet => request[r].token = "right"
            /\ request[r].route = "sql"
            /\ BodyCap => ~request[r].large
            /\ request[r].valid

\* The code of a response is enough to know that a retry cannot apply a write
\* twice: VALIDATION, UNAUTHORIZED and NOT_FOUND leave nothing behind.  SQL
\* and INTERNAL promise no such thing, and neither does silence.
RefusalLeavesNoTrace ==
    \A r \in Reqs :
        Code(status[r]) \in {"VALIDATION", "UNAUTHORIZED", "NOT_FOUND"} => ~LeftTrace(r)

\* No client waits for ever: each request is answered, or its connection ends.
\* A request is opened once, so in the end none is open.
EveryRequestAnswered == <>[](\A r \in Reqs : status[r] # "open")

\* What a client may rely on, from its side of HTTP: the same append-only log,
\* where a promise is a response 200.
HttpLog == INSTANCE DurableLog WITH Writes <- Reqs, log <- store, promised <- OkWrites

ImplementsHttpLog == HttpLog!Spec

=============================================================================
