------------------------------ MODULE Bootstrap -----------------------------
(***************************************************************************)
(* The cold start of main.rs: the log gets its filter (logging.rs), the    *)
(* environment is read into knobs (settings.rs), the connection is opened  *)
(* and configured by pragmas and then closed to reconfiguration by the     *)
(* authorizer (db.rs), and what is left of the knobs goes to the handler   *)
(* (state.rs).                                                             *)
(*                                                                         *)
(* A raw value of a variable is one of a few words that the parsers treat  *)
(* differently: "legal" stands for an ordinary value of that variable,     *)
(* "min" for i64::MIN, "typo" for what no parser knows, "blank" for white  *)
(* space.  The release profile is modelled: i64::MIN.abs() wraps, and      *)
(* SQLite reads the "--" it leads to as a comment and reports an error.    *)
(***************************************************************************)
EXTENDS Statements, Naturals, Sequences, FiniteSets

CONSTANT MaxSet  \* how many knobs and log variables are set at once

ASSUME BootstrapAssumption == MaxSet \in 0..12

Words == {"unset", "empty", "blank", "typo", "off", "zero", "truncate", "min", "legal"}

\* The variables main() cannot do without.
Required == {"BUCKET", "DB_NAME"}

\* What each parser makes of the words it accepts.
Count == [zero |-> "zero", legal |-> "legal"]
Integer == [zero |-> "zero", min |-> "min", legal |-> "legal"]

Parser ==
    [ synchronous     |-> [off |-> "off", zero |-> "off", legal |-> "legal"],
      journal_mode    |-> [off |-> "off", truncate |-> "truncate", legal |-> "legal"],
      temp_store      |-> [zero |-> "default", legal |-> "legal"],
      cache_size      |-> Integer,
      mmap_size       |-> Integer,
      busy_timeout    |-> Count,
      max_rows        |-> Count,
      query_timeout   |-> Count,
      max_body        |-> Count,
      checkpoint_mode |-> [off |-> "off", truncate |-> "truncate", legal |-> "legal"] ]

Knobs == DOMAIN Parser

\* The order in which apply_pragmas goes through them.
PragmaOrder ==
    <<"journal_mode", "synchronous", "temp_store", "cache_size", "mmap_size", "busy_timeout">>

Pragmas == {PragmaOrder[i] : i \in DOMAIN PragmaOrder}
Limits == {"max_rows", "query_timeout", "max_body"}

\* The variables of the log's filter, and how tracing-subscriber reads one:
\* "level" lets warnings through, "quiet" is a higher level, and a bare word
\* that is no level ("WARNING", say) is the name of a target, the only one to
\* be logged; "invalid" does not parse.
LogVars == {"RUST_LOG", "LOG_LEVEL"}
LogWords == {"unset", "empty", "level", "quiet", "target", "invalid"}

VARIABLES env,      \* env[k]: the raw value of knob k
          log,      \* log[v]: the raw value of a variable of the filter
          filter,   \* the words the log's filter is made of
          missing,  \* required variables that are not set
          token,    \* the raw value of RUSTYHIP_AUTH_TOKEN
          phase,    \* where main() is
          knobs,    \* ConfigKnobs; a pragma or a limit may be "none"
          todo,     \* pragmas apply_pragmas has yet to reach
          conn,     \* conn[p]: the value in force, "default" until it is set
          refused,  \* pragmas SQLite did not take
          policy,   \* is the authorizer installed?
          warned,   \* what the log holds a warning of
          server    \* what AppState hands to the handler

bootVars == <<env, log, filter, missing, token, phase, knobs, todo, conn, refused, policy, warned, server>>

Phases == {"logging", "start", "storage", "knobs", "open", "opening", "serving",
           "unconfigured", "unreachable"}

NoServer == [auth |-> FALSE, max_body |-> "none", checkpoint |-> "truncate"]

\* A limit in force leaves room for a row, a millisecond or a byte.
BootTypeOK ==
    /\ env \in [Knobs -> Words]
    /\ log \in [LogVars -> LogWords]
    /\ filter \in LogWords \ {"unset", "invalid"}
    /\ missing \subseteq Required
    /\ token \in {"unset", "empty", "legal"}
    /\ phase \in Phases
    /\ knobs \in [Knobs -> Words \cup {"none", "default"}]
    /\ \A k \in Limits : knobs[k] \in {"none", "legal"}
    /\ conn \in [Pragmas -> Words \cup {"default"}]
    /\ refused \subseteq Pragmas
    /\ policy \in BOOLEAN
    /\ warned \subseteq Knobs \cup {"anonymous"}

BootInit ==
    /\ \E vs \in {s \in SUBSET (Knobs \cup LogVars) : Cardinality(s) <= MaxSet} :
           \E raw \in [vs \cap Knobs -> Words], said \in [vs \cap LogVars -> LogWords] :
               /\ env = [k \in Knobs |-> IF k \in vs THEN raw[k] ELSE "unset"]
               /\ log = [v \in LogVars |-> IF v \in vs THEN said[v] ELSE "unset"]
    /\ filter = "level"
    /\ missing \in SUBSET Required
    /\ token \in {"unset", "empty", "legal"}
    /\ phase = "logging"
    /\ knobs = [k \in Knobs |-> "none"]
    /\ todo = PragmaOrder
    /\ conn = [p \in Pragmas |-> "default"]
    /\ refused = {}
    /\ policy = FALSE
    /\ warned = {}
    /\ server = NoServer

-----------------------------------------------------------------------------
(* The environment.                                                        *)

Unset(k) == env[k] \in {"unset", "empty"}
Accepted(k) == env[k] \in DOMAIN Parser[k]

\* parse_env: a value the parser rejects counts as none, with a warning.
ParseEnv(k) == IF Accepted(k) THEN Parser[k][env[k]] ELSE "none"

\* A limit of zero means no limit.  Mutant: the filter is missing.
AnyNumber(v) == v

NonZero(v) == IF v = "zero" THEN "none" ELSE v

OrTruncate(v) == IF v = "none" THEN "truncate" ELSE v

ConfigKnobs ==
    [k \in Knobs |->
        CASE k \in Limits           -> NonZero(ParseEnv(k))
          [] k = "checkpoint_mode"  -> OrTruncate(ParseEnv(k))
          [] OTHER                  -> ParseEnv(k)]

\* auth_token: an empty token is none, and authentication is off.
AuthSet == token = "legal"

Rejected == {k \in Knobs : ~Unset(k) /\ ~Accepted(k)}

-----------------------------------------------------------------------------
(* The log.                                                                *)

\* env::var and EnvFilter::try_new: a filter, or an error.
IsFilter(word) == word \notin {"unset", "invalid"}

\* Mutant: LOG_LEVEL comes first.
ResolvedByLevel ==
    IF IsFilter(log["LOG_LEVEL"]) THEN log["LOG_LEVEL"]
    ELSE IF IsFilter(log["RUST_LOG"]) THEN log["RUST_LOG"] ELSE "level"

\* RUST_LOG, else LOG_LEVEL, else info.
Resolved ==
    IF IsFilter(log["RUST_LOG"]) THEN log["RUST_LOG"]
    ELSE IF IsFilter(log["LOG_LEVEL"]) THEN log["LOG_LEVEL"] ELSE "level"

InitLogging ==
    /\ phase = "logging"
    /\ phase' = "start"
    /\ filter' = Resolved
    /\ UNCHANGED <<env, log, missing, token, knobs, todo, conn, refused, policy, warned, server>>

\* warn!: the log holds what its filter lets through.
Warn(things) == warned' = warned \cup (IF filter = "level" THEN things ELSE {})

-----------------------------------------------------------------------------
(* The steps of main().                                                    *)

ReadRequired ==
    /\ phase = "start"
    /\ phase' = IF missing = {} THEN "storage" ELSE "unconfigured"
    /\ UNCHANGED <<env, log, filter, missing, token, knobs, todo, conn, refused, policy, warned, server>>

\* The cache directory is made, turbolite built and registered.
RegisterVfs ==
    /\ phase = "storage"
    /\ phase' \in {"knobs", "unreachable"}
    /\ UNCHANGED <<env, log, filter, missing, token, knobs, todo, conn, refused, policy, warned, server>>

Unsafe(mode) == mode # "truncate"

ReadKnobs ==
    /\ phase = "knobs"
    /\ phase' = "open"
    /\ knobs' = ConfigKnobs
    /\ Warn(Rejected \cup {k \in {"checkpoint_mode"} : Unsafe(ConfigKnobs[k])})
    /\ UNCHANGED <<env, log, filter, missing, token, todo, conn, refused, policy, server>>

OpenConnection ==
    /\ phase = "open"
    /\ phase' \in {"opening", "unreachable"}
    /\ UNCHANGED <<env, log, filter, missing, token, knobs, todo, conn, refused, policy, warned, server>>

\* The authorizer is asked about bootstrap's own statements too.
Denied(p) == policy /\ ~AuthorizePragma(p, TRUE)

Malformed(p) == p = "cache_size" /\ knobs[p] = "min"

\* try_pragma.  SQLite may keep the previous value: with an error, which is
\* logged and no more, or, for what the VFS cannot do, without.
TryPragma(p, taken) ==
    /\ taken => ~Denied(p) /\ ~Malformed(p)
    /\ conn' = IF taken THEN [conn EXCEPT ![p] = knobs[p]] ELSE conn
    /\ refused' = IF taken \/ Denied(p) THEN refused ELSE refused \cup {p}
    /\ \/ ~taken /\ Warn({p})
       \/ (taken \/ p \in {"journal_mode", "mmap_size"}) /\ UNCHANGED warned

ApplyPragma ==
    /\ phase = "opening"
    /\ todo # <<>>
    /\ todo' = Tail(todo)
    /\ IF knobs[Head(todo)] = "none"
       THEN UNCHANGED <<conn, refused, warned>>
       ELSE \E taken \in BOOLEAN : TryPragma(Head(todo), taken)
    /\ UNCHANGED <<env, log, filter, missing, token, phase, knobs, policy, server>>

\* Mutant: the authorizer is installed on the fresh connection.
PragmasDoneOrNot == TRUE

PragmasDone == todo = <<>>

InstallAuthorizer ==
    /\ phase = "opening"
    /\ ~policy
    /\ PragmasDone
    /\ policy' = TRUE
    /\ UNCHANGED <<env, log, filter, missing, token, phase, knobs, todo, conn, refused, warned, server>>

\* AppState::new, with_max_body_bytes, with_checkpoint_mode.
HandedOver == [auth       |-> AuthSet,
               max_body   |-> knobs["max_body"],
               checkpoint |-> knobs["checkpoint_mode"]]

StartServing ==
    /\ phase = "opening"
    /\ todo = <<>>
    /\ policy
    /\ phase' = "serving"
    /\ server' = HandedOver
    /\ Warn(IF AuthSet THEN {} ELSE {"anonymous"})
    /\ UNCHANGED <<env, log, filter, missing, token, knobs, todo, conn, refused, policy>>

BootNext == InitLogging \/ ReadRequired \/ RegisterVfs \/ ReadKnobs \/ OpenConnection
            \/ ApplyPragma \/ InstallAuthorizer \/ StartServing

BootSpec == BootInit /\ [][BootNext]_bootVars

-----------------------------------------------------------------------------
(* Properties.                                                             *)

\* What an operator asked for: a value the parser knows, other than a limit
\* of zero; else what SQLite or the handler does by itself.
Asked(k) == IF Accepted(k) /\ ~(k \in Limits /\ env[k] = "zero")
            THEN Parser[k][env[k]]
            ELSE CASE k \in Pragmas -> "default"
                   [] k \in Limits  -> "none"
                   [] OTHER         -> "truncate"

\* A container that serves runs under the configuration it was given: each
\* pragma is in force unless SQLite itself would not take it, and db.rs and
\* the handler got their limits and the checkpoint mode (db.rs:158-165).
ConfigInForce ==
    phase = "serving" =>
        /\ \A p \in Pragmas \ refused : conn[p] = Asked(p)
        /\ \A k \in {"max_rows", "query_timeout"} : knobs[k] = Asked(k)
        /\ server.max_body = Asked("max_body")
        /\ server.checkpoint = Asked("checkpoint_mode")

\* The operator did not ask for a log without warnings: a filter in RUST_LOG
\* lets them through, or neither variable has one that does not.
WarningsWanted ==
    \/ log["RUST_LOG"] = "level"
    \/ \A v \in LogVars : log[v] \in {"unset", "invalid", "level"}

\* A container that serves anonymous traffic, that checkpoints by another
\* mode than truncate, or whose configuration differs from the words of its
\* environment for a bad value has said so in its log, unless the log was
\* asked to be silent; a filter that does not parse never silences it
\* (main.rs:77-83, 93-97, settings.rs:248-255, logging.rs:51-58).
WeakSetupIsAnnounced ==
    phase = "serving" /\ WarningsWanted =>
        /\ ~server.auth => "anonymous" \in warned
        /\ server.checkpoint # "truncate" => "checkpoint_mode" \in warned
        /\ \A k \in Knobs : env[k] \in {"blank", "typo"} => k \in warned

=============================================================================
