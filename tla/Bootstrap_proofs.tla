-------------------------- MODULE Bootstrap_proofs --------------------------
(***************************************************************************)
(* A container that serves runs under the configuration it was given,      *)
(* whatever its environment: not only for the pairs of variables of the    *)
(* run, but for all twelve of them at once.                                *)
(***************************************************************************)
EXTENDS Bootstrap, TLAPS

Read == phase \in {"open", "opening", "serving"}

Reached(p) == \A i \in DOMAIN todo : todo[i] # p

\* A connection is configured up to the pragma apply_pragmas has reached, and
\* the authorizer waits for all of them: otherwise it would deny them.
BootInv ==
    /\ conn = [p \in Pragmas |-> conn[p]]
    /\ todo \in Seq(Pragmas)
    /\ Read => knobs = ConfigKnobs
    /\ policy => todo = <<>>
    /\ phase \notin {"opening", "serving"} =>
           /\ todo = PragmaOrder
           /\ \A p \in Pragmas : conn[p] = "default"
    /\ phase \in {"opening", "serving"} =>
           \A p \in Pragmas :
               /\ knobs[p] = "none" => conn[p] = "default"
               /\ Reached(p) /\ p \notin refused /\ knobs[p] # "none" => conn[p] = knobs[p]
    /\ phase = "serving" =>
           /\ todo = <<>>
           /\ server.max_body = knobs["max_body"]
           /\ server.checkpoint = knobs["checkpoint_mode"]

-----------------------------------------------------------------------------

\* No parser makes "none" of a value it accepts.
LEMMA ParserNeverNone ==
    ASSUME NEW k \in Knobs, NEW w \in DOMAIN Parser[k]
    PROVE  Parser[k][w] # "none"
BY DEF Knobs, Parser, Count, Integer

LEMMA KnobNames ==
    /\ Pragmas \subseteq Knobs
    /\ Limits \subseteq Knobs
    /\ "checkpoint_mode" \in Knobs
    /\ Pragmas \cap Limits = {}
    /\ "checkpoint_mode" \notin Pragmas \cup Limits
<1>1. Pragmas = {"journal_mode", "synchronous", "temp_store", "cache_size",
                 "mmap_size", "busy_timeout"}
  BY DEF Pragmas, PragmaOrder
<1>2. QED
  BY <1>1 DEF Knobs, Parser, Limits

LEMMA OrderIsOfPragmas == PragmaOrder \in Seq(Pragmas)
BY DEF PragmaOrder, Pragmas

LEMMA OrderReachesAll == \A p \in Pragmas : \E i \in DOMAIN PragmaOrder : PragmaOrder[i] = p
BY DEF Pragmas

LEMMA PragmaReached ==
    ASSUME NEW s \in Seq(Pragmas), s # <<>>, NEW p \in Pragmas,
           \A i \in DOMAIN Tail(s) : Tail(s)[i] # p
    PROVE  p = Head(s) \/ \A i \in DOMAIN s : s[i] # p
<1>1. SUFFICES ASSUME p # Head(s), NEW i \in DOMAIN s, s[i] = p
               PROVE  FALSE
  OBVIOUS
<1>2. i \in 2..Len(s)
  BY <1>1
<1>3. i - 1 \in DOMAIN Tail(s) /\ Tail(s)[i - 1] = p
  BY <1>1, <1>2
<1>4. QED
  BY <1>3

-----------------------------------------------------------------------------

LEMMA BootInvInit == BootInit => BootInv
BY OrderIsOfPragmas DEF BootInit, BootInv, Read

LEMMA BootInvNext == BootInv /\ [BootNext]_bootVars => BootInv'
<1> SUFFICES ASSUME BootInv, [BootNext]_bootVars
             PROVE  BootInv'
  OBVIOUS
<1>1. CASE ReadRequired
  BY <1>1 DEF BootInv, ReadRequired, Read
<1>2. CASE RegisterVfs
  BY <1>2 DEF BootInv, RegisterVfs, Read
<1>3. CASE ReadKnobs
  <2>1. ConfigKnobs' = ConfigKnobs
    BY <1>3 DEF ReadKnobs, ConfigKnobs, ParseEnv, Accepted
  <2>2. QED
    BY <1>3, <2>1 DEF BootInv, ReadKnobs, Read
<1>4. CASE OpenConnection
  <2>1. ConfigKnobs' = ConfigKnobs
    BY <1>4 DEF OpenConnection, ConfigKnobs, ParseEnv, Accepted
  <2>2. \A p \in Pragmas : ~Reached(p)
    BY <1>4, OrderReachesAll DEF BootInv, OpenConnection, Reached
  <2>3. QED
    BY <1>4, <2>1, <2>2 DEF BootInv, OpenConnection, Read, Reached
<1>5. CASE ApplyPragma
  <2>1. ConfigKnobs' = ConfigKnobs
    BY <1>5 DEF ApplyPragma, ConfigKnobs, ParseEnv, Accepted
  <2>2. /\ todo \in Seq(Pragmas) /\ todo # <<>> /\ ~policy
        /\ Head(todo) \in Pragmas
        /\ todo' = Tail(todo) /\ todo' \in Seq(Pragmas)
    BY <1>5 DEF ApplyPragma, BootInv
  <2>3. conn' = [p \in Pragmas |-> conn'[p]]
    BY <1>5, <2>2 DEF ApplyPragma, TryPragma, BootInv
  <2>4. ASSUME NEW p \in Pragmas
        PROVE  /\ knobs'[p] = "none" => conn'[p] = "default"
               /\ Reached(p)' /\ p \notin refused' /\ knobs'[p] # "none" => conn'[p] = knobs'[p]
    <3>1. CASE p = Head(todo)
      BY <1>5, <2>2, <3>1 DEF ApplyPragma, TryPragma, Denied, BootInv
    <3>2. CASE p # Head(todo)
      <4>1. Reached(p)' => Reached(p)
        BY <2>2, <3>2, PragmaReached DEF Reached
      <4>2. conn'[p] = conn[p] /\ knobs' = knobs /\ (p \in refused => p \in refused')
        BY <1>5, <2>2, <3>2 DEF ApplyPragma, TryPragma, BootInv
      <4>3. phase = "opening"
        BY <1>5 DEF ApplyPragma
      <4>4. QED
        BY <4>1, <4>2, <4>3 DEF BootInv
    <3>3. QED
      BY <3>1, <3>2
  <2>5. QED
    BY <1>5, <2>1, <2>2, <2>3, <2>4 DEF ApplyPragma, BootInv, Read
<1>6. CASE InstallAuthorizer
  <2>1. ConfigKnobs' = ConfigKnobs
    BY <1>6 DEF InstallAuthorizer, ConfigKnobs, ParseEnv, Accepted
  <2>2. QED
    BY <1>6, <2>1 DEF BootInv, InstallAuthorizer, PragmasDone, Read, Reached
<1>7. CASE StartServing
  <2>1. ConfigKnobs' = ConfigKnobs
    BY <1>7 DEF StartServing, ConfigKnobs, ParseEnv, Accepted
  <2>2. QED
    BY <1>7, <2>1 DEF BootInv, StartServing, HandedOver, Read, Reached
<1>8. CASE InitLogging
  <2>1. ConfigKnobs' = ConfigKnobs
    BY <1>8 DEF InitLogging, ConfigKnobs, ParseEnv, Accepted
  <2>2. QED
    BY <1>8, <2>1 DEF BootInv, InitLogging, Read, Reached
<1>9. CASE UNCHANGED bootVars
  <2>1. ConfigKnobs' = ConfigKnobs
    BY <1>9 DEF bootVars, ConfigKnobs, ParseEnv, Accepted
  <2>2. QED
    BY <1>9, <2>1 DEF bootVars, BootInv, Read, Reached
<1>10. QED
  BY <1>1, <1>2, <1>3, <1>4, <1>5, <1>6, <1>7, <1>8, <1>9 DEF BootNext

LEMMA BootInvIsConfig == BootInv => ConfigInForce
<1> SUFFICES ASSUME BootInv, phase = "serving"
             PROVE  /\ \A p \in Pragmas \ refused : conn[p] = Asked(p)
                    /\ \A k \in {"max_rows", "query_timeout"} : knobs[k] = Asked(k)
                    /\ server.max_body = Asked("max_body")
                    /\ server.checkpoint = Asked("checkpoint_mode")
  BY DEF ConfigInForce
<1>1. knobs = ConfigKnobs /\ todo = <<>>
  BY DEF BootInv, Read
<1>2. ASSUME NEW p \in Pragmas \ refused
      PROVE  conn[p] = Asked(p)
  <2>1. p \in Knobs /\ p \notin Limits /\ p # "checkpoint_mode"
    BY KnobNames
  <2>2. knobs[p] = ParseEnv(p)
    BY <1>1, <2>1 DEF ConfigKnobs
  <2>3. Reached(p)
    BY <1>1 DEF Reached
  <2>4. CASE Accepted(p)
    <3>1. ParseEnv(p) # "none"
      BY <2>1, <2>4, ParserNeverNone DEF ParseEnv, Accepted
    <3>2. QED
      BY <2>1, <2>2, <2>3, <2>4, <3>1 DEF BootInv, Asked, ParseEnv
  <2>5. CASE ~Accepted(p)
    BY <2>1, <2>2, <2>5 DEF BootInv, Asked, ParseEnv
  <2>6. QED
    BY <2>4, <2>5
<1>3. ASSUME NEW k \in Limits
      PROVE  knobs[k] = Asked(k)
  <2>1. k \in Knobs /\ k \notin Pragmas /\ k # "checkpoint_mode"
    BY KnobNames
  <2>2. knobs[k] = NonZero(ParseEnv(k))
    BY <1>1, <2>1 DEF ConfigKnobs
  <2>3. Accepted(k) => (Parser[k][env[k]] = "zero" <=> env[k] = "zero")
    BY DEF Accepted, Limits, Parser, Count
  <2>4. QED
    BY <2>1, <2>2, <2>3 DEF NonZero, ParseEnv, Asked
<1>4. knobs["checkpoint_mode"] = Asked("checkpoint_mode")
  <2>1. knobs["checkpoint_mode"] = OrTruncate(ParseEnv("checkpoint_mode"))
    BY <1>1, KnobNames DEF ConfigKnobs
  <2>2. Accepted("checkpoint_mode") => ParseEnv("checkpoint_mode") # "none"
    BY KnobNames, ParserNeverNone DEF Accepted, ParseEnv
  <2>3. QED
    BY <2>1, <2>2, KnobNames DEF OrTruncate, ParseEnv, Asked
<1>5. QED
  BY <1>2, <1>3, <1>4 DEF BootInv, Limits

-----------------------------------------------------------------------------
(* Types.                                                                  *)

LEMMA ParsersAreTyped ==
    ASSUME NEW k \in Knobs, NEW w \in DOMAIN Parser[k]
    PROVE  Parser[k][w] \in Words \cup {"default"}
BY DEF Knobs, Parser, Count, Integer, Words

LEMMA KnobsAreTyped ==
    /\ ConfigKnobs \in [Knobs -> Words \cup {"none", "default"}]
    /\ \A k \in Limits : ConfigKnobs[k] \in {"none", "legal"}
<1>1. ASSUME NEW k \in Knobs
      PROVE  ParseEnv(k) \in Words \cup {"none", "default"}
  BY ParsersAreTyped DEF ParseEnv, Accepted
<1>2. ASSUME NEW k \in Knobs
      PROVE  ConfigKnobs[k] \in Words \cup {"none", "default"}
  <2>1. "truncate" \in Words
    BY DEF Words
  <2>2. QED
    BY <1>1, <2>1 DEF ConfigKnobs, NonZero, OrTruncate
<1>3. ASSUME NEW k \in Limits
      PROVE  ConfigKnobs[k] \in {"none", "legal"}
  <2>1. k \in Knobs /\ k # "checkpoint_mode"
    BY KnobNames
  <2>2. Accepted(k) => Parser[k][env[k]] \in {"zero", "legal"}
    BY DEF Accepted, Limits, Parser, Count
  <2>3. QED
    BY <2>1, <2>2, <1>3 DEF ConfigKnobs, NonZero, ParseEnv
<1>4. ConfigKnobs = [k \in Knobs |-> ConfigKnobs[k]]
  BY DEF ConfigKnobs
<1>5. QED
  BY <1>2, <1>3, <1>4

\* What every step keeps for the type of what it does not touch.
BootTyped == BootTypeOK /\ todo \in Seq(Pragmas)

LEMMA BootTypedInit == BootInit => BootTyped
<1> SUFFICES ASSUME BootInit
             PROVE  BootTyped
  OBVIOUS
<1>1. PICK vs \in {s \in SUBSET (Knobs \cup LogVars) : Cardinality(s) <= MaxSet} :
           \E raw \in [vs \cap Knobs -> Words], said \in [vs \cap LogVars -> LogWords] :
               /\ env = [k \in Knobs |-> IF k \in vs THEN raw[k] ELSE "unset"]
               /\ log = [v \in LogVars |-> IF v \in vs THEN said[v] ELSE "unset"]
  BY DEF BootInit
<1>2. PICK raw \in [vs \cap Knobs -> Words], said \in [vs \cap LogVars -> LogWords] :
           /\ env = [k \in Knobs |-> IF k \in vs THEN raw[k] ELSE "unset"]
           /\ log = [v \in LogVars |-> IF v \in vs THEN said[v] ELSE "unset"]
  BY <1>1
<1>3. env \in [Knobs -> Words] /\ log \in [LogVars -> LogWords]
  BY <1>2 DEF Words, LogWords
<1>4. \A k \in Limits : k \in Knobs
  BY KnobNames
<1>5. QED
  BY <1>3, <1>4, OrderIsOfPragmas
     DEF BootInit, BootTyped, BootTypeOK, LogWords, Phases, Required

LEMMA WarnIsTyped ==
    ASSUME BootTypeOK, NEW S \in SUBSET (Knobs \cup {"anonymous"}), Warn(S)
    PROVE  warned' \subseteq Knobs \cup {"anonymous"}
BY DEF BootTypeOK, Warn

LEMMA BootTypedNext == BootTyped /\ [BootNext]_bootVars => BootTyped'
<1> SUFFICES ASSUME BootTyped, [BootNext]_bootVars
             PROVE  BootTyped'
  OBVIOUS
<1> USE DEF BootTyped
<1>1. CASE InitLogging
  <2>1. Resolved \in LogWords \ {"unset", "invalid"}
    BY DEF BootTypeOK, Resolved, IsFilter, LogVars, LogWords
  <2>2. QED
    BY <1>1, <2>1 DEF BootTypeOK, InitLogging, Phases
<1>2. CASE ReadRequired
  BY <1>2 DEF BootTypeOK, ReadRequired, Phases
<1>3. CASE RegisterVfs
  BY <1>3 DEF BootTypeOK, RegisterVfs, Phases
<1>4. CASE ReadKnobs
  <2>1. warned' \subseteq Knobs \cup {"anonymous"}
    <3>1. Rejected \cup {k \in {"checkpoint_mode"} : Unsafe(ConfigKnobs[k])}
              \in SUBSET (Knobs \cup {"anonymous"})
      BY KnobNames DEF Rejected
    <3>2. QED
      BY <1>4, <3>1, WarnIsTyped DEF ReadKnobs
  <2>2. QED
    BY <1>4, <2>1, KnobsAreTyped DEF BootTypeOK, ReadKnobs, Phases
<1>5. CASE OpenConnection
  BY <1>5 DEF BootTypeOK, OpenConnection, Phases
<1>6. CASE ApplyPragma
  <2>1. todo # <<>> /\ Head(todo) \in Pragmas /\ todo' \in Seq(Pragmas)
    BY <1>6 DEF ApplyPragma
  <2>2. CASE knobs[Head(todo)] = "none"
    BY <1>6, <2>1, <2>2 DEF BootTypeOK, ApplyPragma
  <2>3. CASE knobs[Head(todo)] # "none"
    <3> DEFINE p == Head(todo)
    <3>1. PICK taken \in BOOLEAN : TryPragma(p, taken)
      BY <1>6, <2>3 DEF ApplyPragma
    <3>2. p \in Knobs /\ knobs[p] \in Words \cup {"default"}
      BY <2>1, <2>3, KnobNames DEF BootTypeOK
    <3>3. conn' \in [Pragmas -> Words \cup {"default"}]
      BY <2>1, <3>1, <3>2 DEF BootTypeOK, TryPragma
    <3>4. refused' \subseteq Pragmas
      BY <2>1, <3>1 DEF BootTypeOK, TryPragma
    <3>5. warned' \subseteq Knobs \cup {"anonymous"}
      BY <3>1, <3>2, WarnIsTyped DEF BootTypeOK, TryPragma
    <3>6. QED
      BY <1>6, <2>1, <3>3, <3>4, <3>5 DEF BootTypeOK, ApplyPragma
  <2>4. QED
    BY <2>2, <2>3
<1>7. CASE InstallAuthorizer
  BY <1>7 DEF BootTypeOK, InstallAuthorizer
<1>8. CASE StartServing
  <2>1. warned' \subseteq Knobs \cup {"anonymous"}
    BY <1>8, WarnIsTyped DEF StartServing
  <2>2. QED
    BY <1>8, <2>1 DEF BootTypeOK, StartServing, Phases
<1>9. CASE UNCHANGED bootVars
  BY <1>9 DEF BootTypeOK, bootVars
<1>10. QED
  BY <1>1, <1>2, <1>3, <1>4, <1>5, <1>6, <1>7, <1>8, <1>9 DEF BootNext

-----------------------------------------------------------------------------
(* Warnings.                                                               *)

\* The filter is the environment's from the first step on, and what there is
\* to warn of is in the log as soon as the knobs are read.
AnnounceInv ==
    /\ phase # "logging" => filter = Resolved
    /\ Read /\ filter = "level" =>
           /\ Rejected \subseteq warned
           /\ Unsafe(ConfigKnobs["checkpoint_mode"]) => "checkpoint_mode" \in warned
    /\ phase = "serving" /\ filter = "level" /\ ~server.auth => "anonymous" \in warned

LEMMA WarningsStay == [BootNext]_bootVars => warned \subseteq warned'
BY DEF BootNext, InitLogging, ReadRequired, RegisterVfs, ReadKnobs, OpenConnection,
       ApplyPragma, TryPragma, InstallAuthorizer, StartServing, Warn, bootVars

LEMMA EnvironmentStays ==
    [BootNext]_bootVars =>
        /\ env' = env /\ log' = log
        /\ Resolved' = Resolved /\ Rejected' = Rejected /\ ConfigKnobs' = ConfigKnobs
<1> SUFFICES ASSUME [BootNext]_bootVars
             PROVE  /\ env' = env /\ log' = log
                    /\ Resolved' = Resolved /\ Rejected' = Rejected
                    /\ ConfigKnobs' = ConfigKnobs
  OBVIOUS
<1>1. env' = env /\ log' = log
  BY DEF BootNext, InitLogging, ReadRequired, RegisterVfs, ReadKnobs, OpenConnection,
         ApplyPragma, InstallAuthorizer, StartServing, bootVars
<1>2. QED
  BY <1>1 DEF Resolved, Rejected, Unset, Accepted, ConfigKnobs, ParseEnv

LEMMA AnnounceInvInit == BootInit => AnnounceInv
BY DEF BootInit, AnnounceInv, Read

LEMMA AnnounceInvNext == AnnounceInv /\ [BootNext]_bootVars => AnnounceInv'
<1> SUFFICES ASSUME AnnounceInv, [BootNext]_bootVars
             PROVE  AnnounceInv'
  OBVIOUS
<1>1. warned \subseteq warned'
  BY WarningsStay
<1>2. Resolved' = Resolved /\ Rejected' = Rejected /\ ConfigKnobs' = ConfigKnobs
  BY EnvironmentStays
<1>3. CASE InitLogging
  BY <1>2, <1>3 DEF InitLogging, AnnounceInv, Read
<1>4. CASE ReadRequired \/ RegisterVfs
  BY <1>2, <1>4 DEF ReadRequired, RegisterVfs, AnnounceInv, Read
<1>5. CASE ReadKnobs
  <2>1. filter' = filter /\ phase' = "open" /\ phase = "knobs"
    BY <1>5 DEF ReadKnobs
  <2>2. filter = "level" =>
            /\ Rejected \subseteq warned'
            /\ Unsafe(ConfigKnobs["checkpoint_mode"]) => "checkpoint_mode" \in warned'
    BY <1>5 DEF ReadKnobs, Warn
  <2>3. QED
    BY <1>2, <2>1, <2>2 DEF AnnounceInv, Unsafe
<1>6. CASE OpenConnection \/ ApplyPragma \/ InstallAuthorizer \/ UNCHANGED bootVars
  <2>1. /\ filter' = filter /\ server' = server
        /\ phase' = "serving" => phase = "serving"
        /\ phase' # "logging" => phase # "logging"
    BY <1>6 DEF OpenConnection, ApplyPragma, InstallAuthorizer, bootVars, Read
  <2>2. Read' => Read
    BY <1>6 DEF OpenConnection, ApplyPragma, InstallAuthorizer, bootVars, Read
  <2>3. QED
    BY <1>1, <1>2, <2>1, <2>2 DEF AnnounceInv, Unsafe
<1>7. CASE StartServing
  <2>1. filter' = filter /\ phase = "opening" /\ phase' = "serving" /\ server'.auth = AuthSet
    BY <1>7 DEF StartServing, HandedOver
  <2>2. filter = "level" /\ ~AuthSet => "anonymous" \in warned'
    BY <1>7 DEF StartServing, Warn
  <2>3. QED
    BY <1>1, <1>2, <2>1, <2>2 DEF AnnounceInv, Read, Unsafe
<1>8. QED
  BY <1>3, <1>4, <1>5, <1>6, <1>7 DEF BootNext

LEMMA WarningsAreAnnounced == BootInv /\ AnnounceInv => WeakSetupIsAnnounced
<1> SUFFICES ASSUME BootInv, AnnounceInv, phase = "serving", WarningsWanted
             PROVE  /\ ~server.auth => "anonymous" \in warned
                    /\ server.checkpoint # "truncate" => "checkpoint_mode" \in warned
                    /\ \A k \in Knobs : env[k] \in {"blank", "typo"} => k \in warned
  BY DEF WeakSetupIsAnnounced
<1>1. Resolved = "level"
  BY DEF WarningsWanted, Resolved, IsFilter, LogVars
<1>2. filter = "level" /\ Read
  BY <1>1 DEF AnnounceInv, Read
<1>3. server.checkpoint # "truncate" => "checkpoint_mode" \in warned
  BY <1>2 DEF BootInv, AnnounceInv, Unsafe
<1>4. ASSUME NEW k \in Knobs, env[k] \in {"blank", "typo"}
      PROVE  k \in Rejected
  BY <1>4 DEF Rejected, Unset, Accepted, Knobs, Parser, Count, Integer
<1>5. QED
  BY <1>2, <1>3, <1>4 DEF AnnounceInv

-----------------------------------------------------------------------------

\* A container that serves has every pragma, limit and mode it was asked for,
\* short of what SQLite itself would not take, in any environment.
THEOREM ConfigHolds == BootSpec => []ConfigInForce
<1>1. BootSpec => []BootInv
  BY BootInvInit, BootInvNext, PTL DEF BootSpec
<1>2. QED
  BY <1>1, BootInvIsConfig, PTL

\* The start keeps its variables of their types, and a limit in force leaves
\* room for a row, a millisecond or a byte.
THEOREM BootTypeCorrect == BootSpec => []BootTypeOK
<1>1. BootSpec => []BootTyped
  BY BootTypedInit, BootTypedNext, PTL DEF BootSpec
<1>2. BootTyped => BootTypeOK
  BY DEF BootTyped
<1>3. QED
  BY <1>1, <1>2, PTL

\* A container that serves in a weaker setup than the default, or not in the
\* one its environment spells, has said so, unless its log was silenced.
THEOREM AnnouncementHolds == BootSpec => []WeakSetupIsAnnounced
<1>1. BootSpec => []BootInv
  BY BootInvInit, BootInvNext, PTL DEF BootSpec
<1>2. BootSpec => []AnnounceInv
  BY AnnounceInvInit, AnnounceInvNext, PTL DEF BootSpec
<1>3. QED
  BY <1>1, <1>2, WarningsAreAnnounced, PTL

=============================================================================
