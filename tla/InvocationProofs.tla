-------------------------- MODULE InvocationProofs --------------------------
(***************************************************************************)
(* Theorems about an invocation, for every command line, every script and  *)
(* every events: nothing happens before everything is accepted, the target *)
(* is the one that was named, a request has the fields that were asked     *)
(* for, filters hide and lose nothing that is saved, and payloads are      *)
(* shown as they are.                                                      *)
(***************************************************************************)
EXTENDS InvocationProperties, FiniteSetTheorems, SequenceTheorems, WellFoundedInduction, TLAPS

(***************************************************************************)
(* The stages of an invocation                                             *)
(***************************************************************************)
\* What the flags, and for a run the script's table, come to.
Effective ==
    IF line.command = "run" THEN ApplyConnection(line.flags, line.script.connection)
    ELSE line.flags

\* Every check of the command line and of the script has passed.
Accepted ==
    /\ Executes(line.command) /\ line.parses /\ Accepts(line.command, line.flags)
    /\ line.command = "run" =>
          line.scriptNamed /\ ValidScript(line.script) /\ ConnectionInRange(line.script.connection)

Ready == Accepted /\ options = Effective

Begun == pc \in {"dial", "running"} \/ Dialled \/ fileMade

\* The part of Accepted that is known before the script is read.
StageInv ==
    /\ line \in CommandLines
    /\ pc = "parse" => options = line.flags
    /\ pc = "script" =>
          /\ NeedsScript(line.command) /\ line.scriptNamed /\ line.parses
          /\ options = line.flags
          /\ Executes(line.command) => Accepts(line.command, line.flags)
    /\ pc = "output" => Ready
    /\ pc \in {"parse", "script", "tool", "output"} => ~Dialled /\ ~fileMade
    /\ Begun => /\ Ready
                /\ endpoint = ResolveEndpoint(options) /\ endpoint # {}
                /\ controller = NewOutputController

LEMMA StageInit == Init => StageInv
<1> SUFFICES ASSUME Init PROVE StageInv
  OBVIOUS
<1>1. ~Dialled /\ ~Begun
  BY DEF Init, Dialled, Begun
<1> QED
  BY <1>1 DEF Init, StageInv

LEMMA StageStep == StageInv /\ [Next]_vars => StageInv'
<1> SUFFICES ASSUME StageInv, [Next]_vars PROVE StageInv'
  OBVIOUS
<1> USE DEF StageInv
<1>1. ASSUME line' = line, options' = options PROVE
        Ready' = Ready /\ NewOutputController' = NewOutputController
              /\ ResolveEndpoint(options)' = ResolveEndpoint(options)
  BY <1>1 DEF Ready, Accepted, Effective, NewOutputController, CaptureTarget
<1>2. CASE Parse
  <2>1. pc = "parse" /\ line' = line /\ options' = options /\ session' = session
        /\ fileMade' = fileMade /\ endpoint' = endpoint /\ controller' = controller
    BY <1>2 DEF Parse, rest
  <2>2. ~Begun /\ ~Dialled' /\ ~fileMade'
    BY <2>1 DEF Begun, Dialled
  <2>3. CASE pc' = "exited"
    BY <2>1, <2>2, <2>3 DEF Begun, Dialled
  <2>4. CASE pc' # "exited"
    <3>1. /\ line.command # "help" /\ line.command # "none" /\ line.parses
          /\ NeedsScript(line.command) => line.scriptNamed
          /\ Executes(line.command) => Accepts(line.command, line.flags)
          /\ pc' = IF NeedsScript(line.command) THEN "script"
                   ELSE IF Executes(line.command) THEN "output" ELSE "tool"
      BY <1>2, <2>4 DEF Parse, Exit, Continue
    <3>2. ~Begun'
      BY <2>2, <3>1 DEF Begun
    <3>3. CASE NeedsScript(line.command)
      BY <2>1, <2>2, <3>1, <3>2, <3>3
    <3>4. CASE ~NeedsScript(line.command) /\ Executes(line.command)
      <4>1. Ready
        BY <2>1, <3>1, <3>4 DEF Ready, Accepted, Effective, NeedsScript
      <4> QED
        BY <1>1, <2>1, <2>2, <3>1, <3>2, <3>4, <4>1
    <3>5. CASE ~NeedsScript(line.command) /\ ~Executes(line.command)
      BY <2>1, <2>2, <3>1, <3>2, <3>5
    <3> QED
      BY <3>3, <3>4, <3>5
  <2> QED
    BY <2>3, <2>4
<1>3. CASE RunTool
  BY <1>1, <1>3 DEF RunTool, rest, Exit, Begun, Dialled
<1>4. CASE LoadScript
  <2>1. pc = "script" /\ line' = line /\ session' = session /\ fileMade' = fileMade
        /\ endpoint' = endpoint /\ controller' = controller
    BY <1>4 DEF LoadScript, rest
  <2>2. ~Dialled' /\ ~fileMade'
    BY <2>1 DEF Dialled
  <2>3. CASE pc' = "exited"
    BY <2>1, <2>2, <2>3 DEF Begun
  <2>4. CASE pc' # "exited"
    <3>1. /\ ValidScript(line.script) /\ line.command # "validate"
          /\ line.command = "run" => ConnectionInRange(line.script.connection)
          /\ options' = ApplyConnection(options, line.script.connection)
          /\ pc' = "output"
      BY <1>4, <2>4 DEF LoadScript, Exit, Continue
    <3>2. line.command = "run"
      BY <2>1, <3>1 DEF NeedsScript
    <3>3. Ready'
      BY <2>1, <3>1, <3>2 DEF Ready, Accepted, Effective, Executes
    <3> QED
      BY <2>1, <2>2, <3>1, <3>3 DEF Begun
  <2> QED
    BY <2>3, <2>4
<1>5. CASE Prepare
  <2>1. pc = "output" /\ line' = line /\ options' = options /\ session' = session
    BY <1>5 DEF Prepare
  <2>2. CASE pc' = "dial"
    <3>1. /\ endpoint' = ResolveEndpoint(options) /\ endpoint' # {}
          /\ controller' = NewOutputController
      BY <1>5, <2>2 DEF Prepare, PrepareOutput, Exit, Continue
    <3> QED
      BY <1>1, <2>1, <2>2, <3>1 DEF Dialled
  <2>3. CASE pc' = "exited"
    <3>1. fileMade' = fileMade
      BY <1>5, <2>3 DEF Prepare, PrepareOutput, Exit, Continue
    <3> QED
      BY <2>1, <2>3, <3>1 DEF Begun, Dialled
  <2> QED
    BY <1>5, <2>2, <2>3 DEF Prepare, PrepareOutput, Exit, Continue
<1>6. CASE Dial
  BY <1>1, <1>6 DEF Dial, Exit, Continue, Begun
<1>7. ASSUME pc = "running", pc' \in {"running", "exited"},
             UNCHANGED <<line, options, endpoint, controller, fileMade, session>>
      PROVE  StageInv'
  BY <1>1, <1>7 DEF Begun
<1>8. CASE BuildRequest
  BY <1>7, <1>8 DEF BuildRequest, Exit, Continue
<1>9. CASE EndSession
  BY <1>7, <1>9 DEF EndSession, rest, Exit
<1>10. CASE UNCHANGED vars
  BY <1>1, <1>10 DEF vars, Begun, Dialled
<1>11. ASSUME NEW event \in Events,
              PrintNotice(event) \/ HandleSent(event) \/ HandleReceived(event)
       PROVE  StageInv'
  BY <1>7, <1>11 DEF PrintNotice, HandleSent, HandleReceived, Display, Exit, Continue
<1> QED
  BY <1>2, <1>3, <1>4, <1>5, <1>6, <1>8, <1>9, <1>10, <1>11 DEF Next, Terminated

LEMMA StageAlways == Spec => []StageInv
  BY StageInit, StageStep, PTL DEF Spec

(***************************************************************************)
(* The target                                                              *)
(***************************************************************************)
LEMMA MaxOfOne == ASSUME NEW p \in Int PROVE Max({p}) = p
  BY DEF Max

\* The only member of a set of at most one number is its maximum.
LEMMA OnlyMember ==
    ASSUME NEW S \in SUBSET Nat, S # {}, \A p, q \in S : p = q
    PROVE  /\ Max(S) \in S /\ Max(S) = CHOOSE p \in S : TRUE
<1>1. PICK n : n \in S
  OBVIOUS
<1>2. \A q \in S : q = n
  BY <1>1
<1>3. S = {n}
  BY <1>1, <1>2
<1>4. Max(S) = n
  BY <1>1, <1>3, MaxOfOne
<1> QED
  BY <1>3, <1>4

\* What resolveEndpoint makes of options whose URL is one that net/url returns.
Resolved(o, t) ==
    /\ ResolveEndpoint(o) = {t}
    /\ t.scheme = "https" /\ t.port \in 0..MaxPort
    /\ t.host = IF o.url.given THEN o.url.host ELSE o.host
    /\ t.path = PathOr(IF o.url.given THEN o.url.path ELSE o.path)
    /\ o.url.given =>
          /\ o.url.absolute /\ o.url.host # ""
          /\ IF o.url.port = {} THEN t.port = DefaultPort ELSE t.port \in o.url.port
    /\ ~o.url.given => t.port = o.port
    /\ o.authority # "" => t.authority = Authority(o.authority, {})
    /\ o.authority = "" =>
          /\ t.authority.host = t.host
          /\ t.port = IF t.authority.port = {} THEN DefaultPort
                      ELSE CHOOSE p \in t.authority.port : TRUE

LEMMA ResolvesUrl ==
    ASSUME NEW o, o.url \in Urls, AtMostOnePort(o.url), o.url.given, ResolveEndpoint(o) # {}
    PROVE  \E t : Resolved(o, t)
<1> DEFINE u == o.url
           port == IF u.port = {} THEN DefaultPort ELSE Max(u.port)
           t == Endpoint(u.scheme, u.host, AuthorityOr(o, Authority(u.host, u.port)),
                         PathOr(u.path), port)
<1>1. u.port \in SUBSET Nat /\ \A p, q \in u.port : p = q
  <2>1. u # NoUrl
    BY DEF NoUrl
  <2>2. u \in [given : {TRUE}, absolute : BOOLEAN, scheme : STRING, host : STRING,
               port : SUBSET Nat, path : STRING]
    BY <2>1 DEF Urls
  <2> QED
    BY <2>2 DEF AtMostOnePort
<1>2. /\ ResolveEndpoint(o) = {t} /\ u.scheme = "https" /\ \A p \in u.port : p <= MaxPort
      /\ u.absolute /\ u.host # ""
  BY DEF ResolveEndpoint, ResolveUrl
<1>3. port = IF u.port = {} THEN DefaultPort ELSE CHOOSE p \in u.port : TRUE
  BY <1>1, OnlyMember
<1>10. IF u.port = {} THEN port = DefaultPort ELSE port \in u.port
  BY <1>1, OnlyMember
<1>4. port \in 0..MaxPort
  <2>1. ASSUME u.port # {} PROVE port \in 0..MaxPort
    <3>1. port \in u.port
      BY <1>10, <2>1
    <3>2. \A q \in u.port : q \in 0..MaxPort
      <4>1. u.port \subseteq Nat /\ \A q \in u.port : q <= MaxPort
        BY <1>1, <1>2
      <4> HIDE DEF u
      <4> QED
        BY <4>1, PortsAssumption
    <3> QED
      BY <3>1, <3>2
  <2> QED
    BY <1>10, <2>1, PortsAssumption
<1>5. t.scheme = u.scheme /\ t.host = u.host /\ t.port = port /\ t.path = PathOr(u.path)
      /\ t.authority = AuthorityOr(o, Authority(u.host, u.port))
  BY DEF Endpoint
<1>6. Authority(u.host, u.port).host = u.host /\ Authority(u.host, u.port).port = u.port
  BY DEF Authority
<1>7. ASSUME o.authority = "" PROVE t.authority.host = t.host /\ t.authority.port = u.port
  BY <1>5, <1>6, <1>7 DEF AuthorityOr
<1>8. o.authority # "" => t.authority = Authority(o.authority, {})
  BY <1>5 DEF AuthorityOr
<1> HIDE DEF t, port
<1>9. ASSUME o.authority = ""
      PROVE  t.port = IF t.authority.port = {} THEN DefaultPort
                      ELSE CHOOSE p \in t.authority.port : TRUE
  <2>1. t.authority.port = u.port /\ t.port = port
    BY <1>5, <1>7, <1>9
  <2> QED
    BY <1>3, <2>1
<1> QED
  BY <1>2, <1>4, <1>5, <1>7, <1>8, <1>9, <1>10 DEF Resolved

LEMMA ResolvesParts ==
    ASSUME NEW o, ~o.url.given, o.port \in 0..MaxPort, ResolveEndpoint(o) # {}
    PROVE  \E t : Resolved(o, t)
<1> DEFINE written == IF o.port = DefaultPort THEN {} ELSE {o.port}
           t == Endpoint(o.scheme, o.host, AuthorityOr(o, Authority(o.host, written)),
                         PathOr(o.path), o.port)
<1>1. ResolveEndpoint(o) = {t} /\ o.scheme = "https"
  BY DEF ResolveEndpoint, ResolveParts
<1>2. o.port = IF written = {} THEN DefaultPort ELSE CHOOSE p \in written : TRUE
  OBVIOUS
<1>3. t.scheme = o.scheme /\ t.host = o.host /\ t.port = o.port /\ t.path = PathOr(o.path)
      /\ t.authority = AuthorityOr(o, Authority(o.host, written))
  BY DEF Endpoint
<1>4. Authority(o.host, written).host = o.host /\ Authority(o.host, written).port = written
  BY DEF Authority
<1> HIDE DEF t, written
<1> QED
  BY <1>1, <1>2, <1>3, <1>4 DEF Resolved, AuthorityOr

\* An accepted command line's effective options are those that were said.
LEMMA EffectiveSaid ==
    ASSUME line \in CommandLines, Accepted
    PROVE  /\ \A f \in {"url", "host", "authority", "path", "port"} : Effective[f] = Said(f)
           /\ Effective.url \in Urls /\ AtMostOnePort(Effective.url)
           /\ Effective.port \in 0..MaxPort
<1> DEFINE table == line.script.connection
           flags == line.flags
<1>1. /\ flags \in Options /\ AtMostOnePort(flags.url)
      /\ "url" \in DOMAIN table => table["url"] \in Urls /\ AtMostOnePort(table["url"])
  BY CommandLinesAssumption
<1>2. {"url", "host", "authority", "path", "port"} \subseteq DOMAIN flags
  BY <1>1 DEF Options
<1>3. flags.url \in Urls /\ flags.port \in 0..MaxUint
  BY <1>1 DEF Options
<1>4. flags.port \in 0..MaxPort
  BY <1>3, OutputWidths, PortsAssumption DEF Accepted, Accepts
<1>5. CASE line.command = "run"
  <2>1. \A f \in {"url", "host", "authority", "path", "port"} :
           Effective[f] = IF f \in DOMAIN table THEN table[f] ELSE flags[f]
    BY <1>2, <1>5 DEF Effective, ApplyConnection
  <2>2. "port" \in DOMAIN table => table["port"] \in 0..MaxPort
    BY <1>5 DEF Accepted, ConnectionInRange, InRange
  <2>3. /\ Effective["url"] = IF "url" \in DOMAIN table THEN table["url"] ELSE flags["url"]
        /\ Effective["port"] = IF "port" \in DOMAIN table THEN table["port"] ELSE flags["port"]
    BY <2>1
  <2>4. Effective.url \in Urls /\ AtMostOnePort(Effective.url)
    BY <1>1, <1>3, <2>3
  <2>5. Effective.port \in 0..MaxPort
    BY <1>4, <2>2, <2>3
  <2> QED
    BY <1>5, <2>1, <2>4, <2>5 DEF Said
<1>6. CASE line.command # "run"
  BY <1>1, <1>3, <1>4, <1>6 DEF Effective, Said
<1> QED
  BY <1>5, <1>6

\* What is known of the endpoint once the invocation has begun to act.
LEMMA EndpointResolved ==
    ASSUME StageInv, Begun
    PROVE  \E t : Resolved(options, t) /\ endpoint = {t} /\ Target = t
<1>1. Ready /\ endpoint = ResolveEndpoint(options) /\ endpoint # {} /\ line \in CommandLines
  BY DEF StageInv
<1>2. options.url \in Urls /\ AtMostOnePort(options.url) /\ options.port \in 0..MaxPort
  BY <1>1, EffectiveSaid DEF Ready
<1>3. PICK t : Resolved(options, t)
  BY <1>1, <1>2, ResolvesUrl, ResolvesParts
<1>4. endpoint = {t}
  BY <1>1, <1>3 DEF Resolved
<1> QED
  BY <1>3, <1>4 DEF Target

\* Nothing is dialled and no file is emptied until every check of parseConfig, of
\* the script and of the endpoint has passed (run() in cmd/mh2c/main.go, config.go,
\* script.go, endpoint.go).
THEOREM NothingHappensEarly == Spec => []NothingBeforeAccepted
<1>1. ASSUME StageInv PROVE NothingBeforeAccepted
  <2> SUFFICES ASSUME Dialled \/ fileMade PROVE NothingBeforeAccepted
    BY DEF NothingBeforeAccepted
  <2>1. Begun
    BY DEF Begun
  <2>2. Accepted
    BY <1>1, <2>1 DEF StageInv, Ready
  <2>3. PICK t : Resolved(options, t) /\ endpoint = {t} /\ Target = t
    BY <1>1, <2>1, EndpointResolved
  <2>4. Cardinality(endpoint) = 1
    BY <2>3, FS_Singleton
  <2>5. options.url = Said("url")
    BY <1>1, <2>1, EffectiveSaid DEF StageInv, Ready
  <2>6. line.flags.streamID > 0
    <3>1. line.flags.streamID \in 0..MaxUint
      BY <1>1, CommandLinesAssumption DEF StageInv, Options
    <3> QED
      BY <2>2, <3>1, OutputWidths DEF Accepted, Accepts
  <2> QED
    BY <2>2, <2>3, <2>4, <2>5, <2>6 DEF NothingBeforeAccepted, Accepted, Accepts, Resolved
<1> QED
  BY <1>1, StageAlways, PTL

\* The client calls the host, the port and the path that were named, a URL before
\* the rest and the script before the flags, with the :authority that names them
\* (applyScriptConnection in script.go, resolveEndpoint in endpoint.go).
THEOREM TargetIsNamed == Spec => []TargetAsNamed
<1>1. ASSUME StageInv PROVE TargetAsNamed
  <2> SUFFICES ASSUME Dialled PROVE TargetAsNamed
    BY DEF TargetAsNamed
  <2>1. Begun
    BY DEF Begun
  <2>2. PICK t : Resolved(options, t) /\ endpoint = {t} /\ Target = t
    BY <1>1, <2>1, EndpointResolved
  <2>3. \A f \in {"url", "host", "authority", "path", "port"} : options[f] = Said(f)
    BY <1>1, <2>1, EffectiveSaid DEF StageInv, Ready
  <2>4. options.url = Said("url") /\ options.host = Said("host")
        /\ options.authority = Said("authority")
        /\ options.path = Said("path") /\ options.port = Said("port")
    BY <2>3
  <2> QED
    BY <2>2, <2>4 DEF TargetAsNamed, Resolved, PathOr
<1> QED
  BY <1>1, StageAlways, PTL

(***************************************************************************)
(* Filters                                                                 *)
(***************************************************************************)
\* The script's table sets no option of the output.
LEMMA EffectiveOutput ==
    ASSUME line \in CommandLines, Accepted
    PROVE  /\ Effective.directionFilters = line.flags.directionFilters
           /\ Effective.frameFilters = line.flags.frameFilters
           /\ Effective.streamFilter = line.flags.streamFilter
           /\ Effective.save = line.flags.save
           /\ Effective.decodeHeaders = line.flags.decodeHeaders
           /\ Effective.dataLimit = line.flags.dataLimit
           /\ Effective.streamID = line.flags.streamID
           /\ line.flags.dataLimit \in 0..MaxUint
           /\ line.flags.streamFilter \subseteq 0..MaxUint /\ line.flags.streamID \in 0..MaxUint
           /\ line.flags.save \in BOOLEAN
           /\ line.flags.save => line.command \in {"request", "observe"}
<1> DEFINE table == line.script.connection
           flags == line.flags
           Names == {"directionFilters", "frameFilters", "streamFilter", "save",
                     "decodeHeaders", "dataLimit", "streamID"}
<1>1. flags \in Options
  BY CommandLinesAssumption
<1>2. /\ Names \subseteq DOMAIN flags /\ flags.dataLimit \in 0..MaxUint
      /\ flags.streamFilter \subseteq 0..MaxUint /\ flags.streamID \in 0..MaxUint
      /\ flags.save \in BOOLEAN
  BY <1>1 DEF Options
<1>3. \A f \in Names : Effective[f] = flags[f]
  <2>1. CASE line.command = "run"
    <3>1. DOMAIN table \subseteq ConnectionFields
      BY <2>1 DEF Accepted, ValidScript
    <3>2. \A f \in Names : f \notin DOMAIN table
      BY <3>1 DEF ConnectionFields
    <3> QED
      BY <1>2, <2>1, <3>2 DEF Effective, ApplyConnection
  <2>2. CASE line.command # "run"
    BY <2>2 DEF Effective
  <2> QED
    BY <2>1, <2>2
<1> QED
  BY <1>2, <1>3 DEF Accepted, Accepts

\* A number of 32 bits stays as it is.
LEMMA Uint32Fits == ASSUME NEW n \in 0..MaxUint, n <= MaxUint32 PROVE Uint32(n) = n
<1>1. MaxUint32 \in Nat /\ n \in 0..MaxUint32
  BY OutputWidths
<1> QED
  BY <1>1 DEF Uint32

LEMMA Uint32Each ==
    ASSUME NEW S \in SUBSET (0..MaxUint), \A s \in S : s <= MaxUint32
    PROVE  {Uint32(s) : s \in S} = S
<1>1. \A s \in S : Uint32(s) = s
  BY Uint32Fits
<1> QED
  BY <1>1

\* An event passes the filters as the controller has them: the stream numbers
\* cut to 32 bits.
Filtered(event) ==
    IF event.type = "notice" THEN ShowsDirection(controller, event.direction)
    ELSE Shows(controller, event)

\* The controller lets an event through if and only if it passes the filters, and
\* saves the stream that is named.
LEMMA ShowsPasses ==
    ASSUME StageInv, Begun
    PROVE  /\ StreamNumbersFit => \A event : Filtered(event) <=> Passes(event)
           /\ StreamNumbersFit => controller.target = StreamNamed
           /\ controller.capture = line.flags.save
           /\ controller.decodeHeaders = line.flags.decodeHeaders
           /\ controller.dataLimit = line.flags.dataLimit
<1>1. controller = NewOutputController /\ options = Effective /\ line \in CommandLines /\ Accepted
  BY DEF StageInv, Ready
<1> DEFINE cut == {Uint32(s) : s \in line.flags.streamFilter}
<1>2. /\ controller.directions = line.flags.directionFilters
      /\ controller.frames = line.flags.frameFilters
      /\ controller.streams = cut
      /\ controller.capture = line.flags.save
      /\ controller.decodeHeaders = line.flags.decodeHeaders
      /\ controller.dataLimit = line.flags.dataLimit
  BY <1>1, EffectiveOutput DEF NewOutputController
<1>3. controller.target = IF line.command = "request" /\ line.flags.streamFilter = {}
                          THEN {Uint32(line.flags.streamID)} ELSE cut
  BY <1>1, EffectiveOutput DEF NewOutputController, CaptureTarget
<1>4. StreamNumbersFit => cut = line.flags.streamFilter /\ Uint32(line.flags.streamID) = line.flags.streamID
  BY <1>1, EffectiveOutput, Uint32Each, Uint32Fits DEF StreamNumbersFit
<1> HIDE DEF cut
<1>5. ASSUME StreamNumbersFit, NEW event PROVE Filtered(event) <=> Passes(event)
  BY <1>2, <1>4, <1>5 DEF Filtered, Shows, ShowsDirection, Passes
<1> QED
  BY <1>2, <1>3, <1>4, <1>5 DEF StreamNamed

\* The list and the sequence both grow by the same entry.
LEMMA ListsGrows ==
    ASSUME NEW n \in Nat, NEW m \in Nat, NEW list, NEW longer, NEW sequence, NEW extended,
           NEW chosen \in SUBSET (1..m), NEW wider,
           DOMAIN list = 1..n, DOMAIN longer = 1..(n + 1),
           \A i \in 1..n : longer[i] = list[i], \A p \in 1..m : extended[p] = sequence[p],
           longer[n + 1] = extended[m + 1], wider = chosen \cup {m + 1},
           Lists(list, sequence, chosen)
    PROVE  Lists(longer, extended, wider)
<1>0. PICK at \in [DOMAIN list -> chosen] :
         /\ \A p \in chosen : \E i \in DOMAIN list : at[i] = p
         /\ \A i, j \in DOMAIN list : i < j => at[i] < at[j]
         /\ \A i \in DOMAIN list : list[i] = sequence[at[i]]
  BY DEF Lists
<1>1. /\ at \in [1..n -> chosen]
      /\ \A p \in chosen : \E i \in 1..n : at[i] = p
      /\ \A i, j \in 1..n : i < j => at[i] < at[j]
      /\ \A i \in 1..n : list[i] = sequence[at[i]]
  BY <1>0
<1> DEFINE to == [i \in 1..(n + 1) |-> IF i = n + 1 THEN m + 1 ELSE at[i]]
<1>2. \A i \in 1..n : to[i] = at[i] /\ at[i] \in chosen /\ at[i] \in 1..m /\ i \in 1..(n + 1)
  <2> SUFFICES ASSUME NEW i \in 1..n
               PROVE  to[i] = at[i] /\ at[i] \in chosen /\ at[i] \in 1..m /\ i \in 1..(n + 1)
    OBVIOUS
  <2>1. i \in 1..(n + 1) /\ i # n + 1
    OBVIOUS
  <2>2. at[i] \in chosen
    BY <1>1
  <2> QED
    BY <2>1, <2>2
<1>3. to[n + 1] = m + 1 /\ n + 1 \in 1..(n + 1)
  OBVIOUS
<1>4. \A i \in 1..(n + 1) : i = n + 1 \/ i \in 1..n
  OBVIOUS
<1>5. to \in [DOMAIN longer -> wider]
  BY <1>2
<1> HIDE DEF to
<1>6. ASSUME NEW p \in wider PROVE \E i \in DOMAIN longer : to[i] = p
  <2>1. CASE p = m + 1
    BY <1>3, <2>1
  <2>2. CASE p \in chosen
    <3>1. PICK i \in 1..n : at[i] = p
      BY <1>1, <2>2
    <3> QED
      BY <1>2, <3>1
  <2> QED
    BY <2>1, <2>2
<1>7. \A i, j \in DOMAIN longer : i < j => to[i] < to[j]
  <2> SUFFICES ASSUME NEW i \in 1..(n + 1), NEW j \in 1..(n + 1), i < j PROVE to[i] < to[j]
    OBVIOUS
  <2>1. i \in 1..n
    OBVIOUS
  <2>2. CASE j = n + 1
    BY <1>2, <1>3, <2>1, <2>2
  <2>3. CASE j \in 1..n
    BY <1>1, <1>2, <2>1, <2>3
  <2> QED
    BY <1>4, <2>2, <2>3
<1>8. \A i \in DOMAIN longer : longer[i] = extended[to[i]]
  <2> SUFFICES ASSUME NEW i \in 1..(n + 1) PROVE longer[i] = extended[to[i]]
    OBVIOUS
  <2>1. CASE i = n + 1
    BY <1>3, <2>1
  <2>2. CASE i \in 1..n
    <3>1. longer[i] = list[i] /\ list[i] = sequence[at[i]]
      BY <1>1, <2>2
    <3>2. to[i] = at[i] /\ extended[at[i]] = sequence[at[i]]
      BY <1>2, <2>2
    <3> QED
      BY <3>1, <3>2
  <2> QED
    BY <1>4, <2>1, <2>2
<1> QED
  BY <1>5, <1>6, <1>7, <1>8 DEF Lists

\* The sequence grows by an entry that is not chosen.
LEMMA ListsStays ==
    ASSUME NEW list, NEW sequence, NEW extended, NEW chosen,
           \A p \in chosen : extended[p] = sequence[p],
           Lists(list, sequence, chosen)
    PROVE  Lists(list, extended, chosen)
<1>1. PICK at \in [DOMAIN list -> chosen] :
         /\ \A p \in chosen : \E i \in DOMAIN list : at[i] = p
         /\ \A i, j \in DOMAIN list : i < j => at[i] < at[j]
         /\ \A i \in DOMAIN list : list[i] = sequence[at[i]]
  BY DEF Lists
<1>2. \A i \in DOMAIN list : list[i] = extended[at[i]]
  BY <1>1
<1> QED
  BY <1>1, <1>2 DEF Lists

LEMMA ListsNothing == ASSUME NEW sequence PROVE Lists(<<>>, sequence, {})
<1> DEFINE at == [i \in {} |-> 0]
<1>1. at \in [DOMAIN <<>> -> {}] /\ DOMAIN <<>> = {}
  OBVIOUS
<1> QED
  BY <1>1 DEF Lists

(***************************************************************************)
(* What is handled, shown and captured                                     *)
(***************************************************************************)
Printable == {e \in Events : ~RenderPanics(controller, e)}

Passing == {i \in DOMAIN handled : Filtered(handled[i])}
ShownEvents == [i \in DOMAIN shown |-> shown[i].event]

\* What is shown is the lines of the events that pass the controller's filters.
ShownInv ==
    /\ handled \in Seq(Events)
    /\ shown \in Seq({Line(controller, e) : e \in Printable})
    /\ Lists(ShownEvents, handled, Passing)

\* What is captured is the DATA received, as long as nothing failed.
CaptureInv ==
    result # "panic" /\ result # "error" /\ line.flags.save =>
        /\ captured \in [Streams -> Seq(Events)]
        /\ \A s \in Streams : Lists(captured[s], handled, DataOf(s))

\* Nothing that cannot be decoded is handled where it would be decoded.
DecodeInv ==
    \A i \in DOMAIN handled :
        handled[i].direction = "received" /\ handled[i].decodeError =>
            ~options.decodeHeaders /\ ~options.save

\* Before the session nothing is handled, and only a limit that is no int panics.
QuietInv ==
    /\ ~Dialled => handled = <<>> /\ shown = <<>> /\ captured = [s \in Streams |-> <<>>]
    /\ pc = "running" => Dialled
    /\ pc # "exited" => result = "running"
    /\ result = "panic" => options.dataLimit > MaxInt

OutputInv == ShownInv /\ CaptureInv /\ DecodeInv /\ QuietInv

\* An event is handled to its end.
Takes(event) ==
    /\ pc = "running" /\ pc' = "running" /\ result' = result
    /\ handled' = Append(handled, event)
    /\ \/ ~Filtered(event) /\ shown' = shown
       \/ /\ Filtered(event) /\ ~RenderPanics(controller, event)
          /\ shown' = Append(shown, Line(controller, event))
    /\ captured' = IF controller.capture /\ IsData(event)
                   THEN [captured EXCEPT ![event.stream] = Append(@, event)] ELSE captured
    /\ event.direction = "received" /\ event.decodeError =>
          ~controller.decodeHeaders /\ ~controller.capture
    /\ UNCHANGED <<line, options, controller, session>>

\* Handling an event ends the session.
Stops(event) ==
    /\ pc = "running" /\ pc' = "exited"
    /\ result' = "panic" => RenderPanics(controller, event)
    /\ result' # "panic" /\ result' # "error" => captured' = captured
    /\ UNCHANGED <<line, options, controller, session, handled, shown>>

LEMMA EventTakenOrStops ==
    ASSUME StageInv, NEW event \in Events,
           PrintNotice(event) \/ HandleSent(event) \/ HandleReceived(event)
    PROVE  Takes(event) \/ Stops(event)
<1>1. pc = "running" /\ Begun /\ UNCHANGED <<line, options, controller, session>>
  BY DEF PrintNotice, HandleSent, HandleReceived, Begun
<1>2. /\ event.type = "notice" => (ShowsDirection(controller, event.direction) <=> Filtered(event))
      /\ event.type # "notice" => (Shows(controller, event) <=> Filtered(event))
  BY DEF Filtered
<1>3. event.type = "notice" => event.direction = "sent"
  BY EventsAssumption
<1>4. CASE PrintNotice(event)
  <2>1. event.direction = "sent" /\ captured' = captured /\ ~IsData(event)
    BY <1>3, <1>4 DEF PrintNotice, IsData
  <2>2. Display(event, ShowsDirection(controller, event.direction)) /\ event.type = "notice"
    BY <1>4 DEF PrintNotice
  <2> QED
    BY <1>1, <1>2, <2>1, <2>2 DEF Display, Exit, Continue, Takes, Stops
<1>5. CASE HandleSent(event)
  <2>1. event.direction = "sent" /\ event.type # "notice" /\ captured' = captured /\ ~IsData(event)
    BY <1>5 DEF HandleSent, IsData
  <2>2. \/ Display(event, Shows(controller, event))
        \/ Exit("ok") /\ UNCHANGED <<handled, shown>>
    BY <1>5 DEF HandleSent
  <2> QED
    BY <1>1, <1>2, <2>1, <2>2 DEF Display, Exit, Continue, Takes, Stops
<1>6. CASE HandleReceived(event)
  <2>1. event.direction = "received" /\ event.type # "notice"
    BY <1>3, <1>6 DEF HandleReceived
  <2>2. CASE event.decodeError /\ (controller.decodeHeaders \/ controller.capture)
    BY <1>1, <1>6, <2>2 DEF HandleReceived, Exit, Stops
  <2>3. CASE ~(event.decodeError /\ (controller.decodeHeaders \/ controller.capture))
    <3>1. Display(event, Shows(controller, event)) /\ captured' = CaptureData(event)
      BY <1>6, <2>3 DEF HandleReceived
    <3>2. CaptureData(event) = IF controller.capture /\ IsData(event)
                               THEN [captured EXCEPT ![event.stream] = Append(@, event)]
                               ELSE captured
      BY <2>1 DEF CaptureData, IsData
    <3>3. CASE Shows(controller, event) /\ (pc' = "exited")
      <4>1. result' \in {"panic", "error"}
            /\ (result' = "panic" => RenderPanics(controller, event))
            /\ UNCHANGED <<handled, shown>>
        BY <3>1, <3>3 DEF Display, Exit, Continue
      <4> QED
        BY <1>1, <3>3, <4>1 DEF Stops
    <3>4. CASE ~(Shows(controller, event) /\ (pc' = "exited"))
      <4>1. /\ pc' = "running" /\ result' = result /\ handled' = Append(handled, event)
            /\ \/ ~Filtered(event) /\ shown' = shown
               \/ /\ Filtered(event) /\ ~RenderPanics(controller, event)
                  /\ shown' = Append(shown, Line(controller, event))
        BY <1>2, <2>1, <3>1, <3>4 DEF Display, Exit, Continue
      <4> QED
        BY <1>1, <2>3, <3>1, <3>2, <4>1 DEF Takes
    <3> QED
      BY <3>3, <3>4
  <2> QED
    BY <2>2, <2>3
<1> QED
  BY <1>4, <1>5, <1>6

\* The bytes a panic takes are not there: the limit is negative as an int.
LEMMA PanicsNegative ==
    ASSUME NEW event \in Events, NEW limit \in 0..MaxUint, Panics(event.payload, limit)
    PROVE  limit > MaxInt
<1>1. Len(event.payload) \in Nat /\ Len(event.payload) <= MaxInt
  BY EventsAssumption
<1> QED
  BY <1>1, OutputWidths DEF Panics, Exceeds, AsInt

\* An event that is handled: shown if it passes.
LEMMA ShownStep ==
    ASSUME StageInv, ShownInv, NEW event \in Events, Takes(event)
    PROVE  ShownInv'
<1> DEFINE m == Len(handled)
           n == Len(shown)
           Lines == {Line(controller, e) : e \in Printable}
<1>1. handled \in Seq(Events) /\ shown \in Seq(Lines) /\ Lists(ShownEvents, handled, Passing)
  BY DEF ShownInv
<1>2. m \in Nat /\ n \in Nat /\ DOMAIN handled = 1..m /\ DOMAIN shown = 1..n
  BY <1>1
<1>3. /\ handled' \in Seq(Events) /\ DOMAIN handled' = 1..(m + 1)
      /\ \A i \in 1..m : handled'[i] = handled[i]
      /\ handled'[m + 1] = event
  BY <1>1, <1>2 DEF Takes
<1>4. {Line(controller, e) : e \in Printable}' = Lines
  BY DEF Takes, Printable
<1>5. \A i \in 1..(m + 1) : i \in Passing' <=> Filtered(handled'[i])
  BY <1>3 DEF Takes, Passing, Filtered, Shows, ShowsDirection
<1>6. Passing' \subseteq 1..(m + 1) /\ Passing \subseteq 1..m
  BY <1>2, <1>3 DEF Passing
<1>7. \A i \in 1..m : i \in Passing' <=> i \in Passing
  <2> SUFFICES ASSUME NEW i \in 1..m PROVE i \in Passing' <=> i \in Passing
    OBVIOUS
  <2>1. i \in Passing' <=> Filtered(handled[i])
    BY <1>2, <1>3, <1>5
  <2> QED
    BY <1>2, <2>1 DEF Passing
<1>8. m + 1 \in Passing' <=> Filtered(event)
  BY <1>2, <1>3, <1>5
<1>9. DOMAIN ShownEvents = 1..n
  BY <1>2 DEF ShownEvents
<1>10. \A i \in 1..(m + 1) : i \in 1..m \/ i = m + 1
  BY <1>2
<1>11. CASE ~Filtered(event)
  <2>1. shown' = shown
    BY <1>11 DEF Takes
  <2>2. Passing' = Passing
    BY <1>6, <1>7, <1>8, <1>10, <1>11
  <2>3. \A p \in Passing : handled'[p] = handled[p]
    BY <1>3, <1>6
  <2>4. Lists(ShownEvents, handled', Passing)
    BY <1>1, <2>3, ListsStays
  <2>5. ShownEvents' = ShownEvents
    BY <2>1 DEF ShownEvents
  <2>6. Lists(ShownEvents, handled, Passing)'
    BY <2>2, <2>4, <2>5
  <2>7. shown' \in Seq(Lines)
    BY <1>1, <2>1
  <2> QED
    BY <1>3, <1>4, <2>6, <2>7 DEF ShownInv
<1>12. CASE Filtered(event)
  <2>1. ~RenderPanics(controller, event) /\ shown' = Append(shown, Line(controller, event))
    BY <1>12 DEF Takes
  <2>2. Line(controller, event) \in Lines /\ Line(controller, event).event = event
    BY <2>1 DEF Printable, Line
  <2>3. /\ shown' \in Seq(Lines) /\ DOMAIN shown' = 1..(n + 1)
        /\ \A i \in 1..n : shown'[i] = shown[i]
        /\ shown'[n + 1] = Line(controller, event)
    <3> HIDE DEF Lines
    <3> QED
      BY <1>1, <1>2, <2>1, <2>2
  <2>4. Passing' = Passing \cup {m + 1}
    BY <1>2, <1>6, <1>7, <1>8, <1>10, <1>12
  <2>5. /\ DOMAIN ShownEvents' = 1..(n + 1)
        /\ \A i \in 1..n : ShownEvents'[i] = ShownEvents[i]
        /\ ShownEvents'[n + 1] = handled'[m + 1]
    BY <1>2, <1>3, <2>2, <2>3 DEF ShownEvents
  <2>6. Lists(ShownEvents', handled', Passing')
    <3>1. n \in Nat /\ m \in Nat /\ Passing \in SUBSET (1..m)
      BY <1>2, <1>6
    <3>2. /\ Lists(ShownEvents, handled, Passing)
          /\ \A i \in 1..m : handled'[i] = handled[i]
      BY <1>1, <1>3
    <3> HIDE DEF m, n, Lines
    <3> QED
      BY <1>9, <2>4, <2>5, <3>1, <3>2, ListsGrows
  <2> QED
    BY <1>3, <1>4, <2>3, <2>6 DEF ShownInv
<1> QED
  BY <1>11, <1>12

\* An event that is handled: captured if it is DATA received, shown or not.
LEMMA CaptureStep ==
    ASSUME StageInv, ShownInv, CaptureInv, NEW event \in Events, Takes(event)
    PROVE  CaptureInv'
<1> SUFFICES ASSUME result # "panic", result # "error", line.flags.save
             PROVE  /\ captured' \in [Streams -> Seq(Events)]
                    /\ \A s \in Streams : Lists(captured'[s], handled', DataOf(s)')
  BY DEF CaptureInv, Takes
<1> DEFINE m == Len(handled)
<1>1. /\ handled \in Seq(Events) /\ captured \in [Streams -> Seq(Events)]
      /\ \A s \in Streams : Lists(captured[s], handled, DataOf(s))
  BY DEF ShownInv, CaptureInv
<1>2. m \in Nat /\ DOMAIN handled = 1..m
  BY <1>1
<1>3. /\ DOMAIN handled' = 1..(m + 1) /\ handled'[m + 1] = event
      /\ \A i \in 1..m : handled'[i] = handled[i]
  BY <1>1, <1>2 DEF Takes
<1>4. ASSUME NEW s PROVE /\ DataOf(s) \subseteq 1..m
                         /\ DataOf(s)' = IF IsData(event) /\ event.stream = s
                                         THEN DataOf(s) \cup {m + 1} ELSE DataOf(s)
  <2>1. \A i \in 1..(m + 1) : i \in 1..m \/ i = m + 1
    BY <1>2
  <2>2. m + 1 \notin 1..m /\ m + 1 \in 1..(m + 1) /\ 1..m \subseteq 1..(m + 1)
    BY <1>2
  <2> QED
    BY <1>2, <1>3, <2>1, <2>2 DEF DataOf
<1>5. controller.capture = line.flags.save
  BY ShowsPasses DEF Takes, Begun
<1>6. captured' = IF IsData(event) THEN [captured EXCEPT ![event.stream] = Append(@, event)]
                  ELSE captured
  BY <1>5 DEF Takes
<1>7. event.stream \in Streams
  BY DEF Streams
<1>8. captured' \in [Streams -> Seq(Events)]
  <2>1. Append(captured[event.stream], event) \in Seq(Events)
    BY <1>1, <1>7
  <2> QED
    BY <1>1, <1>6, <2>1
<1>9. ASSUME NEW s \in Streams PROVE Lists(captured'[s], handled', DataOf(s)')
  <2>1. CASE IsData(event) /\ event.stream = s
    <3> DEFINE n == Len(captured[s])
    <3>1. captured'[s] = Append(captured[s], event) /\ captured[s] \in Seq(Events)
      BY <1>1, <1>6, <1>7, <2>1
    <3>2. /\ n \in Nat /\ DOMAIN captured[s] = 1..n /\ DOMAIN captured'[s] = 1..(n + 1)
          /\ \A i \in 1..n : captured'[s][i] = captured[s][i]
          /\ captured'[s][n + 1] = event
      BY <3>1
    <3>3. DataOf(s)' = DataOf(s) \cup {m + 1} /\ DataOf(s) \in SUBSET (1..m)
      BY <1>4, <2>1
    <3>4. Lists(captured[s], handled, DataOf(s))
      BY <1>1
    <3>5. \A i \in 1..m : handled'[i] = handled[i]
      BY <1>3
    <3>6. captured'[s][n + 1] = handled'[m + 1]
      BY <1>3, <3>2
    <3> HIDE DEF m, n
    <3>7. PICK longer : longer = captured'[s]
      OBVIOUS
    <3>8. PICK wider : wider = DataOf(s)'
      OBVIOUS
    <3>9. Lists(longer, handled', wider)
      BY <1>2, <3>2, <3>3, <3>4, <3>5, <3>6, <3>7, <3>8, ListsGrows
    <3> QED
      BY <3>7, <3>8, <3>9
  <2>2. CASE ~(IsData(event) /\ event.stream = s)
    <3>1. captured'[s] = captured[s]
      BY <1>1, <1>6, <1>7, <2>2
    <3>2. DataOf(s)' = DataOf(s) /\ \A p \in DataOf(s) : handled'[p] = handled[p]
      BY <1>3, <1>4, <2>2
    <3>3. Lists(captured[s], handled', DataOf(s))
      BY <1>1, <3>2, ListsStays
    <3> QED
      BY <3>1, <3>2, <3>3
  <2> QED
    BY <2>1, <2>2
<1> QED
  BY <1>8, <1>9

\* An event that is handled was decoded, where anything is.
LEMMA DecodeStep ==
    ASSUME StageInv, ShownInv, DecodeInv, NEW event \in Events, Takes(event)
    PROVE  DecodeInv'
<1> DEFINE m == Len(handled)
<1>1. options.decodeHeaders = controller.decodeHeaders /\ options.save = controller.capture
  <2>1. Begun /\ line \in CommandLines /\ Accepted /\ options = Effective
    BY DEF StageInv, Ready, Takes, Begun
  <2> QED
    BY <2>1, ShowsPasses, EffectiveOutput
<1>2. /\ m \in Nat /\ DOMAIN handled = 1..m /\ DOMAIN handled' = 1..(m + 1)
      /\ handled'[m + 1] = event /\ \A i \in 1..m : handled'[i] = handled[i]
  BY DEF ShownInv, Takes
<1>3. \A i \in 1..(m + 1) : i \in 1..m \/ i = m + 1
  BY <1>2
<1>4. options' = options
  BY DEF Takes
<1>5. event.direction = "received" /\ event.decodeError => ~options.decodeHeaders /\ ~options.save
  BY <1>1 DEF Takes
<1> QED
  BY <1>2, <1>3, <1>4, <1>5 DEF DecodeInv

LEMMA OutputInit == Init => OutputInv
<1> SUFFICES ASSUME Init PROVE OutputInv
  OBVIOUS
<1>1. handled = <<>> /\ shown = <<>> /\ captured = [s \in Streams |-> <<>>] /\ result = "running"
  BY DEF Init
<1>2. /\ ShownEvents = <<>> /\ Passing = {} /\ \A s : DataOf(s) = {}
  BY <1>1 DEF ShownEvents, Passing, DataOf
<1>3. ShownInv
  BY <1>1, <1>2, ListsNothing DEF ShownInv
<1>4. CaptureInv
  <2>1. captured \in [Streams -> Seq(Events)]
    BY <1>1
  <2>2. \A s \in Streams : captured[s] = <<>>
    BY <1>1
  <2> QED
    BY <1>2, <2>1, <2>2, ListsNothing DEF CaptureInv
<1>5. DecodeInv /\ QuietInv
  BY <1>1 DEF Init, DecodeInv, QuietInv
<1> QED
  BY <1>3, <1>4, <1>5 DEF OutputInv

\* A step that handles nothing and leaves the controller as it is.
LEMMA OutputKept ==
    ASSUME ShownInv, CaptureInv,
           UNCHANGED <<line, controller, handled, shown, captured>>,
           result = "running" \/ result' = result
    PROVE  ShownInv' /\ CaptureInv'
<1>1. ShownInv'
  BY DEF ShownInv, ShownEvents, Passing, Printable, Filtered, Shows, ShowsDirection
<1>2. CaptureInv'
  BY DEF CaptureInv, DataOf
<1> QED
  BY <1>1, <1>2

LEMMA OutputStep == StageInv /\ OutputInv /\ [Next]_vars => OutputInv'
<1> SUFFICES ASSUME StageInv, OutputInv, [Next]_vars PROVE OutputInv'
  OBVIOUS
<1>0. ShownInv /\ CaptureInv /\ DecodeInv /\ QuietInv
  BY DEF OutputInv
<1>1. ASSUME pc \in {"parse", "tool", "script"}, UNCHANGED rest, pc' # "running", pc' # "dial",
             result' \in {result, "ok", "error"}, pc' # "exited" => result' = result
      PROVE  OutputInv'
  <2>1. /\ handled = <<>> /\ shown = <<>> /\ captured = [s \in Streams |-> <<>>]
        /\ handled' = <<>> /\ shown' = <<>> /\ captured' = [s \in Streams |-> <<>>]
        /\ line' = line /\ controller' = controller /\ result = "running"
    BY <1>0, <1>1 DEF StageInv, QuietInv, rest
  <2>2. ShownInv' /\ CaptureInv'
    BY <1>0, <1>1, <2>1, OutputKept
  <2>3. DecodeInv'
    BY <2>1 DEF DecodeInv
  <2>4. QuietInv'
    BY <1>1, <2>1 DEF QuietInv
  <2> QED
    BY <2>2, <2>3, <2>4 DEF OutputInv
<1>2. ASSUME pc \in {"dial", "running"}, pc' \in {"dial", "running", "exited"},
             UNCHANGED <<line, options, controller, handled, shown, captured>>, Dialled',
             result' \in {result, "ok", "error"}, pc' # "exited" => result' = result
      PROVE  OutputInv'
  <2>1. result = "running"
    BY <1>0, <1>2 DEF QuietInv
  <2>2. ShownInv' /\ CaptureInv'
    BY <1>0, <1>2, <2>1, OutputKept
  <2>3. DecodeInv'
    BY <1>0, <1>2 DEF DecodeInv
  <2>4. QuietInv'
    BY <1>2, <2>1 DEF QuietInv
  <2> QED
    BY <2>2, <2>3, <2>4 DEF OutputInv
<1>3. CASE Parse
  BY <1>1, <1>3 DEF Parse, Exit, Continue
<1>4. CASE RunTool
  BY <1>1, <1>4 DEF RunTool, Exit
<1>5. CASE LoadScript
  BY <1>1, <1>5 DEF LoadScript, Exit, Continue
<1>6. CASE Prepare
  <2>1. /\ pc = "output" /\ UNCHANGED <<line, options, handled, shown, captured>>
        /\ (pc' = "exited" /\ result' = "error") \/ (pc' = "dial" /\ result' = result)
    BY <1>6 DEF Prepare, PrepareOutput, Exit, Continue
  <2>2. /\ handled = <<>> /\ shown = <<>> /\ captured = [s \in Streams |-> <<>>]
        /\ handled' = <<>> /\ shown' = <<>> /\ captured' = [s \in Streams |-> <<>>] /\ result = "running"
    BY <1>0, <2>1 DEF StageInv, QuietInv
  <2>3. /\ ShownEvents' = <<>> /\ Passing' = {} /\ \A s : DataOf(s)' = {}
    BY <2>2 DEF ShownEvents, Passing, DataOf
  <2>4. ShownInv'
    BY <2>2, <2>3, ListsNothing DEF ShownInv
  <2>5. CaptureInv'
    <3>1. captured' \in [Streams -> Seq(Events)]
      BY <2>2
    <3>2. \A s \in Streams : captured'[s] = <<>>
      BY <2>2
    <3>3. \A s \in Streams : Lists(captured'[s], handled', DataOf(s)')
      BY <2>3, <3>2, ListsNothing
    <3> QED
      BY <3>1, <3>3 DEF CaptureInv
  <2>6. DecodeInv'
    BY <2>2 DEF DecodeInv
  <2>7. QuietInv'
    BY <2>1, <2>2 DEF QuietInv, Dialled
  <2> QED
    BY <2>4, <2>5, <2>6, <2>7 DEF OutputInv
<1>7. CASE Dial
  BY <1>2, <1>7 DEF Dial, Dialled, Exit, Continue
<1>8. CASE BuildRequest
  BY <1>0, <1>2, <1>8 DEF BuildRequest, QuietInv, Dialled, Exit, Continue
<1>9. CASE EndSession
  BY <1>0, <1>2, <1>9 DEF EndSession, QuietInv, Dialled, rest, Exit
<1>10. CASE UNCHANGED vars
  <2>1. ShownInv' /\ CaptureInv'
    BY <1>0, <1>10, OutputKept DEF vars
  <2>2. DecodeInv' /\ QuietInv'
    BY <1>0, <1>10 DEF vars, DecodeInv, QuietInv, Dialled
  <2> QED
    BY <2>1, <2>2 DEF OutputInv
<1>11. ASSUME NEW event \in Events, Takes(event) PROVE OutputInv'
  <2>1. ShownInv' /\ CaptureInv' /\ DecodeInv'
    BY <1>0, <1>11, ShownStep, CaptureStep, DecodeStep
  <2>2. QuietInv'
    BY <1>0, <1>11 DEF QuietInv, Takes, Dialled
  <2> QED
    BY <2>1, <2>2 DEF OutputInv
<1>12. ASSUME NEW event \in Events, Stops(event) PROVE OutputInv'
  <2>1. pc = "running" /\ pc' = "exited" /\ result = "running"
        /\ UNCHANGED <<line, options, controller, session, handled, shown>> /\ Dialled
    BY <1>0, <1>12 DEF Stops, QuietInv
  <2>2. ShownInv'
    BY <1>0, <2>1 DEF ShownInv, ShownEvents, Passing, Printable, Filtered, Shows, ShowsDirection
  <2>3. CaptureInv'
    BY <1>0, <1>12, <2>1 DEF CaptureInv, Stops, DataOf
  <2>4. DecodeInv'
    BY <1>0, <2>1 DEF DecodeInv
  <2>5. QuietInv'
    <3> SUFFICES ASSUME result' = "panic" PROVE options.dataLimit > MaxInt
      BY <2>1 DEF QuietInv, Dialled
    <3>1. Begun /\ line \in CommandLines /\ Accepted /\ options = Effective
      BY <2>1 DEF Begun, StageInv, Ready
    <3>2. /\ controller.dataLimit = options.dataLimit /\ options.dataLimit \in 0..MaxUint
      BY <3>1, ShowsPasses, EffectiveOutput
    <3>3. Panics(event.payload, controller.dataLimit)
      BY <1>12 DEF Stops, RenderPanics
    <3> QED
      BY <3>2, <3>3, PanicsNegative
  <2> QED
    BY <2>2, <2>3, <2>4, <2>5 DEF OutputInv
<1>13. ASSUME NEW event \in Events,
              PrintNotice(event) \/ HandleSent(event) \/ HandleReceived(event)
       PROVE  OutputInv'
  BY <1>11, <1>12, <1>13, EventTakenOrStops
<1> QED
  BY <1>3, <1>4, <1>5, <1>6, <1>7, <1>8, <1>9, <1>10, <1>13 DEF Next, Terminated

LEMMA OutputAlways == Spec => [](StageInv /\ OutputInv)
  BY StageInit, StageStep, OutputInit, OutputStep, PTL DEF Spec

\* What is shown is exactly the events that pass the filters, in order; what is
\* saved is the stream of --stream-filter or else the request's, and of that
\* stream, and any other, the DATA received are captured all and in order whether
\* or not they are shown (newOutputController, HandleReceived and shouldDisplay in
\* cmd/mh2c/output.go, output_filter.go).
THEOREM FiltersHide == Spec => []OutputAsFiltered
<1>1. ASSUME StageInv, OutputInv PROVE OutputAsFiltered
  <2>1. ShownInv /\ CaptureInv /\ DecodeInv /\ QuietInv
    BY <1>1 DEF OutputInv
  <2>2. ASSUME StreamNumbersFit
        PROVE  Passing = {i \in DOMAIN handled : Passes(handled[i])}
    <3>1. CASE Dialled
      BY <1>1, <2>2, <3>1, ShowsPasses DEF Begun, Passing
    <3>2. CASE ~Dialled
      BY <2>1, <3>2 DEF QuietInv, Passing
    <3> QED
      BY <3>1, <3>2
  <2>3. StreamNumbersFit =>
           Lists([i \in DOMAIN shown |-> shown[i].event], handled,
                 {i \in DOMAIN handled : Passes(handled[i])})
    BY <2>1, <2>2 DEF ShownInv, ShownEvents
  <2>4. Dialled /\ line.flags.save =>
           controller.capture /\ (StreamNumbersFit => controller.target = StreamNamed)
    BY <1>1, ShowsPasses DEF Begun
  <2>5. result # "panic" /\ result # "error" /\ line.flags.save =>
           \A s \in Streams : Lists(captured[s], handled, DataOf(s))
    BY <2>1 DEF CaptureInv
  <2> QED
    BY <2>1, <2>3, <2>4, <2>5 DEF DecodeInv, OutputAsFiltered
<1> QED
  BY <1>1, OutputAlways, PTL

(***************************************************************************)
(* Payloads                                                                *)
(***************************************************************************)
LEMMA LeastExists ==
    ASSUME NEW T \in SUBSET Nat, T # {}
    PROVE  \E x \in T : \A y \in T : x <= y
<1> DEFINE R == OpToRel(<, Nat)
<1>1. IsWellFoundedOn(R, Nat)
  BY NatLessThanWellFounded
<1>2. \E x \in T : \A y \in T : ~(<<y, x>> \in R)
  <2> HIDE DEF R
  <2> QED
    BY <1>1, WFMin
<1>3. \A x, y \in Nat : y < x => <<y, x>> \in R
  BY DEF OpToRel
<1>4. PICK x \in T : \A y \in T : ~(<<y, x>> \in R)
  BY <1>2
<1>5. \A y \in T : ~(y < x)
  BY <1>3, <1>4
<1>6. \A y \in T : x <= y
  BY <1>5
<1> QED
  BY <1>6

\* A set of numbers up to n has a greatest one: the other end of the least.
LEMMA GreatestExists ==
    ASSUME NEW n \in Nat, NEW T \in SUBSET (0..n), T # {}
    PROVE  Max(T) \in T /\ \A y \in T : y <= Max(T)
<1> DEFINE U == {u \in 0..n : n - u \in T}
<1>1. U \in SUBSET Nat
  OBVIOUS
<1>2. \A t \in T : n - t \in U
  OBVIOUS
<1>3. U # {}
  BY <1>2
<1>4. PICK u \in U : \A w \in U : u <= w
  BY <1>1, <1>3, LeastExists
<1>5. n - u \in T /\ u \in 0..n
  BY <1>4
<1>6. \A t \in T : u <= n - t
  BY <1>2, <1>4
<1>7. \A t \in T : n - u >= t
  BY <1>5, <1>6
<1>8. \E x \in T : \A y \in T : x >= y
  BY <1>5, <1>7
<1>9. Max(T) \in T /\ \A y \in T : Max(T) >= y
  BY <1>8 DEF Max
<1> QED
  BY <1>9

LEMMA PrefixIs ==
    ASSUME NEW data \in Seq(Byte), NEW n \in 0..Len(data)
    PROVE  /\ Prefix(data, n) \in Seq(Byte) /\ Len(Prefix(data, n)) = n
           /\ DOMAIN Prefix(data, n) = 1..n
           /\ \A i \in 1..n : Prefix(data, n)[i] = data[i]
<1>1. \A i \in 1..n : data[i] \in Byte
  OBVIOUS
<1>2. n \in Int /\ 1 \in Int
  OBVIOUS
<1>3. /\ SubSeq(data, 1, n) \in Seq(Byte)
      /\ Len(SubSeq(data, 1, n)) = IF 1 <= n THEN n - 1 + 1 ELSE 0
      /\ \A i \in 1..n - 1 + 1 : SubSeq(data, 1, n)[i] = data[1 + i - 1]
  BY <1>1, <1>2, SubSeqProperties
<1> QED
  BY <1>3 DEF Prefix

LEMMA PrefixOfPrefix ==
    ASSUME NEW data \in Seq(Byte), NEW n \in 0..Len(data), NEW k \in 0..n
    PROVE  Prefix(Prefix(data, n), k) = Prefix(data, k)
<1> DEFINE p == Prefix(data, n)
<1>1. p \in Seq(Byte) /\ Len(p) = n /\ \A i \in 1..n : p[i] = data[i]
  BY PrefixIs
<1>2. k \in 0..Len(data)
  OBVIOUS
<1>3. /\ Prefix(data, k) \in Seq(Byte) /\ Len(Prefix(data, k)) = k
      /\ \A i \in 1..k : Prefix(data, k)[i] = data[i]
  BY <1>2, PrefixIs
<1> HIDE DEF p
<1>4. /\ Prefix(p, k) \in Seq(Byte) /\ Len(Prefix(p, k)) = k
      /\ \A i \in 1..k : Prefix(p, k)[i] = p[i]
  BY <1>1, PrefixIs
<1>5. \A i \in 1..k : Prefix(p, k)[i] = Prefix(data, k)[i]
  BY <1>1, <1>3, <1>4
<1>6. Prefix(p, k) = Prefix(data, k)
  BY <1>3, <1>4, <1>5, SeqEqual
<1> QED
  BY <1>6 DEF p

\* Cutting stops at a prefix that is valid, and at the longest one.
LEMMA TruncateIs ==
    ASSUME NEW data \in Seq(Byte)
    PROVE  \E k \in 0..Len(data) :
               /\ TruncateUTF8Prefix(data) = Prefix(data, k)
               /\ ValidUTF8(Prefix(data, k))
               /\ \A n \in 0..Len(data) : ValidUTF8(Prefix(data, n)) => n <= k
<1> DEFINE T == {n \in 0..Len(data) : ValidUTF8(Prefix(data, n))}
<1>1. DOMAIN Prefix(data, 0) = {}
  BY PrefixIs
<1>2. 0 \in T
  BY <1>1 DEF ValidUTF8
<1>3. T \in SUBSET (0..Len(data)) /\ T # {} /\ Len(data) \in Nat
  BY <1>2
<1>4. Max(T) \in T /\ \A n \in T : n <= Max(T)
  <2> HIDE DEF T
  <2> QED
    BY <1>3, GreatestExists
<1>5. TruncateUTF8Prefix(data) = Prefix(data, Max(T))
  BY DEF TruncateUTF8Prefix
<1> QED
  BY <1>4, <1>5

\* A limit splits at most one character of a valid text.
LEMMA SplitsOneCharacter ==
    ASSUME NEW data \in Seq(Byte), ValidUTF8(data), NEW n \in 1..Len(data)
    PROVE  ValidUTF8(Prefix(data, n)) \/ ValidUTF8(Prefix(data, n - 1))
<1> DEFINE whole == Prefix(data, n)
           less == Prefix(data, n - 1)
<1>1. DOMAIN data = 1..Len(data)
  OBVIOUS
<1>2. \A i \in 1..Len(data) :
         /\ data[i] # "none"
         /\ data[i] = "first" => i < Len(data) /\ data[i + 1] = "second"
         /\ data[i] = "second" => i > 1 /\ data[i - 1] = "first"
  BY <1>1 DEF ValidUTF8
<1>3. DOMAIN whole = 1..n /\ Len(whole) = n /\ \A i \in 1..n : whole[i] = data[i]
  BY PrefixIs
<1>4. DOMAIN less = 1..(n - 1) /\ Len(less) = n - 1 /\ \A i \in 1..(n - 1) : less[i] = data[i]
  <2>1. n - 1 \in 0..Len(data)
    OBVIOUS
  <2> QED
    BY <2>1, PrefixIs
<1> HIDE DEF whole, less
<1>5. CASE data[n] # "first"
  <2> SUFFICES ASSUME NEW i \in 1..n
               PROVE  /\ whole[i] # "none"
                      /\ whole[i] = "first" => i < n /\ whole[i + 1] = "second"
                      /\ whole[i] = "second" => i > 1 /\ whole[i - 1] = "first"
    BY <1>3 DEF ValidUTF8, whole
  <2>1. whole[i] = data[i] /\ i \in 1..Len(data)
    BY <1>3
  <2>2. whole[i] = "first" => i < n /\ i + 1 \in 1..n
    <3>1. data[i] = "first" => i # n
      BY <1>5
    <3>2. i # n => i < n /\ i + 1 \in 1..n
      OBVIOUS
    <3> QED
      BY <2>1, <3>1, <3>2
  <2>3. i > 1 => i - 1 \in 1..n
    OBVIOUS
  <2> QED
    BY <1>2, <1>3, <2>1, <2>2, <2>3
<1>6. CASE data[n] = "first"
  <2> SUFFICES ASSUME NEW i \in 1..(n - 1)
               PROVE  /\ less[i] # "none"
                      /\ less[i] = "first" => i < n - 1 /\ less[i + 1] = "second"
                      /\ less[i] = "second" => i > 1 /\ less[i - 1] = "first"
    BY <1>4 DEF ValidUTF8, less
  <2>1. less[i] = data[i] /\ i \in 1..Len(data)
    BY <1>4
  <2>2. less[i] = "first" => i < n - 1 /\ i + 1 \in 1..(n - 1)
    <3>1. less[i] = "first" => data[i + 1] = "second"
      BY <1>2, <2>1
    <3> QED
      BY <1>6, <3>1
  <2>3. i > 1 => i - 1 \in 1..(n - 1)
    OBVIOUS
  <2> QED
    BY <1>2, <1>4, <2>1, <2>2, <2>3
<1> QED
  BY <1>5, <1>6 DEF whole, less

\* A limit that does not panic cuts if and only if it is given and too short.
LEMMA CutsWhenShort ==
    ASSUME NEW event \in Events, NEW limit \in 0..MaxUint, ~Panics(event.payload, limit)
    PROVE  /\ Exceeds(event.payload, limit) <=> (limit # 0 /\ limit < Len(event.payload))
           /\ event.payload \in Seq(Byte)
<1>1. event.payload \in Seq(Byte) /\ Len(event.payload) <= MaxInt
  BY EventsAssumption
<1>2. Len(event.payload) \in Nat
  BY <1>1
<1>3. CASE limit <= MaxInt
  BY <1>1, <1>2, <1>3 DEF Exceeds, AsInt
<1>4. CASE limit > MaxInt
  BY <1>1, <1>2, <1>4, OutputWidths DEF Exceeds, Panics, AsInt
<1> QED
  BY <1>1, <1>3, <1>4, OutputWidths

\* What the property says of one rendering, s, of a payload.
Faithful(s, data, limit) ==
    /\ s.truncated <=> limit # 0 /\ limit < Len(data)
    /\ s.bytes = Prefix(data, Len(s.bytes))
    /\ s.text /\ ~(limit # 0 /\ limit < Len(data)) => s.bytes = data

LEMMA WholePrefix == ASSUME NEW data \in Seq(Byte) PROVE data = Prefix(data, Len(data))
  BY SubSeqFull DEF Prefix

LEMMA HexFaithful ==
    ASSUME NEW event \in Events, NEW limit \in 0..MaxUint, ~Panics(event.payload, limit)
    PROVE  LET data == event.payload
               s == TruncateHex(data, limit)
           IN  /\ Faithful(s, data, limit)
               /\ limit # 0 /\ limit < Len(data) => Len(s.bytes) = limit
<1> DEFINE data == event.payload
           s == TruncateHex(data, limit)
<1>1. data \in Seq(Byte) /\ (Exceeds(data, limit) <=> limit # 0 /\ limit < Len(data))
  BY CutsWhenShort
<1>2. CASE Exceeds(data, limit)
  <2>1. limit \in 0..Len(data) /\ limit # 0 /\ limit < Len(data)
    BY <1>1, <1>2
  <2>2. s.bytes = Prefix(data, limit) /\ s.truncated = TRUE /\ s.text = TRUE
    BY <1>2 DEF TruncateHex, Shown
  <2>3. Len(s.bytes) = limit
    BY <1>1, <2>1, <2>2, PrefixIs
  <2> HIDE DEF s
  <2> QED
    BY <2>1, <2>2, <2>3 DEF Faithful, s
<1>3. CASE ~Exceeds(data, limit)
  <2>1. s.bytes = data /\ s.truncated = FALSE /\ s.text = TRUE
    BY <1>3 DEF TruncateHex, Shown
  <2>2. data = Prefix(data, Len(data))
    BY <1>1, WholePrefix
  <2>3. ~(limit # 0 /\ limit < Len(data))
    BY <1>1, <1>3
  <2> HIDE DEF s
  <2> QED
    BY <2>1, <2>2, <2>3 DEF Faithful, s
<1> QED
  BY <1>2, <1>3

LEMMA TextFaithful ==
    ASSUME NEW event \in Events, NEW limit \in 0..MaxUint, ~Panics(event.payload, limit)
    PROVE  LET data == event.payload
               s == DataText(data, limit)
           IN  /\ Faithful(s, data, limit)
               /\ limit # 0 /\ limit < Len(data) =>
                     /\ s.text /\ ValidUTF8(s.bytes)
                     /\ ValidUTF8(data) => Len(s.bytes) \in {limit - 1, limit}
               /\ ~s.text => ~ValidUTF8(data)
<1> DEFINE data == event.payload
           s == DataText(data, limit)
           seen == TruncateUTF8Prefix(Prefix(data, limit))
<1>1. data \in Seq(Byte) /\ (Exceeds(data, limit) <=> limit # 0 /\ limit < Len(data))
  BY CutsWhenShort
<1>2. CASE Exceeds(data, limit)
  <2>1. limit \in 0..Len(data) /\ limit # 0 /\ limit < Len(data) /\ limit \in 1..Len(data)
    BY <1>1, <1>2
  <2>2. Prefix(data, limit) \in Seq(Byte) /\ Len(Prefix(data, limit)) = limit
    BY <1>1, <2>1, PrefixIs
  <2>3. PICK k \in 0..limit :
           /\ seen = Prefix(Prefix(data, limit), k)
           /\ ValidUTF8(Prefix(Prefix(data, limit), k))
           /\ \A n \in 0..limit : ValidUTF8(Prefix(Prefix(data, limit), n)) => n <= k
    BY <2>2, TruncateIs
  <2>4. \A n \in 0..limit : Prefix(Prefix(data, limit), n) = Prefix(data, n)
    BY <1>1, <2>1, PrefixOfPrefix
  <2>5. seen = Prefix(data, k) /\ ValidUTF8(seen)
    BY <2>3, <2>4
  <2>6. Len(seen) = k
    <3>1. k \in 0..Len(data)
      BY <1>1, <2>1
    <3> QED
      BY <1>1, <2>5, <3>1, PrefixIs
  <2>7. s.bytes = seen /\ s.truncated = TRUE /\ s.text = TRUE
    BY <1>2, <2>5 DEF DataText, Shown
  <2>8. ValidUTF8(data) => k \in {limit - 1, limit}
    <3> SUFFICES ASSUME ValidUTF8(data) PROVE k \in {limit - 1, limit}
      OBVIOUS
    <3>1. ValidUTF8(Prefix(data, limit)) \/ ValidUTF8(Prefix(data, limit - 1))
      BY <1>1, <2>1, SplitsOneCharacter
    <3>2. limit \in 0..limit /\ limit - 1 \in 0..limit
      BY <2>1
    <3>3. limit - 1 <= k
      BY <2>3, <2>4, <3>1, <3>2
    <3> QED
      BY <3>3
  <2> HIDE DEF s, seen
  <2> QED
    BY <2>1, <2>5, <2>6, <2>7, <2>8 DEF Faithful, s
<1>3. CASE ~Exceeds(data, limit)
  <2>1. ~(limit # 0 /\ limit < Len(data))
    BY <1>1, <1>3
  <2>2. CASE ValidUTF8(data)
    <3>1. s.bytes = data /\ s.truncated = FALSE /\ s.text = TRUE
      BY <1>3, <2>2 DEF DataText, Shown
    <3>2. data = Prefix(data, Len(data))
      BY <1>1, WholePrefix
    <3> HIDE DEF s
    <3> QED
      BY <2>1, <3>1, <3>2 DEF Faithful, s
  <2>3. CASE ~ValidUTF8(data)
    <3>1. s.bytes = <<>> /\ s.truncated = FALSE /\ s.text = FALSE
      BY <1>3, <2>3 DEF DataText, NonUTF8
    <3>2. Len(<<>>) = 0 /\ Prefix(data, 0) = <<>>
      BY SubSeqEmpty DEF Prefix
    <3> HIDE DEF s
    <3> QED
      BY <2>1, <2>3, <3>1, <3>2 DEF Faithful, s
  <2> QED
    BY <2>2, <2>3
<1> QED
  BY <1>2, <1>3

\* Every payload shown is a prefix, marked as cut exactly if it is, whole if the
\* limit allows, missing at most the character that the limit splits; and only a
\* limit that is negative as an int panics (truncateHex and dataText of the
\* formatters, truncateUTF8Prefix in internal/framefmt).
THEOREM PayloadsShown == Spec => []PayloadShownFaithfully
<1>1. ASSUME StageInv, OutputInv PROVE PayloadShownFaithfully
  <2>1. result = "panic" => options.dataLimit > MaxInt
    BY <1>1 DEF OutputInv, QuietInv
  <2>2. ASSUME NEW i \in DOMAIN shown
        PROVE  LET data == shown[i].event.payload
                   limit == options.dataLimit
                   cut == limit # 0 /\ limit < Len(data)
                   prefix(s) == s.bytes = Prefix(data, Len(s.bytes))
               IN  /\ \A s \in shown[i].hex \cup shown[i].text :
                         /\ s.truncated <=> cut
                         /\ prefix(s)
                         /\ s.text /\ ~cut => s.bytes = data
                   /\ cut => /\ \A s \in shown[i].hex : Len(s.bytes) = limit
                             /\ \A s \in shown[i].text :
                                   /\ s.text /\ ValidUTF8(s.bytes)
                                   /\ ValidUTF8(data) => Len(s.bytes) \in {limit - 1, limit}
                   /\ \A s \in shown[i].text : ~s.text => ~ValidUTF8(data)
    <3> DEFINE Lines == {Line(controller, e) : e \in Printable}
    <3>1. shown \in Seq(Lines)
      BY <1>1 DEF OutputInv, ShownInv
    <3>2. shown[i] \in Lines
      <4> HIDE DEF Lines
      <4> QED
        BY <3>1
    <3>3. PICK event \in Events : ~RenderPanics(controller, event)
                                  /\ shown[i] = Line(controller, event)
      BY <3>2 DEF Printable
    <3> DEFINE data == event.payload
               limit == options.dataLimit
    <3>4. controller.dataLimit = limit /\ limit \in 0..MaxUint
      <4>1. Begun
        BY <1>1 DEF OutputInv, QuietInv, Begun
      <4>2. line \in CommandLines /\ Accepted /\ options = Effective
        BY <1>1, <4>1 DEF StageInv, Ready
      <4> QED
        BY <1>1, <4>1, <4>2, ShowsPasses, EffectiveOutput
    <3>5. /\ shown[i].event = event
          /\ shown[i].hex = IF RendersHex(controller, event) THEN {TruncateHex(data, limit)} ELSE {}
          /\ shown[i].text = IF RendersText(controller, event) THEN {DataText(data, limit)} ELSE {}
      BY <3>3, <3>4 DEF Line
    <3>6. shown[i].hex \cup shown[i].text # {} => ~Panics(data, limit)
      BY <3>3, <3>4, <3>5 DEF RenderPanics
    <3>7. \A s \in shown[i].hex :
             /\ Faithful(s, data, limit)
             /\ limit # 0 /\ limit < Len(data) => Len(s.bytes) = limit
      BY <3>4, <3>5, <3>6, HexFaithful
    <3>8. \A s \in shown[i].text :
             /\ Faithful(s, data, limit)
             /\ limit # 0 /\ limit < Len(data) =>
                   /\ s.text /\ ValidUTF8(s.bytes)
                   /\ ValidUTF8(data) => Len(s.bytes) \in {limit - 1, limit}
             /\ ~s.text => ~ValidUTF8(data)
      BY <3>4, <3>5, <3>6, TextFaithful
    <3> QED
      BY <3>5, <3>7, <3>8 DEF Faithful
  <2> QED
    BY <2>1, <2>2 DEF PayloadShownFaithfully
<1> QED
  BY <1>1, OutputAlways, PTL

(***************************************************************************)
(* The fields of a request                                                 *)
(***************************************************************************)
AddedNames == Pseudo \cup {"content-length"}
Adders == {"default", "body"}
Field == {FieldFrom(name, from) : name \in AddedNames, from \in Adders}

\* Fields that the client adds: one of each of these names.
Fresh(s, names) ==
    /\ s \in Seq(Field)
    /\ \A i \in DOMAIN s : s[i].from # "user" /\ s[i].name \in names
    /\ \A i, j \in DOMAIN s : s[i].name = s[j].name => i = j
    /\ \A name \in names : \E i \in DOMAIN s : s[i].name = name

\* longer is s, or s and a last field of that name.
AtMostOneMore(longer, s, name) ==
    /\ \A i \in DOMAIN s : longer[i] = s[i]
    /\ \A i \in DOMAIN longer : i \in DOMAIN s \/ (i = Len(s) + 1 /\ longer[i].name = name)

LEMMA OneMoreField ==
    ASSUME NEW headers, NEW s, NEW names, Fresh(s, names),
           NEW name \in AddedNames, NEW from \in Adders, name \notin names,
           NEW longer, longer = s \o Unless(headers, name, from),
           NEW all, all = names \cup ({name} \ ToSet(headers))
    PROVE  Fresh(longer, all) /\ AtMostOneMore(longer, s, name)
<1>1. s \in Seq(Field) /\ Len(s) \in Nat /\ DOMAIN s = 1..Len(s)
  BY DEF Fresh
<1>2. CASE name \in ToSet(headers)
  <2>1. longer = s
    BY <1>1, <1>2 DEF Unless
  <2>2. all = names
    BY <1>2
  <2> QED
    BY <2>1, <2>2 DEF AtMostOneMore
<1>3. CASE name \notin ToSet(headers)
  <2> DEFINE f == FieldFrom(name, from)
             more == s \o <<f>>
             wider == names \cup {name}
  <2>1. f \in Field /\ f.name = name /\ f.from # "user"
    BY DEF FieldFrom, Field, Adders
  <2> HIDE DEF f
  <2>2. /\ more \in Seq(Field) /\ Len(more) = Len(s) + 1 /\ DOMAIN more = 1..(Len(s) + 1)
        /\ \A i \in DOMAIN s : more[i] = s[i] /\ i \in DOMAIN more
        /\ more[Len(s) + 1] = f
        /\ \A i \in DOMAIN more : i \in DOMAIN s \/ i = Len(s) + 1
    BY <1>1, <2>1
  <2> HIDE DEF more
  <2>3. \A i \in DOMAIN more : more[i].from # "user" /\ more[i].name \in wider
    BY <2>1, <2>2 DEF Fresh
  <2>4. \A i, j \in DOMAIN more : more[i].name = more[j].name => i = j
    BY <2>1, <2>2 DEF Fresh
  <2>5. ASSUME NEW given \in wider PROVE \E i \in DOMAIN more : more[i].name = given
    <3>1. CASE given = name
      BY <2>1, <2>2, <3>1, <1>1
    <3>2. CASE given \in names
      BY <2>2, <3>2 DEF Fresh
    <3> QED
      BY <3>1, <3>2
  <2>6. Fresh(more, wider)
    BY <2>2, <2>3, <2>4, <2>5 DEF Fresh
  <2>7. longer = more /\ all = wider
    BY <1>3 DEF Unless, more, f
  <2> QED
    BY <2>1, <2>2, <2>6, <2>7 DEF AtMostOneMore
<1> QED
  BY <1>2, <1>3

\* The pseudo-headers that the user does not give, each once.
LEMMA DefaultsFresh ==
    ASSUME NEW headers
    PROVE  Fresh(Defaults(headers), Pseudo \ ToSet(headers))
<1> DEFINE given == ToSet(headers)
<1>1. ASSUME NEW s, NEW names, Fresh(s, names), NEW name \in Pseudo, name \notin names,
             NEW longer, longer = s \o Unless(headers, name, "default")
      PROVE  Fresh(longer, names \cup ({name} \ given))
  <2>1. name \in AddedNames /\ "default" \in Adders
    BY <1>1 DEF AddedNames, Adders
  <2>2. PICK all : all = names \cup ({name} \ ToSet(headers))
    OBVIOUS
  <2> QED
    BY <1>1, <2>1, <2>2, OneMoreField
<1> HIDE DEF given
<1>2. PICK a : a = Unless(headers, ":method", "default")
  OBVIOUS
<1>3. PICK b : b = a \o Unless(headers, ":path", "default")
  OBVIOUS
<1>4. PICK c : c = b \o Unless(headers, ":scheme", "default")
  OBVIOUS
<1>5. PICK d : d = c \o Unless(headers, ":authority", "default")
  OBVIOUS
<1>6. Fresh(a, {":method"} \ given)
  <2>1. a = <<>> \o Unless(headers, ":method", "default") /\ Fresh(<<>>, {})
    BY <1>2 DEF Fresh, Unless
  <2>2. Fresh(a, {} \cup ({":method"} \ given))
    BY <1>1, <2>1 DEF Pseudo
  <2> QED
    BY <2>2
<1>7. Fresh(b, {":method", ":path"} \ given)
  <2>1. Fresh(b, ({":method"} \ given) \cup ({":path"} \ given))
    BY <1>1, <1>3, <1>6 DEF Pseudo
  <2> QED
    BY <2>1
<1>8. Fresh(c, {":method", ":path", ":scheme"} \ given)
  <2>1. Fresh(c, ({":method", ":path"} \ given) \cup ({":scheme"} \ given))
    BY <1>1, <1>4, <1>7 DEF Pseudo
  <2> QED
    BY <2>1
<1>9. Fresh(d, Pseudo \ given)
  <2>1. Fresh(d, ({":method", ":path", ":scheme"} \ given) \cup ({":authority"} \ given))
    BY <1>1, <1>5, <1>8 DEF Pseudo
  <2>2. ({":method", ":path", ":scheme"} \ given) \cup ({":authority"} \ given) = Pseudo \ given
    BY DEF Pseudo
  <2> QED
    BY <2>1, <2>2
<1> QED
  BY <1>2, <1>3, <1>4, <1>5, <1>9 DEF Defaults, given

\* What stands before the user's fields: nothing of the same name twice, and the
\* pseudo-headers before the content-length.
Leads(added, headers) ==
    /\ added \in Seq(Field)
    /\ \A i \in DOMAIN added : added[i].from # "user" /\ added[i].name \notin ToSet(headers)
    /\ \A i, j \in DOMAIN added : added[i].name = added[j].name => i = j
    /\ \A name \in Pseudo \ ToSet(headers) : \E i \in DOMAIN added : added[i].name = name
    /\ \A i, j \in DOMAIN added :
          added[i].name \in Pseudo /\ added[j].name \notin Pseudo => i < j

LEMMA AddedFields ==
    ASSUME NEW headers, NEW body, NEW whole, whole = BuildRequestFields(headers, body)
    PROVE  \E added : Leads(added, headers) /\ whole = added \o Custom(headers)
<1>1. PICK given, s : given = ToSet(headers) /\ s = Defaults(headers)
  OBVIOUS
<1>2. Fresh(s, Pseudo \ given)
  BY <1>1, DefaultsFresh
<1>3. s \in Seq(Field) /\ Len(s) \in Nat /\ DOMAIN s = 1..Len(s)
  BY <1>2 DEF Fresh
<1>4. ASSUME NEW added, added = s \o Unless(headers, "content-length", "body")
      PROVE  /\ Fresh(added, (Pseudo \cup {"content-length"}) \ given)
             /\ AtMostOneMore(added, s, "content-length")
  <2>1. PICK names : names = Pseudo \ given
    OBVIOUS
  <2>2. PICK name, from :
          /\ name = "content-length" /\ from = "body"
          /\ name \notin names /\ name \in AddedNames /\ from \in Adders
    BY <2>1 DEF Pseudo, AddedNames, Adders
  <2>3. PICK all : all = names \cup ({name} \ ToSet(headers))
    OBVIOUS
  <2>4. Fresh(s, names) /\ added = s \o Unless(headers, name, from)
    BY <1>2, <1>4, <2>1, <2>2
  <2>5. Fresh(added, all) /\ AtMostOneMore(added, s, name)
    BY <2>2, <2>3, <2>4, OneMoreField
  <2>6. all = (Pseudo \cup {"content-length"}) \ given
    BY <1>1, <2>1, <2>2, <2>3
  <2> QED
    BY <2>2, <2>5, <2>6
<1>5. CASE body > 0
  <2>1. PICK added : added = s \o Unless(headers, "content-length", "body")
    OBVIOUS
  <2>2. /\ Fresh(added, (Pseudo \cup {"content-length"}) \ given)
        /\ AtMostOneMore(added, s, "content-length")
    BY <1>4, <2>1
  <2>3. whole = added \o Custom(headers)
    BY <1>1, <1>5, <2>1 DEF BuildRequestFields
  <2>4. \A i, j \in DOMAIN added : added[i].name \in Pseudo /\ added[j].name \notin Pseudo => i < j
    <3>1. "content-length" \notin Pseudo
      BY DEF Pseudo
    <3>2. \A i \in DOMAIN s : s[i].name \in Pseudo
      BY <1>2 DEF Fresh
    <3> SUFFICES ASSUME NEW i \in DOMAIN added, NEW j \in DOMAIN added,
                        added[i].name \in Pseudo, added[j].name \notin Pseudo
                 PROVE  i < j
      OBVIOUS
    <3>3. i \in DOMAIN s
      BY <2>2, <3>1 DEF AtMostOneMore
    <3>4. j = Len(s) + 1
      BY <2>2, <3>2 DEF AtMostOneMore
    <3> QED
      BY <1>3, <3>3, <3>4
  <2>5. /\ added \in Seq(Field)
        /\ \A i \in DOMAIN added : added[i].from # "user" /\ added[i].name \notin given
        /\ \A i, j \in DOMAIN added : added[i].name = added[j].name => i = j
        /\ \A name \in Pseudo \ given : \E i \in DOMAIN added : added[i].name = name
    BY <2>2 DEF Fresh
  <2> QED
    BY <1>1, <2>3, <2>4, <2>5 DEF Leads
<1>6. CASE ~(body > 0)
  <2>1. whole = s \o Custom(headers)
    <3>1. s \o <<>> = s
      BY <1>3
    <3> QED
      BY <1>1, <1>6, <3>1 DEF BuildRequestFields
  <2>2. Leads(s, headers)
    BY <1>1, <1>2 DEF Fresh, Leads
  <2> QED
    BY <2>1, <2>2
<1> QED
  BY <1>5, <1>6

\* The n added fields come first, then the m headers of the user.
AddedThenUser(whole, added, n, headers, m) ==
    /\ n \in Nat /\ m \in Nat /\ DOMAIN whole = 1..(n + m)
    /\ DOMAIN added = 1..n /\ DOMAIN headers = 1..m
    /\ \A i \in 1..n : i \in 1..(n + m) /\ whole[i] = added[i]
    /\ \A k \in 1..m : /\ n + k \in 1..(n + m)
                       /\ whole[n + k].name = headers[k] /\ whole[n + k].from = "user"
    /\ \A i \in 1..(n + m) : i \in 1..n \/ \E k \in 1..m : i = n + k

LEMMA FieldsAre ==
    ASSUME NEW headers \in Seq(STRING), NEW added \in Seq(Field),
           NEW n, n = Len(added), NEW m, m = Len(headers),
           NEW whole, whole = added \o Custom(headers)
    PROVE  AddedThenUser(whole, added, n, headers, m)
<1> DEFINE custom == Custom(headers)
<1>1. PICK all : all = Field \cup {FieldFrom(headers[k], "user") : k \in DOMAIN headers}
  OBVIOUS
<1>2. n \in Nat /\ m \in Nat /\ DOMAIN added = 1..n /\ DOMAIN headers = 1..m
  OBVIOUS
<1>3. /\ custom \in Seq(all) /\ Len(custom) = m
      /\ \A k \in 1..m : custom[k].name = headers[k] /\ custom[k].from = "user"
  <2>1. \A k \in 1..m : custom[k] = FieldFrom(headers[k], "user")
    BY <1>2 DEF Custom
  <2>2. custom = [k \in 1..m |-> FieldFrom(headers[k], "user")]
    BY <1>2 DEF Custom
  <2>3. \A k \in 1..m : custom[k] \in all
    BY <1>1, <1>2, <2>1
  <2> HIDE DEF custom
  <2>4. DOMAIN custom = 1..m /\ custom \in [1..m -> all]
    BY <2>2, <2>3
  <2>5. custom \in Seq(all) /\ Len(custom) = m
    BY <1>2, <2>4
  <2>6. ASSUME NEW k \in 1..m PROVE custom[k].name = headers[k] /\ custom[k].from = "user"
    <3>1. PICK f : f = custom[k] /\ f = FieldFrom(headers[k], "user")
      BY <2>1
    <3> QED
      BY <3>1 DEF FieldFrom
  <2> QED
    BY <2>5, <2>6
<1>4. PICK tail : tail = custom /\ tail \in Seq(all) /\ Len(tail) = m
  BY <1>3
<1>5. /\ DOMAIN whole = 1..(n + m)
      /\ \A i \in 1..n : i \in 1..(n + m) /\ whole[i] = added[i]
      /\ \A k \in 1..m : n + k \in 1..(n + m) /\ whole[n + k] = tail[k]
  <2>1. whole = added \o tail
    BY <1>4 DEF custom
  <2> HIDE DEF custom
  <2>2. added \in Seq(all)
    BY <1>1
  <2>3. /\ DOMAIN whole = 1..(Len(added) + Len(tail))
        /\ \A i \in 1..(Len(added) + Len(tail)) :
              whole[i] = IF i <= Len(added) THEN added[i] ELSE tail[i - Len(added)]
    <3>1. tail \in Seq(all)
      BY <1>4
    <3>2. PICK both : both = added \o tail
      OBVIOUS
    <3>3. /\ both \in Seq(all) /\ Len(both) = Len(added) + Len(tail)
          /\ \A i \in 1..(Len(added) + Len(tail)) :
                both[i] = IF i <= Len(added) THEN added[i] ELSE tail[i - Len(added)]
      BY <2>2, <3>1, <3>2, ConcatProperties
    <3>4. DOMAIN both = 1..Len(both)
      BY <3>3
    <3> QED
      BY <2>1, <3>2, <3>3, <3>4
  <2>4. \A i \in 1..n : i \in 1..(n + m) /\ whole[i] = added[i]
    BY <1>2, <1>4, <2>3
  <2>5. \A k \in 1..m : n + k \in 1..(n + m) /\ whole[n + k] = tail[k]
    <3> SUFFICES ASSUME NEW k \in 1..m PROVE n + k \in 1..(n + m) /\ whole[n + k] = tail[k]
      OBVIOUS
    <3>1. n + k \in 1..(n + m) /\ ~(n + k <= n) /\ (n + k) - n = k
      BY <1>2
    <3> QED
      BY <1>4, <2>3, <3>1
  <2> QED
    BY <1>4, <2>3, <2>4, <2>5
<1>6. \A i \in 1..(n + m) : i \in 1..n \/ \E k \in 1..m : i = n + k
  <2> SUFFICES ASSUME NEW i \in 1..(n + m), i \notin 1..n PROVE \E k \in 1..m : i = n + k
    OBVIOUS
  <2>1. i - n \in 1..m /\ i = n + (i - n)
    BY <1>2
  <2> QED
    BY <2>1
<1>7. \A k \in 1..m : /\ n + k \in 1..(n + m)
                     /\ whole[n + k].name = headers[k] /\ whole[n + k].from = "user"
  BY <1>3, <1>4, <1>5
<1> QED
  BY <1>2, <1>5, <1>6, <1>7 DEF AddedThenUser

\* Fields, once made, are those of the user's headers.
FieldsInv ==
    /\ pc \in {"parse", "script", "tool", "output", "dial"} => fields = <<>>
    /\ fields # <<>> =>
          /\ options.headers \in Seq(STRING)
          /\ \E body \in Bodies : fields = BuildRequestFields(options.headers, body)

LEMMA FieldsInit == Init => FieldsInv
BY DEF Init, FieldsInv

LEMMA FieldsStep == StageInv /\ FieldsInv /\ [Next]_vars => FieldsInv'
<1> SUFFICES ASSUME StageInv, FieldsInv, [Next]_vars PROVE FieldsInv'
  OBVIOUS
<1>1. CASE Parse \/ RunTool
  BY <1>1 DEF FieldsInv, Parse, RunTool, rest, Exit, Continue
<1>2. CASE LoadScript \/ Prepare \/ Dial
  BY <1>2 DEF FieldsInv, LoadScript, Prepare, PrepareOutput, Dial, rest, Exit, Continue
<1>3. CASE BuildRequest
  <2>1. pc = "running" /\ line.command = "request" /\ options' = options
        /\ pc' \in {"running", "exited"}
    BY <1>3 DEF BuildRequest, Exit, Continue
  <2>2. fields' = fields \/ \E body \in Bodies : fields' = BuildRequestFields(options.headers, body)
    BY <1>3 DEF BuildRequest
  <2>3. options.headers \in Seq(STRING)
    <3>1. options = line.flags /\ line \in CommandLines
      BY <2>1 DEF StageInv, Begun, Ready, Effective
    <3>2. line.flags \in Options
      BY <3>1, CommandLinesAssumption
    <3> QED
      BY <3>1, <3>2 DEF Options
  <2> QED
    BY <2>1, <2>2, <2>3 DEF FieldsInv
<1>4. ASSUME UNCHANGED <<options, fields>>, pc = "running" \/ pc' = pc, pc' \in {"running", "exited", pc}
      PROVE  FieldsInv'
  BY <1>4 DEF FieldsInv
<1>5. CASE EndSession
  BY <1>4, <1>5 DEF EndSession, rest, Exit
<1>6. CASE UNCHANGED vars
  BY <1>4, <1>6 DEF vars
<1>7. ASSUME NEW event \in Events,
             PrintNotice(event) \/ HandleSent(event) \/ HandleReceived(event)
      PROVE  FieldsInv'
  BY <1>4, <1>7 DEF PrintNotice, HandleSent, HandleReceived, Display, Exit, Continue
<1> QED
  BY <1>1, <1>2, <1>3, <1>5, <1>6, <1>7 DEF Next, Terminated

\* A request carries the user's fields all and in order, each pseudo-header the
\* user leaves out once and first, and no content-length beside the user's
\* (buildRequestFields in cmd/mh2c/request.go).
THEOREM FieldsExact == Spec => []RequestFieldsExact
<1>1. ASSUME FieldsInv PROVE RequestFieldsExact
  <2> SUFFICES ASSUME fields # <<>> PROVE RequestFieldsExact
    BY DEF RequestFieldsExact
  <2>1. PICK headers, body : /\ headers = options.headers /\ headers \in Seq(STRING)
                             /\ fields = BuildRequestFields(headers, body)
    BY <1>1 DEF FieldsInv
  <2>2. PICK added : Leads(added, headers) /\ fields = added \o Custom(headers)
    BY <2>1, AddedFields
  <2>3. PICK n, m, whole : n = Len(added) /\ m = Len(headers) /\ whole = fields
    OBVIOUS
  <2>4. /\ n \in Nat /\ m \in Nat /\ DOMAIN fields = 1..(n + m)
        /\ DOMAIN added = 1..n /\ DOMAIN headers = 1..m
        /\ \A i \in 1..n : i \in 1..(n + m) /\ fields[i] = added[i]
        /\ \A k \in 1..m : /\ n + k \in 1..(n + m)
                           /\ fields[n + k].name = headers[k] /\ fields[n + k].from = "user"
        /\ \A i \in 1..(n + m) : i \in 1..n \/ \E k \in 1..m : i = n + k
    <3>1. added \in Seq(Field) /\ headers \in Seq(STRING)
      BY <2>1, <2>2 DEF Leads
    <3>2. whole = added \o Custom(headers)
      BY <2>2, <2>3
    <3>3. AddedThenUser(whole, added, n, headers, m)
      BY <2>3, <3>1, <3>2, FieldsAre
    <3> QED
      BY <2>3, <3>3 DEF AddedThenUser
  <2>5. PICK given : given = ToSet(headers)
    OBVIOUS
  <2>6. \A i \in DOMAIN fields :
          \/ i \in 1..n /\ fields[i] = added[i] /\ fields[i].from # "user" /\ fields[i].name \notin given
          \/ i \notin 1..n /\ fields[i].from = "user" /\ fields[i].name \in given
    <3> SUFFICES ASSUME NEW i \in DOMAIN fields, i \notin 1..n
                 PROVE  fields[i].from = "user" /\ fields[i].name \in given
      BY <2>2, <2>4, <2>5 DEF Leads
    <3>1. PICK k \in 1..m : i = n + k
      BY <2>4
    <3>2. headers[k] \in given
      BY <2>4, <2>5 DEF ToSet
    <3> QED
      BY <2>4, <3>1, <3>2
  <2>7. Lists(headers, [i \in DOMAIN fields |-> fields[i].name], GivenBy("user"))
    <3> DEFINE at == [k \in 1..m |-> n + k]
               names == [i \in DOMAIN fields |-> fields[i].name]
    <3>1. \A k \in 1..m : n + k \in GivenBy("user") /\ names[n + k] = headers[k]
      BY <2>4 DEF GivenBy
    <3>2. \A p \in GivenBy("user") : \E k \in 1..m : p = n + k
      BY <2>4, <2>6 DEF GivenBy
    <3> HIDE DEF names
    <3>3. at \in [DOMAIN headers -> GivenBy("user")]
      BY <2>4, <3>1
    <3>4. ASSUME NEW p \in GivenBy("user") PROVE \E k \in DOMAIN headers : at[k] = p
      <4>1. PICK k \in 1..m : p = n + k
        BY <3>2
      <4>2. at[k] = p /\ k \in DOMAIN headers
        BY <2>4, <4>1
      <4> QED
        BY <4>2
    <3>5. \A k, l \in DOMAIN headers : k < l => at[k] < at[l]
      BY <2>4
    <3>6. \A k \in DOMAIN headers : headers[k] = names[at[k]]
      BY <2>4, <3>1
    <3> HIDE DEF at
    <3>7. Lists(headers, names, GivenBy("user"))
      BY <3>3, <3>4, <3>5, <3>6 DEF Lists
    <3> QED
      BY <3>7 DEF names
  <2>8. ASSUME NEW name \in Pseudo \ given PROVE Cardinality(Named(name)) = 1
    <3>1. PICK i \in 1..n : added[i].name = name
      BY <2>2, <2>4, <2>5 DEF Leads
    <3>2. \A j \in 1..n : added[j].name = name => j = i
      BY <2>2, <2>4, <3>1 DEF Leads
    <3>3. \A j \in DOMAIN fields : fields[j].name = name <=> j = i
      BY <2>4, <2>6, <3>1, <3>2
    <3>4. Named(name) = {i}
      BY <2>4, <3>1, <3>3 DEF Named
    <3> QED
      BY <3>4, FS_Singleton
  <2>9. \A name \in given : Named(name) \subseteq GivenBy("user")
    BY <2>6 DEF Named, GivenBy
  <2>10. Cardinality(Named("content-length") \ GivenBy("user")) <= 1
    <3> DEFINE own == Named("content-length") \ GivenBy("user")
    <3>1. \A i \in own : i \in DOMAIN added /\ added[i].name = "content-length"
      BY <2>4, <2>6 DEF Named, GivenBy
    <3> HIDE DEF own
    <3>2. \A i, j \in own : i = j
      BY <2>2, <3>1 DEF Leads
    <3>3. own = {} \/ \E i : own = {i}
      BY <3>2
    <3>4. Cardinality(own) = 0 \/ Cardinality(own) = 1
      BY <3>3, FS_EmptySet, FS_Singleton
    <3> QED
      BY <3>4 DEF own
  <2>11. ASSUME given \cap Pseudo = {}, NEW i \in DOMAIN fields, NEW j \in DOMAIN fields,
                fields[i].name \in Pseudo, fields[j].name \notin Pseudo
         PROVE  i < j
    <3>1. i \in 1..n /\ fields[i] = added[i]
      BY <2>6, <2>11
    <3>2. CASE j \in 1..n
      BY <2>2, <2>4, <2>11, <3>1, <3>2 DEF Leads
    <3>3. CASE j \notin 1..n
      BY <2>4, <3>1, <3>3
    <3> QED
      BY <3>2, <3>3
  <2> QED
    BY <2>1, <2>5, <2>7, <2>8, <2>9, <2>10, <2>11 DEF RequestFieldsExact
<1> QED
  BY <1>1, FieldsInit, FieldsStep, StageInit, StageStep, PTL DEF Spec
=============================================================================
