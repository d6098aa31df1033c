------------------------ MODULE InvocationProperties ------------------------
(***************************************************************************)
(* What an invocation promises about its options and its output.           *)
(***************************************************************************)
EXTENDS Invocation

Dialled == session # {}
Target == CHOOSE e \in endpoint : TRUE

\* Who names a target: the script before the flags.
Said(field) ==
    IF line.command = "run" /\ field \in DOMAIN line.script.connection
    THEN line.script.connection[field] ELSE line.flags[field]

\* No file is emptied and no server called before every check of parseConfig,
\* validateScript, applyScriptConnection and resolveEndpoint has passed.  Three
\* refusals are not among them and come after file, dial and handshake: --data
\* with --body-file (request.go:16), a malformed --header (request.go:33) and
\* a --ping-data that is not 8 bytes (session.go:165).
NothingBeforeAccepted ==
    Dialled \/ fileMade =>
        /\ Executes(line.command) /\ line.parses
        /\ line.flags.streamID > 0 /\ line.flags.max_table_size <= MaxUint32
        /\ line.flags.port <= MaxPort
        /\ line.flags.formatsKnown
        /\ line.flags.frameFilters \subseteq FrameNames
        /\ line.flags.directionFilters \subseteq Directions
        /\ line.flags.save => line.command \in {"request", "observe"}
        /\ line.command = "run" =>
              /\ line.scriptNamed
              /\ ValidScript(line.script) /\ ConnectionInRange(line.script.connection)
        /\ Said("url").given => Said("url").absolute /\ Said("url").host # ""
        /\ Cardinality(endpoint) = 1
        /\ Target.scheme = "https" /\ Target.port \in 0..MaxPort

\* The client calls the target it was named: host, port and path are a URL's, the
\* script's or else the flag's, port 443 and path / standing for those it does
\* not have, and without a URL each is the script's or else the flag's.
\* :authority is what --authority or the script says, and otherwise names that
\* very target (applyScriptConnection, then resolveEndpoint).
TargetAsNamed ==
    Dialled =>
        LET url == Said("url")
            path == IF url.given THEN url.path ELSE Said("path")
        IN  /\ Target.host = IF url.given THEN url.host ELSE Said("host")
            /\ Target.path = IF path = "" THEN "/" ELSE path
            /\ url.given =>
                  IF url.port = {} THEN Target.port = DefaultPort ELSE Target.port \in url.port
            /\ ~url.given => Target.port = Said("port")
            /\ Said("authority") # "" => Target.authority = Authority(Said("authority"), {})
            /\ Said("authority") = "" =>
                  /\ Target.authority.host = Target.host
                  /\ Target.port = IF Target.authority.port = {} THEN DefaultPort
                                   ELSE CHOOSE p \in Target.authority.port : TRUE

\* list has the entries of sequence at the places that were chosen, in order.
Lists(list, sequence, chosen) ==
    \E at \in [DOMAIN list -> chosen] :
        /\ \A p \in chosen : \E i \in DOMAIN list : at[i] = p
        /\ \A i, j \in DOMAIN list : i < j => at[i] < at[j]
        /\ \A i \in DOMAIN list : list[i] = sequence[at[i]]

Pseudo == {":method", ":path", ":scheme", ":authority"}

Named(name) == {i \in DOMAIN fields : fields[i].name = name}
GivenBy(who) == {i \in DOMAIN fields : fields[i].from = who}

\* A request has every pseudo-header, once unless the user repeats it, the
\* user's fields all and in order, a content-length at most once, and the
\* pseudo-headers first unless the user gave one (buildRequestFields).
RequestFieldsExact ==
    fields # <<>> =>
        LET given == ToSet(options.headers)
        IN  /\ Lists(options.headers, [i \in DOMAIN fields |-> fields[i].name], GivenBy("user"))
            /\ \A name \in Pseudo \ given : Cardinality(Named(name)) = 1
            /\ \A name \in given : Named(name) \subseteq GivenBy("user")
            /\ Cardinality(Named("content-length") \ GivenBy("user")) <= 1
            /\ given \cap Pseudo = {} =>
                  \A i, j \in DOMAIN fields :
                     fields[i].name \in Pseudo /\ fields[j].name \notin Pseudo => i < j

\* The filters as the documentation has them: connection-level frames pass
\* every stream filter, notices every filter but that of the direction.
Passes(event) ==
    /\ line.flags.directionFilters # {} => event.direction \in line.flags.directionFilters
    /\ event.type # "notice" =>
          /\ line.flags.frameFilters # {} => event.type \in line.flags.frameFilters
          /\ line.flags.streamFilter # {} => event.stream \in line.flags.streamFilter \cup {0}

IsData(event) == event.direction = "received" /\ event.type = "data"

\* The stream that is to be saved: that of --stream-filter, "display and capture
\* a specific stream ID" (config.go:297), or else that of the request; none is
\* named to observe, which saves the first that ends (SavedFilesExact).
StreamNamed ==
    IF line.command = "request" /\ line.flags.streamFilter = {} THEN {line.flags.streamID}
    ELSE line.flags.streamFilter

\* The entries of handled that are DATA of this stream.
DataOf(stream) == {i \in DOMAIN handled : IsData(handled[i]) /\ handled[i].stream = stream}

\* The stream numbers of the command line are numbers of streams: the code cuts
\* them to 32 bits (main.go:88, output.go:50), which StreamIDKept is about.
StreamNumbersFit == line.flags.streamID <= MaxUint32 /\ \A s \in line.flags.streamFilter : s <= MaxUint32

\* What is printed is the events that pass, in order.  --frame-filter and
\* --direction-filter hide and do nothing else: whatever is hidden, the DATA of
\* the stream to save are captured all and in order, and of whichever stream it
\* may turn out to be if none is named (HandleReceived captures before
\* shouldDisplay); nor do filters decide which block fails to decode.
\* --stream-filter hides and names the stream to save.
OutputAsFiltered ==
    /\ StreamNumbersFit =>
          Lists([i \in DOMAIN shown |-> shown[i].event], handled,
                {i \in DOMAIN handled : Passes(handled[i])})
    /\ Dialled /\ line.flags.save =>
          /\ controller.capture
          /\ StreamNumbersFit => controller.target = StreamNamed
          /\ result # "panic" /\ result # "error" =>
                \A s \in Streams : Lists(captured[s], handled, DataOf(s))
    /\ \A i \in DOMAIN handled :
          handled[i].direction = "received" /\ handled[i].decodeError =>
              ~options.decodeHeaders /\ ~options.save

\* A prefix of the payload, marked as cut if and only if the payload is longer
\* than --data-limit, and with a whole payload if it is not; a cut text
\* misses at most the character that the limit splits.  Only a limit that is
\* negative as an int makes the client panic.
PayloadShownFaithfully ==
    /\ \A i \in DOMAIN shown :
          LET data == shown[i].event.payload
              limit == options.dataLimit
              cut == limit # 0 /\ limit < Len(data)
              prefix(s) == s.bytes = Prefix(data, Len(s.bytes))
          IN  /\ \A s \in shown[i].hex \cup shown[i].text :
                    /\ s.truncated <=> cut
                    /\ prefix(s)
                    /\ s.text /\ ~cut => s.bytes = data
              /\ cut => /\ \A s \in shown[i].hex : Len(s.bytes) = limit
                        /\ \A s \in shown[i].text :
                              /\ s.text /\ ValidUTF8(s.bytes)
                              /\ ValidUTF8(data) => Len(s.bytes) \in {limit - 1, limit}
              /\ \A s \in shown[i].text : ~s.text => ~ValidUTF8(data)
    /\ result = "panic" => options.dataLimit > MaxInt
=============================================================================
