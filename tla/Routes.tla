------------------------------- MODULE Routes -------------------------------
(***************************************************************************)
(* The router of the web server: which handler a method and a path reach.  *)
(* The arms of route() are tried in their order, and the order matters:    *)
(* arms that test how a path starts, ends or what it holds overlap those   *)
(* that name one path, and the generic arm of one plugin comes late.       *)
(*                                                                         *)
(* A path is the sequence of its segments, from a small set; segments that *)
(* only begin like a known one, and empty segments, are left out.  A pid   *)
(* or a count is a number, as the version is.  The gate in front of the    *)
(* router is module Access, what handlers lock is module StatsHub.         *)
(***************************************************************************)
EXTENDS Naturals, Sequences, FiniteSets

CONSTANTS Asks,    \* the method, path and body of each request made
          Plugins, \* names of registered plugins
          Listed,  \* pids in the process list
          Numbers, \* segments that are all digits
          McpPath, \* --mcp-path
          Unasked  \* no request yet

\* What the router's own paths are made of: no registered plugin is called so.
Reserved == {"", "api", "index.html", "favicon.ico", "openapi.json", "healthz", "all", "status", "pluginslist",
             "serverslist", "health", "dashboard", "stats", "limits", "views", "values", "description", "history",
             "processes", "extended", "disable", "events", "stream", "clear", "warning", "token"}

ASSUME RoutesAssumption ==
    /\ Plugins \cup Numbers \subseteq STRING /\ (Plugins \cup Numbers) \cap Reserved = {}
    /\ Plugins \cap Numbers = {} /\ Listed \subseteq Numbers /\ "4" \in Numbers
    /\ \A a \in Asks : a.path \in Seq(STRING)

VARIABLES requested, answer

routeVars == <<requested, answer>>

Starts(path, prefix) == Len(path) >= Len(prefix) /\ SubSeq(path, 1, Len(prefix)) = prefix
Under(path, prefix) == Starts(path, prefix) /\ Len(path) > Len(prefix)
Ends(path, last) == path # <<>> /\ path[Len(path)] = last
Holds(path, last) == \E i \in DOMAIN path : path[i] = last
Back(path) == IF path = <<>> THEN "" ELSE path[Len(path)]
Rest(path) == SubSeq(path, 2, Len(path))

NotFound == <<"not found">>
Api(tail) == {<<"api", "4">> \o tail, <<"api">> \o tail}

(***************************************************************************)
(* The handlers that read their path.                                      *)
(***************************************************************************)
\* The plugin that [<version>/]<name> names; "" when it has any other shape.
Named(segs) ==
    LET places == IF segs # <<>> /\ segs[1] \in Numbers THEN 2 ELSE 1
    IN  IF Len(segs) = places THEN segs[places] ELSE ""

OfPlugin(kind, name) == IF name \in Plugins THEN <<kind, name>> ELSE NotFound

\* serve_plugin_values, serve_plugin_description: the suffix is cut, then the name read.
Suffixed(kind, path) == OfPlugin(kind, Named(SubSeq(path, 2, Len(path) - 1)))
\* serve_plugin_direct.
Direct(path) == OfPlugin("plugin", Named(Rest(path)))

\* serve_plugin_history: [<version>/]<plugin>/history[/<nb>].
History(path) ==
    LET segs == IF Len(path) >= 4 /\ path[2] \in Numbers THEN SubSeq(path, 3, Len(path)) ELSE Rest(path)
        whole == Len(segs) = 2 /\ segs[2] = "history"
        slice == Len(segs) = 3 /\ segs[2] = "history" /\ segs[3] \in Numbers
    IN  IF Starts(path, <<"api">>) /\ (whole \/ slice) THEN OfPlugin("history", segs[1]) ELSE NotFound

\* serve_process_by_pid, serve_set_extended_process: the last segment is the pid.
ProcessByPid(path) == IF Back(path) \in Listed THEN <<"process", Back(path)>> ELSE NotFound
Pin(path) ==
    IF Back(path) \notin Numbers THEN <<"bad request">>
    ELSE IF Back(path) \in Listed THEN <<"pin", Back(path)>> ELSE NotFound

\* mcp::handle.  A body is the sequence of its members, inner ones included;
\* each member wanted is the first of its name, at any depth.
FirstOf(body, key) ==
    LET places == {i \in DOMAIN body : body[i][1] = key}
    IN  IF places = {} THEN "" ELSE body[CHOOSE i \in places : \A j \in places : i <= j][2]
Mcp(body) ==
    LET method == FirstOf(body, "method")
        known == \/ method \in {"initialize", "capabilities", "tools/list"}
                 \/ method = "tools/call" /\ FirstOf(body, "name") = "glances.snapshot"
    IN  IF method = "" THEN <<"mcp error", "">>
        ELSE <<IF known THEN method ELSE "mcp error", FirstOf(body, "id")>>

(***************************************************************************)
(* route(): the first arm that fits.                                       *)
(***************************************************************************)
Arm(fits, then) == [fits |-> fits, then |-> then]

\* The arms that come before the generic ones.
NamedArms(get, path) == <<
    Arm(get /\ path \in {<<>>, <<"index.html">>, <<"dashboard">>}, <<"dashboard.html">>),
    Arm(get /\ path \in {<<"favicon.ico">>, <<"openapi.json">>}, path),
    Arm(get /\ path \in {<<"api", "all", "values">>, <<"api", "4", "all">>}, <<"all values">>),
    Arm(get /\ path \in Api(<<"all", "limits">>), <<"all limits">>),
    Arm(get /\ path \in Api(<<"all", "views">>), <<"all views">>),
    Arm(get /\ path = <<"api", "4", "status">>, <<"status">>),
    Arm(get /\ path = <<"api", "4", "pluginslist">>, <<"pluginslist">>),
    Arm(get /\ path = <<"api", "4", "serverslist">>, <<"serverslist">>),
    Arm(get /\ path \in Api(<<"health">>), <<"health">>),
    Arm(get /\ path = <<"api", "4", "dashboard">>, <<"dashboard">>),
    Arm(get /\ path = <<"api", "all", "description">>, <<"all views">>),
    Arm(get /\ path = <<"api", "all", "stats">>, <<"all values">>) >>

SuffixArms(get, path) == <<
    Arm(get /\ Under(path, <<"api">>) /\ Ends(path, "values"), Suffixed("plugin", path)),
    Arm(get /\ Under(path, <<"api">>) /\ Ends(path, "description"), Suffixed("description", path)),
    Arm(get /\ path = <<"api", "4", "history">>, <<"all history">>),
    Arm(get /\ \E p \in {"cpu", "mem", "load"} : path \in Api(<<p>>), OfPlugin("plugin", Back(path))),
    Arm(get /\ Starts(path, <<"api", "4", "events", "stream">>), <<"event stream">>),
    Arm(get /\ path = <<"healthz">>, <<"ok">>) >>

EventArms(post, path) == <<
    Arm(post /\ path \in Api(<<"events", "clear", "warning">>), <<"clear", "warning">>),
    Arm(post /\ path \in Api(<<"events", "clear", "all">>), <<"clear", "all">>),
    Arm(post /\ path \in Api(<<"processes", "extended", "disable">>), <<"unpin">>) >>

ReadArms(get, path) == <<
    Arm(get /\ path \in Api(<<"processes", "extended">>), <<"pinned">>),
    Arm(get /\ Under(path, <<"api", "4", "processes">>), ProcessByPid(path)),
    Arm(get /\ Holds(path, "history"), History(path)),
    Arm(get /\ Under(path, <<"api">>), Direct(path)) >>

PostArms(post, path, body) == <<
    Arm(post /\ Under(path, <<"api">>) /\ \E i \in 1..Len(path) - 2 :
            SubSeq(path, i, i + 1) = <<"processes", "extended">>, Pin(path)),
    Arm(post /\ path \in Api(<<"token">>), <<"not implemented">>),
    Arm(post /\ path \in {McpPath, <<"mcp">>}, Mcp(body)) >>

\* Faulty form: the generic read arms come before those of the suffixes.
ArmsGenericFirst(get, post, path, body) ==
    NamedArms(get, path) \o ReadArms(get, path) \o SuffixArms(get, path)
        \o EventArms(post, path) \o PostArms(post, path, body)
Arms(get, post, path, body) ==
    NamedArms(get, path) \o SuffixArms(get, path) \o EventArms(post, path)
        \o ReadArms(get, path) \o PostArms(post, path, body)

RouteOf(method, path, body) ==
    LET arms == Arms(method = "GET", method = "POST", path, body)
        fit == {i \in DOMAIN arms : arms[i].fits}
    IN  IF fit = {} THEN NotFound ELSE arms[CHOOSE i \in fit : \A j \in fit : i <= j].then

RoutesInit == requested = Unasked /\ answer = NotFound

Ask(a) ==
    /\ requested = Unasked
    /\ requested' = a
    /\ answer' = RouteOf(a.method, a.path, a.body)

\* The connection closes with its answer.
Close == requested # Unasked /\ requested' = Unasked /\ answer' = NotFound

RoutesNext == (\E a \in Asks : Ask(a)) \/ Close

RoutesSpec == RoutesInit /\ [][RoutesNext]_routeVars

----------------------------------------------------------------------------
\* What api_doc.rs lists, {plugin}, {pid} and {n} filled in, and what each
\* entry is said to answer.
Entry(method, tail, reply) == [method |-> method, path |-> <<"api", "4">> \o tail, reply |-> reply]
Endpoints ==
    {Entry("GET", a, a) : a \in {<<"status">>, <<"pluginslist">>, <<"serverslist">>, <<"health">>}}
    \cup {Entry("GET", <<"all">>, <<"all values">>), Entry("GET", <<"all", "limits">>, <<"all limits">>),
          Entry("GET", <<"all", "views">>, <<"all views">>), Entry("GET", <<"history">>, <<"all history">>),
          Entry("GET", <<"processes", "extended">>, <<"pinned">>),
          Entry("GET", <<"events", "stream">>, <<"event stream">>),
          Entry("POST", <<"processes", "extended", "disable">>, <<"unpin">>),
          Entry("POST", <<"token">>, <<"not implemented">>)}
    \cup {Entry("GET", <<p>> \o s, <<"plugin", p>>) : p \in Plugins, s \in {<<>>, <<"values">>}}
    \cup {Entry("GET", <<p, "description">>, <<"description", p>>) : p \in Plugins}
    \cup {Entry("GET", <<p, "history">> \o s, <<"history", p>>) :
            p \in Plugins, s \in {<<>>} \cup {<<n>> : n \in Numbers}}
    \cup {Entry("GET", <<"processes", p>>, <<"process", p>>) : p \in Listed}
    \cup {Entry("POST", <<"processes", "extended", p>>, <<"pin", p>>) : p \in Listed}
    \cup {Entry("POST", <<"events", "clear", w>>, <<"clear", w>>) : w \in {"all", "warning"}}

\* The paths that name one plugin, version and suffix aside.
OfName(name) ==
    {<<"api">> \o v \o <<name>> \o s :
        v \in {<<>>} \cup {<<n>> : n \in Numbers}, s \in {<<>>, <<"values">>, <<"description">>}}

\* Every path of the API's own list reaches what it is listed for, though an
\* earlier arm fits many of them too; and what is of one plugin is answered
\* only where the path, version and suffix aside, is that plugin's name.
RoutesAsListed ==
    requested # Unasked =>
        /\ \A e \in Endpoints : e.method = requested.method /\ e.path = requested.path => answer = e.reply
        /\ answer[1] \in {"plugin", "description"} => requested.path \in OfName(answer[2])
============================================================================
