---------------------------- MODULE CommandLine -----------------------------
(***************************************************************************)
(* From argv to what the process does: words become tokens (cli/parse.rs), *)
(* tokens set options (cli/flags.rs), options choose the plugins           *)
(* (cli/modes.rs, plugins/mod.rs) and the mode main() runs.  A word is its *)
(* shape: how many dashes, the letters of a cluster, whether it has "=".   *)
(* Display switches and options that only carry a string are left out.     *)
(***************************************************************************)
EXTENDS Sequences, Integers, SequencesExt, FiniteSets

CONSTANTS
    Words,       \* words that may be given
    MaxWords,    \* bound on their number
    ConfRefresh, \* what [global] refresh may say
    Absent       \* no value

\* A word is its shape; what follows "=" is its value.
ASSUME LineAssumption ==
    /\ Words \subseteq [dashes : 0..2, name : STRING, letters : Seq(STRING), rest : STRING,
                        value : STRING \cup {Absent}]
    /\ MaxWords \in Nat

VARIABLES
    argv,    \* the words
    pos,      \* how many of them are read
    tokens,  \* Vec<Token>, each with the words it comes from
    args,    \* Args
    step,    \* shell, parse, apply, run, done
    plugins, \* the plugins registered
    result   \* what main() did and with which refresh time

lineVars == <<argv, pos, tokens, args, step, plugins, result>>

\* Args::default
Defaults ==
    [mode |-> "Standalone", refresh |-> "2", asks |-> {}, named |-> FALSE, hides |-> {},
     disabled |-> {}, enabled |-> {}, force |-> FALSE, host |-> FALSE]

LineInit ==
    /\ argv = <<>>
    /\ pos = 0
    /\ tokens = <<>>
    /\ args = Defaults
    /\ step = "shell"
    /\ plugins = {}
    /\ result = Absent

\* The shell starts the program with some words.
Exec ==
    /\ step = "shell"
    /\ \E n \in 0..MaxWords : argv' \in [1..n -> Words]
    /\ step' = "parse"
    /\ UNCHANGED <<pos, tokens, args, plugins, result>>

-----------------------------------------------------------------------------
(* parse_argv: one action per shape of the next word.                      *)

\* looks_like_value_for, the options this module knows the effect of and some
\* that only carry a string.
TakesValue ==
    {"-t", "--time", "-c", "--client", "-B", "--bind", "-u", "--username", "--password", "-C",
     "--config", "-f", "--stdout-csv", "--stdout-json", "--stdout", "--stop-after",
     "--disable-plugin", "--enable-plugin", "--ping"}

\* What words give as a value.
Values == {Absent} \cup UNION {{w.name, w.rest, w.value} : w \in Words}

word == argv[pos + 1]

\* Fault form: the next word is the value whatever it looks like.
FollowsAny == pos + 2 <= Len(argv)

\* A following word is a value unless it begins with a dash.
Follows == pos + 2 <= Len(argv) /\ argv[pos + 2].dashes = 0

Tokens == [kind : {"flag", "valued", "positional"}, name : STRING, value : Values, of : Nat, uses : SUBSET Nat]
Token(kind, name, value, uses) == [kind |-> kind, name |-> name, value |-> value, of |-> pos + 1, uses |-> uses]
Flag(name) == Token("flag", name, Absent, {pos + 1})
Taken(name) == Token("valued", name, argv[pos + 2].name, {pos + 1, pos + 2})

\* "--" itself, which "--=x" is not.
EndsOptions(w) == w.dashes = 2 /\ w.name = "" /\ w.value = Absent

Reads(shape, new, count) ==
    /\ step = "parse"
    /\ pos < Len(argv)
    /\ shape
    /\ tokens' = tokens \o new
    /\ pos' = pos + count
    /\ UNCHANGED <<argv, args, step, plugins, result>>

\* "--": all that follow are positional.
EndOfOptions ==
    Reads(EndsOptions(word),
          [i \in 1..Len(argv) - pos - 1 |->
              [kind |-> "positional", name |-> argv[pos + 1 + i].name, value |-> Absent,
               of |-> pos + 1 + i, uses |-> {pos + 1 + i}]],
          Len(argv) - pos)

\* --flag=value, and -x=value, whose name is then all before the "=".
Assigned ==
    Reads(word.dashes > 0 /\ word.value # Absent,
          << Token("valued", word.name, word.value, {pos + 1}) >>, 1)

LongWithValue ==
    Reads(word.dashes = 2 /\ word.name # "" /\ word.value = Absent /\ word.name \in TakesValue /\ Follows,
          << Taken(word.name) >>, 2)

Long ==
    Reads(word.dashes = 2 /\ word.name # "" /\ word.value = Absent /\ ~(word.name \in TakesValue /\ Follows),
          << Flag(word.name) >>, 1)

\* The first letter of a cluster that takes a value, or none.
ValueLetter == SelectInSeq(word.letters, LAMBDA x : x \in TakesValue)

FlagsBefore(n) == [i \in 1..n |-> Flag(word.letters[i])]

Cluster ==
    LET n == Len(word.letters)
        v == ValueLetter
        letter == word.letters[v]
    IN /\ step = "parse" /\ pos < Len(argv)
       /\ word.dashes = 1 /\ word.letters # <<>> /\ word.value = Absent
       /\ \/ Reads(v = 0, FlagsBefore(n), 1)
          \/ Reads(v > 0 /\ v < n,
                   Append(FlagsBefore(v - 1), Token("valued", letter, word.rest, {pos + 1})), 1)
          \/ Reads(v > 0 /\ v = n /\ Follows, Append(FlagsBefore(v - 1), Taken(letter)), 2)
          \/ Reads(v > 0 /\ v = n /\ ~Follows, FlagsBefore(n), 1)

\* A word without dash, with or without "=", and "-" alone.
Positional ==
    Reads(word.dashes = 0 \/ (word.dashes = 1 /\ word.letters = <<>> /\ word.value = Absent),
          << Token("positional", word.name, Absent, {pos + 1}) >>, 1)

Parsed ==
    /\ step = "parse"
    /\ pos = Len(argv)
    /\ step' = "apply"
    /\ UNCHANGED <<argv, pos, tokens, args, plugins, result>>

-----------------------------------------------------------------------------
(* apply_flag: later tokens override earlier ones, unknown ones do nothing. *)

Finite == {"2", "3", "5"}
StreamModes == {<<"--stdout-csv", "StdoutCsv">>, <<"--stdout-json", "StdoutJson">>}
BareModes == StreamModes \cup
    {<<"-w", "WebServer">>, <<"--webserver", "WebServer">>, <<"-h", "Help">>, <<"-V", "Version">>,
     <<"--fetch", "Fetch">>, <<"--modules-list", "ModulesList">>, <<"--issue", "Issue">>,
     <<"--api-doc", "ApiDoc">>}
Subsets == {"-2", "-3", "-4", "-5", "--light", "--disable-process"}

Modes == {p[2] : p \in BareModes} \cup {"Standalone", "StdoutPath", "Client", "Ping"}

Args == [mode : Modes, refresh : Finite, asks : SUBSET {"--username", "--password"}, named : BOOLEAN,
         hides : SUBSET Subsets, disabled : SUBSET Values, enabled : SUBSET (Values \cup {"irq"}),
         force : BOOLEAN, host : BOOLEAN]

\* apply_bare
Bare(a, name) ==
    CASE \E p \in BareModes : p[1] = name ->
            [a EXCEPT !.mode = (CHOOSE p \in BareModes : p[1] = name)[2]]
      [] name \in {"--username", "--password"} -> [a EXCEPT !.asks = @ \cup {name}]
      [] name \in Subsets -> [a EXCEPT !.hides = @ \cup {name}]
      [] name = "--enable-irq" -> [a EXCEPT !.enabled = @ \cup {"irq"}]
      [] name = "--snmp-force" -> [a EXCEPT !.force = TRUE]
      [] OTHER -> a

\* Only finite positives land.
Usable(value) == value \in Finite

\* apply_valued
Valued(a, name, value) ==
    CASE name \in {"-t", "--time"} -> IF Usable(value) THEN [a EXCEPT !.refresh = value] ELSE a
      [] \E p \in StreamModes : p[1] = name ->
            [a EXCEPT !.mode = (CHOOSE p \in StreamModes : p[1] = name)[2]]
      [] name = "--stdout" -> [a EXCEPT !.mode = "StdoutPath"]
      [] name \in {"-c", "--client"} -> [a EXCEPT !.mode = "Client", !.host = TRUE]
      [] name = "--ping" -> [a EXCEPT !.mode = "Ping"]
      [] name = "-u" -> [a EXCEPT !.named = TRUE]
      [] name = "--disable-plugin" -> [a EXCEPT !.disabled = @ \cup {value}]
      [] name = "--enable-plugin" -> [a EXCEPT !.enabled = @ \cup {value}]
      [] OTHER -> a

Apply ==
    /\ step = "apply"
    /\ tokens # <<>>
    /\ LET t == Head(tokens)
       IN args' = CASE t.kind = "flag" -> Bare(args, t.name)
                    [] t.kind = "valued" -> Valued(args, t.name, t.value)
                    [] OTHER -> args
    /\ tokens' = Tail(tokens)
    /\ UNCHANGED <<argv, pos, step, plugins, result>>

Applied ==
    /\ step = "apply"
    /\ tokens = <<>>
    /\ step' = "run"
    /\ UNCHANGED <<argv, pos, tokens, args, plugins, result>>

-----------------------------------------------------------------------------
(* register and main.                                                      *)

LeftSidebar == {"network", "ports", "wifi", "connections", "diskio", "fs", "irq", "folders", "raid",
                "smart", "sensors", "now"}
TopSet == {"quicklook", "cpu", "mem", "memswap", "load"}
ProcessFamily == {"processcount", "processlist", "programlist"}
LightExtra == ProcessFamily \cup {"alert", "amps", "containers", "vms"}
AllPlugins == LeftSidebar \cup TopSet \cup LightExtra \cup
    {"percpu", "ip", "uptime", "system", "cloud", "gpu", "npu", "power", "mpp", "pressure", "help",
     "version", "psutilversion"}

\* What each display subset switches off.
HiddenBy(flag) ==
    CASE flag = "-2" -> LeftSidebar
      [] flag = "-3" -> {"quicklook"}
      [] flag = "-4" -> {"cpu", "mem", "memswap"}
      [] flag = "-5" -> TopSet
      [] flag = "--light" -> LeftSidebar \cup LightExtra
      [] flag = "--disable-process" -> ProcessFamily

\* register_filtered
Filtered(disabled, enabled) ==
    {p \in AllPlugins :
        /\ p \notin disabled
        /\ "all" \in disabled => p \in enabled
        /\ p = "irq" => p \in enabled}

\* modes::register
Registered(hides, disabled, enabled) ==
    Filtered(disabled \cup UNION {HiddenBy(f) : f \in hides},
             enabled \cup (IF "-4" \in hides THEN {"quicklook", "load"} ELSE {}))

Registers == {"Fetch", "StdoutCsv", "StdoutJson", "StdoutPath", "WebServer"}

\* CLI wins over config: the latter counts only if the former is at its default.
Effective(conf) == IF conf # Absent /\ args.refresh = Defaults.refresh THEN conf ELSE args.refresh

\* main(): the modes, in which the client needs --snmp-force and a host, and
\* Standalone is refused.  The prompts are asked by the server and the client.
Main ==
    /\ step = "run"
    /\ \E conf \in ConfRefresh :
        result' = [exit |-> IF \/ args.mode = "Standalone"
                               \/ args.mode = "Client" /\ ~(args.force /\ args.host)
                            THEN "failure" ELSE args.mode,
                   prompts |-> /\ args.mode \in {"WebServer", "Client"}
                               /\ args.asks # {} \/ args.named,
                   refresh |-> Effective(conf)]
    /\ plugins' = IF args.mode \in Registers
                  THEN Registered(args.hides, args.disabled, args.enabled) ELSE {}
    /\ step' = "done"
    /\ UNCHANGED <<argv, pos, tokens, args>>

LineNext ==
    \/ Exec \/ EndOfOptions \/ Assigned \/ LongWithValue \/ Long \/ Cluster \/ Positional \/ Parsed
    \/ Apply \/ Applied \/ Main

LineSpec == LineInit /\ [][LineNext]_lineVars

-----------------------------------------------------------------------------
(* Properties.                                                             *)

LineTypeOK ==
    /\ argv \in Seq(Words) /\ Len(argv) <= MaxWords
    /\ pos \in 0..Len(argv)
    /\ step \in {"shell", "parse", "apply", "run", "done"}
    /\ args \in Args
    /\ plugins \subseteq AllPlugins
    /\ tokens \in Seq(Tokens)

\* Every word read is read one way: it is the source of tokens or the value of
\* one, a value never has a dash, and letters of a value or words after "--" are
\* never flags ("used to launch an unauthenticated XML-RPC server", parse.rs:62).
WordsReadOnce ==
    step = "parse" =>
        /\ \A i, j \in DOMAIN tokens : tokens[i].of # tokens[j].of => tokens[i].uses \cap tokens[j].uses = {}
        /\ \A i \in DOMAIN tokens : \A w \in tokens[i].uses \ {tokens[i].of} : argv[w].dashes = 0
        /\ \A i \in DOMAIN tokens :
            tokens[i].kind # "positional" =>
                \A w \in 1..tokens[i].of - 1 : ~EndsOptions(argv[w])
        /\ \A i, j \in DOMAIN tokens :
            tokens[i].of = tokens[j].of /\ tokens[i].kind = "valued" => j <= i

\* "Each subset flag keeps its own meaning" (modes.rs:29): with any other flags,
\* in any order, what is on is what every flag given leaves on, and a name that
\* was disabled is off whatever enables it.
SubsetsCompose ==
    step = "done" /\ plugins # {} =>
        /\ plugins \cap args.disabled = {}
        /\ "all" \notin args.disabled =>
            plugins = {p \in AllPlugins :
                /\ p \notin args.disabled
                /\ p = "irq" => "irq" \in args.enabled
                /\ \A f \in args.hides : p \in Registered({f}, {}, {"irq"})}

\* Both.
ArgsAsMeant == WordsReadOnce /\ SubsetsCompose
=============================================================================
