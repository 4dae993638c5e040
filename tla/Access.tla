------------------------------- MODULE Access -------------------------------
(***************************************************************************)
(* Who may ask the server what: the credential file (core/password), the   *)
(* start-up prompts that write it, the memo of verdicts the connection     *)
(* threads share, and the gate in front of every route                     *)
(* (outputs/web/auth.rs).  The file is rewritten in place, by a process    *)
(* that may die or meet a full disk at any point of it, and is read again  *)
(* by the next one.                                                        *)
(*                                                                         *)
(* A hash is the secret it was made from; salts, shapes and base64 are     *)
(* left out.  A line cut off in the middle loads as an entry no secret     *)
(* fits (Torn) or is skipped for want of a colon.                          *)
(***************************************************************************)
EXTENDS Naturals, Sequences

CONSTANTS
    Users,     \* names given at the prompt, in the file or by clients
    Commented, \* those among them whose line reads as a comment
    Secrets,   \* passwords
    Keys,      \* API keys
    Threads,   \* connection threads
    Asked,     \* what clients ask
    MemoCap,   \* verdicts remembered (32)
    MaxStarts, \* bound on starts of the process
    Unset,     \* absence
    Torn       \* a hash cut off in the middle

Logins == Users \X Secrets
Paths == {"favicon", "shell", "data"}
Requests == [path : Paths, basic : Logins \cup {Unset}, key : Keys \cup {Unset}]

ASSUME AccessAssumption ==
    /\ Asked \subseteq Requests
    /\ Commented \subseteq Users
    /\ MemoCap \in Nat \ {0}
    /\ MaxStarts \in Nat
    /\ Unset \notin Users \cup Secrets \cup Keys \cup Logins
    /\ Unset \notin [Users -> Secrets \cup {Unset, Torn}]
    /\ Torn \notin Secrets \cup {Unset}

VARIABLES
    file,     \* the credential file: Unset if missing, else what each user's line says
    starts,   \* times the process was started
    phase,    \* down, prompting, saving, writing, serving
    entries,  \* PasswordFile::entries
    named,    \* whether PasswordFile::path names the file
    unsaved,  \* entries still to be written by save()
    gate,     \* auth_enabled and the API key
    memo,     \* PasswordFile::cache
    thread,   \* idle, lookup, verify, remember, served, refused
    request,  \* what each thread's client asks
    verdict,  \* what check() found for it
    defined,  \* history: logins that were on file at first or given at a prompt
    saved,    \* history: what the last save() that returned Ok wrote, Unset once another begins
    login,    \* history: the login given at this start's prompt
    diskFails \* history: whether the system refused a file operation in this start

disk == <<file, saved>>
startup == <<starts, entries, named, gate, defined, login>>
serving == <<memo, thread, request, verdict>>
accessVars == <<file, starts, phase, entries, named, unsaved, gate, memo, thread, request,
          verdict, defined, saved, login, diskFails>>

NoEntries == [u \in Users |-> Unset]
NoRequest == [path |-> "favicon", basic |-> Unset, key |-> Unset]

AccessInit ==
    /\ file = Unset
    /\ starts = 0
    /\ phase = "down"
    /\ entries = NoEntries
    /\ named = FALSE
    /\ unsaved = {}
    /\ gate = [basic |-> FALSE, key |-> Unset]
    /\ memo = <<>>
    /\ thread = [t \in Threads |-> "idle"]
    /\ request = [t \in Threads |-> NoRequest]
    /\ verdict = [t \in Threads |-> FALSE]
    /\ defined = {}
    /\ saved = Unset
    /\ login = Unset
    /\ diskFails = FALSE

-----------------------------------------------------------------------------
(* The start of the process: load, prompt, save.                           *)

\* Before the first start somebody may have written the file: an editor, or the
\* Python tool, which shares it.
Provide ==
    /\ starts = 0
    /\ phase = "down"
    /\ file = Unset
    /\ file' \in [Users -> Secrets \cup {Unset}]
    /\ defined' = {l \in Logins : file'[l[1]] = l[2]}
    /\ UNCHANGED <<starts, phase, entries, named, unsaved, gate, serving, saved, login, diskFails>>

\* PasswordFile::load of a file that can be read: comments are skipped.
Loaded(f) == [u \in Users |-> IF u \in Commented THEN Unset ELSE f[u]]

\* resolve_api_key: the environment, else the key file, else no gate.  A blank
\* one is none.
ApiKey(environment, keyFile) == IF environment # Unset THEN environment ELSE keyFile

\* main: read the file, then the prompts.  A missing file, and one that cannot
\* be read, leave an empty PasswordFile, which has no path either.
Start ==
    /\ phase = "down"
    /\ starts < MaxStarts
    /\ starts' = starts + 1
    /\ \E readable \in BOOLEAN :
        /\ named' = (readable /\ file # Unset)
        /\ entries' = IF readable /\ file # Unset THEN Loaded(file) ELSE NoEntries
        /\ diskFails' = (~readable /\ file # Unset)
    /\ \E basic \in BOOLEAN, environment, keyFile \in Keys \cup {Unset} :
        gate' = [basic |-> basic, key |-> ApiKey(environment, keyFile)]
    /\ phase' \in {"prompting", "serving"}
    /\ login' = Unset
    /\ UNCHANGED <<disk, unsaved, serving, defined>>

\* resolve_auth: a name and a password, typed twice alike, then set(), which
\* clears the memo.
DefineLogin(u, s) ==
    /\ phase = "prompting"
    /\ entries' = [entries EXCEPT ![u] = s]
    /\ memo' = <<>>
    /\ phase' = "saving"
    /\ login' = <<u, s>>
    /\ defined' = defined \cup {<<u, s>>}
    /\ UNCHANGED <<disk, starts, named, unsaved, gate, thread, request, verdict, diskFails>>

\* save() cannot open its path: always so if there is none.  The caller warns.
OpenFails ==
    /\ phase = "saving"
    /\ phase' = "serving"
    /\ diskFails' = (diskFails \/ named)
    /\ UNCHANGED <<disk, startup, unsaved, serving>>

\* OpenOptions::truncate: from here the old lines are gone.
OpenTruncates ==
    /\ phase = "saving"
    /\ named
    /\ file' = NoEntries
    /\ saved' = Unset
    /\ unsaved' = {u \in Users : entries[u] # Unset}
    /\ phase' = "writing"
    /\ UNCHANGED <<startup, serving, diskFails>>

\* Some line reaches the disk.  HashMap promises no order.
WriteLine(u) ==
    /\ phase = "writing"
    /\ u \in unsaved
    /\ file' = [file EXCEPT ![u] = entries[u]]
    /\ unsaved' = unsaved \ {u}
    /\ UNCHANGED <<startup, phase, serving, saved, diskFails>>

\* What may be on disk when writing stops: a line may be cut.
Cut == {file} \cup {[file EXCEPT ![u] = Torn] : u \in unsaved}

\* write_all fails half way, with a full disk say.  The caller warns.
WriteFails ==
    /\ phase = "writing"
    /\ unsaved # {}
    /\ file' \in Cut
    /\ unsaved' = {}
    /\ phase' = "serving"
    /\ diskFails' = TRUE
    /\ UNCHANGED <<startup, serving, saved>>

\* Fault form: write() instead of write_all(), which may leave a rest.
WriteDoneEarly ==
    /\ phase = "writing"
    /\ unsaved' = {}
    /\ phase' = "serving"
    /\ saved' = entries
    /\ UNCHANGED <<file, startup, serving, diskFails>>

\* All is written and the mode is 0600: save() returns Ok.
WriteDone ==
    /\ phase = "writing"
    /\ unsaved = {}
    /\ phase' = "serving"
    /\ saved' = entries
    /\ UNCHANGED <<file, startup, unsaved, serving, diskFails>>

\* The process ends, by a signal or a crash, at any point.
Crash ==
    /\ phase # "down"
    /\ phase' = "down"
    /\ file' \in IF phase = "writing" THEN Cut ELSE {file}
    /\ entries' = NoEntries
    /\ named' = FALSE
    /\ unsaved' = {}
    /\ gate' = [basic |-> FALSE, key |-> Unset]
    /\ memo' = <<>>
    /\ thread' = [t \in Threads |-> "idle"]
    /\ request' = [t \in Threads |-> NoRequest]
    /\ verdict' = [t \in Threads |-> FALSE]
    /\ login' = Unset
    /\ diskFails' = FALSE
    /\ UNCHANGED <<starts, defined, saved>>

StartStep ==
    \/ Provide \/ Start
    \/ \E u \in Users, s \in Secrets : DefineLogin(u, s)
    \/ OpenFails \/ OpenTruncates
    \/ \E u \in Users : WriteLine(u)
    \/ WriteFails \/ WriteDone \/ Crash

-----------------------------------------------------------------------------
(* Requests.                                                               *)

\* gate_applies
GateApplies(path) ==
    /\ path # "favicon"
    /\ gate.basic \/ gate.key # Unset
    /\ gate.basic \/ path # "shell"

\* credentials_ok: whether the header names a login there is a verdict on, or
\* the key fits.
KeyFits(r) == gate.key # Unset /\ r.key = gate.key

At(t, here, there) == thread[t] = here /\ thread' = [thread EXCEPT ![t] = there]

Outcome(ok) == IF ok THEN "served" ELSE "refused"

\* A request comes; check() is asked only if Basic is on and the header, with
\* its base64, gives a login.
Receive(t, r) ==
    /\ phase = "serving"
    /\ request' = [request EXCEPT ![t] = r]
    /\ At(t, "idle",
          IF GateApplies(r.path) /\ gate.basic /\ r.basic # Unset THEN "lookup"
          ELSE Outcome(GateApplies(r.path) => KeyFits(r)))
    /\ UNCHANGED <<disk, startup, phase, unsaved, memo, verdict, diskFails>>

\* Fault form: hashes are compared over the length of the shorter one.
FitsPrefix(hash, secret) == hash \in {secret, Torn}

\* PasswordHash::verify; a torn hash has another length than any computed one.
Fits(hash, secret) == hash = secret

\* Fault form: the memo is keyed by the name alone.
RemembersByName(l, m) == m.login[1] = l[1]

Remembers(l, m) == m.login = l

\* check() first looks into the memo, under its mutex.
Lookup(t) ==
    LET hits == {i \in DOMAIN memo : Remembers(request[t].basic, memo[i])}
    IN /\ thread[t] = "lookup"
       /\ \/ \E i \in hits :
              /\ \A j \in hits : i <= j
              /\ At(t, "lookup", Outcome(memo[i].ok \/ KeyFits(request[t])))
          \/ hits = {} /\ At(t, "lookup", "verify")
       /\ UNCHANGED <<disk, startup, phase, unsaved, memo, request, verdict, diskFails>>

\* The slow hash runs outside the mutex; an unknown user pays for a dummy one.
Verify(t) ==
    /\ At(t, "verify", "remember")
    /\ verdict' = [verdict EXCEPT ![t] = Fits(entries[request[t].basic[1]], request[t].basic[2])]
    /\ UNCHANGED <<disk, startup, phase, unsaved, memo, request, diskFails>>

\* Fault form: nothing is evicted.
TrimNever(m) == m

\* At most 32 stay, the newest.
Trim(m) == IF Len(m) > MemoCap THEN Tail(m) ELSE m

\* The verdict is pushed, even if another thread pushed it meanwhile.
Remember(t) ==
    /\ memo' = Trim(Append(memo, [login |-> request[t].basic, ok |-> verdict[t]]))
    /\ At(t, "remember", Outcome(verdict[t] \/ KeyFits(request[t])))
    /\ verdict' = [verdict EXCEPT ![t] = FALSE]
    /\ UNCHANGED <<disk, startup, phase, unsaved, request, diskFails>>

\* The response is written and the thread ends.
Answer(t) ==
    /\ thread[t] \in {"served", "refused"}
    /\ thread' = [thread EXCEPT ![t] = "idle"]
    /\ request' = [request EXCEPT ![t] = NoRequest]
    /\ UNCHANGED <<disk, startup, phase, unsaved, memo, verdict, diskFails>>

RequestStep(t) ==
    \/ \E r \in Asked : Receive(t, r)
    \/ Lookup(t) \/ Verify(t) \/ Remember(t) \/ Answer(t)

AccessNext == StartStep \/ \E t \in Threads : RequestStep(t)

AccessSpec == AccessInit /\ [][AccessNext]_accessVars

-----------------------------------------------------------------------------
(* Properties.                                                             *)

\* Types; the memo never outgrows its capacity, and is empty unless serving.
AccessTypeOK ==
    /\ file \in [Users -> Secrets \cup {Unset, Torn}] \cup {Unset}
    /\ starts \in 0..MaxStarts
    /\ phase \in {"down", "prompting", "saving", "writing", "serving"}
    /\ entries \in [Users -> Secrets \cup {Unset, Torn}]
    /\ named \in BOOLEAN
    /\ named => file # Unset
    /\ unsaved \subseteq Users
    /\ gate \in [basic : BOOLEAN, key : Keys \cup {Unset}]
    /\ memo \in Seq([login : Logins, ok : BOOLEAN])
    /\ Len(memo) <= MemoCap
    /\ thread \in [Threads -> {"idle", "lookup", "verify", "remember", "served", "refused"}]
    /\ request \in [Threads -> Requests]
    /\ verdict \in [Threads -> BOOLEAN]
    /\ defined \subseteq Logins
    /\ saved \in [Users -> Secrets \cup {Unset, Torn}] \cup {Unset}
    /\ login \in Logins \cup {Unset}
    /\ diskFails \in BOOLEAN

\* A request is served exactly if its path is open or one of its credentials
\* is right by the entries and the key there are, whatever the memo held and
\* whichever threads filled it: docs/api.md:6-18, auth.rs gate_applies and
\* credentials_ok over PasswordFile::check.
GateExact ==
    \A t \in Threads :
        LET r == request[t]
            open == \/ ~gate.basic /\ gate.key = Unset
                    \/ r.path = "favicon"
                    \/ r.path = "shell" /\ ~gate.basic
            right == \/ gate.basic /\ r.basic # Unset /\ Fits(entries[r.basic[1]], r.basic[2])
                     \/ gate.key # Unset /\ r.key = gate.key
        IN /\ thread[t] = "served" => open \/ right
           /\ thread[t] = "refused" => ~(open \/ right)

\* However often the file was rewritten, torn, lost or read again, no login
\* checks that nobody ever defined: load() and parse_hash() of a prefix.
OnlyDefinedLogins == \A l \in Logins : Fits(entries[l[1]], l[2]) => l \in defined

\* What a save() that returned Ok wrote is what the next process reads, up to
\* names whose lines read as comments: save() and load() agree on the format.
SavedSurvives ==
    saved # Unset =>
        /\ file # Unset
        /\ \A u \in Users \ Commented : file[u] = saved[u]
        /\ phase = "prompting" /\ named =>
            \A u \in Users \ Commented : entries[u] = saved[u]

\* A login given at the prompt is on file once the server serves, unless the
\* system refused a file operation ("load, verify, and persist logins",
\* password/mod.rs:1).  Fails: a missing file leaves no path to save to.
LoginPersists ==
    phase = "serving" /\ login # Unset /\ ~diskFails =>
        file # Unset /\ file[login[1]] = login[2]
=============================================================================
