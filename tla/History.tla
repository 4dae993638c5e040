------------------------------ MODULE History ------------------------------
(***************************************************************************)
(* The history of one plugin whose stats are a list of elements            *)
(* (core/history.rs and update_stats_history of core/plugin.rs): after     *)
(* each update that succeeds, one sample of each curated field of each     *)
(* element goes to the series named after the element and the field.       *)
(* Elements come and go; a series whose element is gone stays.  Timestamps *)
(* are left out: a sample is told by the update it was taken in.           *)
(***************************************************************************)
EXTENDS Naturals, Sequences, FiniteSets, SequencesExt

CONSTANTS Labels,      \* identities of elements
          NoLabel,     \* the key field is missing, empty or no name
          Items,       \* history_items()
          HistorySize, \* the limit history_size
          MaxUpdates   \* bound on the updates

ASSUME HistoryAssumption == HistorySize \in Nat /\ IsFiniteSet(Items)

VARIABLES elements, \* the stats: for each element, its label and the fields it has
          series,   \* GlancesHistory.entries
          updates,  \* number of updates that succeeded
          log       \* history: everything ever added to each series

historyVars == <<elements, series, updates, log>>

Keys == (Labels \cup 1..2) \X Items

HistoryInit ==
    /\ elements = <<>>
    /\ series = [k \in {} |-> <<>>]
    /\ updates = 0
    /\ log = [k \in Keys |-> <<>>]

\* set_max_size: the store stays usable.
MaxSize == IF HistorySize = 0 THEN 1 ELSE HistorySize

\* GlancesHistory::get: the newest nb samples, all of them for 0.
Newest(s, nb) == IF nb = 0 \/ nb >= Len(s) THEN s ELSE SubSeq(s, Len(s) - nb + 1, Len(s))

Entry(entries, key) == IF key \in DOMAIN entries THEN entries[key] ELSE <<>>

\* Faulty form: the oldest go when the series has just reached the cap.
CappedEarly(s) == IF Len(s) >= MaxSize THEN Newest(s, MaxSize - 1) ELSE s
Capped(s) == IF Len(s) > MaxSize THEN Newest(s, MaxSize) ELSE s

\* GlancesHistory::add.
Add(entries, key, value) ==
    [k \in DOMAIN entries \cup {key} |->
        IF k = key THEN Capped(Append(Entry(entries, key), value)) ELSE entries[k]]

\* element_label: the index stands in for a label that is missing.
ElementLabel(list, i) == IF list[i].label = NoLabel THEN i ELSE list[i].label

\* The keys a list of elements records under, in order.
Recorded(list) ==
    FlattenSeq([i \in DOMAIN list |->
        [j \in 1..Cardinality(list[i].has) |-> <<ElementLabel(list, i), SetToSeq(list[i].has)[j]>>]])

\* A sample of each key, one after the other.
AddAll(keys, value) ==
    LET added[n \in 0..Len(keys)] == IF n = 0 THEN series ELSE Add(added[n - 1], keys[n], value)
    IN added[Len(keys)]

\* Beside them, everything there ever was.
Logged(keys, value) ==
    LET added[n \in 0..Len(keys)] ==
            IF n = 0 THEN log ELSE [added[n - 1] EXCEPT ![keys[n]] = Append(@, value)]
    IN added[Len(keys)]

\* An update succeeds, and after_update records it when history is on.
Record(list, recording) ==
    /\ updates < MaxUpdates
    /\ updates' = updates + 1
    /\ elements' = list
    /\ IF recording
       THEN series' = AddAll(Recorded(list), updates') /\ log' = Logged(Recorded(list), updates')
       ELSE UNCHANGED <<series, log>>

\* The elements an update may bring: up to two, each with some of the fields.
ElementLists == UNION {[1..n -> [label : Labels \cup {NoLabel}, has : SUBSET Items]] : n \in 0..2}

HistoryNext == \E list \in ElementLists, recording \in BOOLEAN : Record(list, recording)

HistorySpec == HistoryInit /\ [][HistoryNext]_historyVars

----------------------------------------------------------------------------
\* Whatever came, went and came back, a series is the newest samples ever
\* recorded under its name, as many as the cap allows, in order; so is every
\* slice of it that a request asks for.
SeriesIsTail ==
    \A k \in Keys :
        /\ Entry(series, k) = Newest(log[k], MaxSize)
        /\ \A nb \in 1..MaxSize : Newest(Entry(series, k), nb) = Newest(log[k], nb)
============================================================================
