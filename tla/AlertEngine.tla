---------------------------- MODULE AlertEngine ----------------------------
(***************************************************************************)
(* Classification of a measurement (core/alerts.rs): limit lookup,         *)
(* get_alert's early returns and bands, and which words are logged.        *)
(*                                                                         *)
(* A plugin's limits are a function from some of the keys <<name, band>>   *)
(* to numbers, or to NoLimit for an entry that does not parse as one.  A   *)
(* measurement is a record; the percentage current * 100 / maximum is only *)
(* ever compared, so it is compared multiplied out.                        *)
(***************************************************************************)
EXTENDS Integers

CONSTANT NoLimit

Bands == {"CAREFUL", "WARNING", "CRITICAL"}
Words == Bands \cup {"OK", "DEFAULT"}

Rank(word) ==
    LET rank == [DEFAULT |-> 0, OK |-> 1, CAREFUL |-> 2, WARNING |-> 3, CRITICAL |-> 4]
    IN rank[word]

LimitNumber(limits, key) == IF key \in DOMAIN limits THEN limits[key] ELSE NoLimit

\* <stat>_<band>, else <plugin>_<band>.
GetLimit(limits, plugin, stat, band) ==
    IF LimitNumber(limits, <<stat, band>>) # NoLimit
    THEN LimitNumber(limits, <<stat, band>>)
    ELSE LimitNumber(limits, <<plugin, band>>)

\* apply_limits_config: built-in defaults only where nothing is set, then the
\* configured entries over them.
WithDefaults(defaults, configured) ==
    [key \in DOMAIN defaults \cup DOMAIN configured |->
        IF key \in DOMAIN configured THEN configured[key] ELSE defaults[key]]

Reaches(m, limit) == limit # NoLimit /\ m.current * 100 >= limit * m.maximum

\* The early returns of get_alert: nothing is looked up and nothing remembered.
Unclassified(m) ==
    \/ m.current = 0 /\ ~m.highlightZero
    \/ m.maximum = 0

\* Fault form: the bands are tried from the mildest on.
ClassifyMildestFirst(limits, plugin, stat, m) ==
    LET limit(b) == GetLimit(limits, plugin, stat, b)
    IN CASE m.current < m.minimum -> "CAREFUL"
         [] Reaches(m, limit("CAREFUL")) -> "CAREFUL"
         [] ~Reaches(m, limit("CAREFUL")) /\ Reaches(m, limit("WARNING")) -> "WARNING"
         [] ~\E b \in {"CAREFUL", "WARNING"} : Reaches(m, limit(b)) ->
                IF Reaches(m, limit("CRITICAL")) THEN "CRITICAL"
                ELSE IF \E b \in Bands : limit(b) # NoLimit THEN "OK" ELSE "DEFAULT"

\* The first band reached from CRITICAL down; OK when there are bands and none
\* is reached; CAREFUL in any case when the value is below the minimum.
Classify(limits, plugin, stat, m) ==
    LET limit(b) == GetLimit(limits, plugin, stat, b)
        reached == {b \in Bands : Reaches(m, limit(b))}
    IN IF m.current < m.minimum THEN "CAREFUL"
       ELSE IF reached # {}
            THEN CHOOSE b \in reached : \A c \in reached : Rank(c) <= Rank(b)
            ELSE IF \E b \in Bands : limit(b) # NoLimit THEN "OK" ELSE "DEFAULT"

\* trigger_severity: the words that make an event when their stat is logged.
Severe(word) == word \in Bands
=============================================================================
