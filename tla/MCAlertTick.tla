---------------------------- MODULE MCAlertTick ----------------------------
(* AlertTick on small instances. *)
EXTENDS AlertTick

At(percent) ==
    [current |-> percent, minimum |-> 0, maximum |-> 100, highlightZero |-> FALSE]

NoReading == At(0)
Calm == At(30)
High == At(87)
Critical == At(95)

Rising == {NoReading, Calm, High}
Steep == {NoReading, Calm, Critical}

\* The built-in row of mem, memswap, fs and quicklook.
StandardLimits ==
    [key \in Plugins \X Bands |->
        CASE key[2] = "CAREFUL" -> 50 [] key[2] = "WARNING" -> 70
          [] key[2] = "CRITICAL" -> 90]

\* The critical limit of the first plugin is lowered: High is critical to it
\* and a warning to the others.
ConfiguredLimits == [key \in {<<1, "CRITICAL">>} |-> 85]

\* Retain is the standard SelectSeq on the logs of the instance.
ASSUME RetainSelects ==
    \A n \in 0..3 : \A l \in [1..n -> {Event(1, b) : b \in Bands}] :
        Retain(l, {i \in DOMAIN l : ~Minor(l[i])}) = SelectSeq(l, LAMBDA e : ~Minor(e))
=============================================================================
