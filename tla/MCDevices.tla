----------------------------- MODULE MCDevices ------------------------------
(***************************************************************************)
(* The refresh loop and the plugins' own state, each on a small instance.  *)
(* Plugins share nothing but the tick that calls them (module StatsHub),   *)
(* so one run takes these machines one at a time: part says which.         *)
(***************************************************************************)
EXTENDS MCRefreshLoop, CounterPlugins, MCGpuPlugin, Addressing, Readings, MCFilters,
        Processes, History, MCBer, MCTexts, MCHealth, MCSettings

(* Addressing: two interfaces beside the loopback. *)

\* Addresses 4 and 5 are in one subnet, 6 in another, all in a wider one; 1 is the
\* loopback's.
Link(name, up, address) == [name |-> name, up |-> up, address |-> address]
Route(iface, dest, length, gateway) == [iface |-> iface, dest |-> dest, length |-> length, gateway |-> gateway]

\* An interface: its link and the route of its subnet.
Side(name) ==
    {[link |-> Link(name, up, Absent), routes |-> <<>>] : up \in BOOLEAN}
    \cup {[link |-> Link(name, up, a), routes |-> rs] :
            up \in BOOLEAN, a \in {4, 5, 6}, rs \in {<<>>, <<Route(name, 4, 2, 0)>>, <<Route(name, 6, 2, 0)>>, <<Route(name, 4, 1, 0)>>}}

\* Routes agree with addresses.
Fits(side) == \A i \in DOMAIN side.routes : Covers(side.routes[i], side.link.address)

Defaults ==
    {<<>>, <<Route("eth", 0, 0, 4)>>, <<Route("tun", 0, 0, 0)>>, <<Route("tun", 0, 0, 6)>>,
     <<Route("tun", 0, 0, 0), Route("eth", 0, 0, 4)>>, <<Route("eth", 0, 0, 4), Route("tun", 0, 0, 6)>>}

SomeTables ==
    {[links |-> <<Link("lo", TRUE, 1), e.link, t.link>>, routes |-> d \o e.routes \o t.routes] :
        e \in {s \in Side("eth") : Fits(s)}, t \in {s \in Side("tun") : Fits(s)}, d \in Defaults}

LoopbackOnly == {1}
SomeReplies == {[literal |-> TRUE], [literal |-> FALSE]}

----------------------------------------------------------------------------
VARIABLE part

Parts == {"loop", "counters", "gpu", "addressing", "readings", "filters", "processes", "history",
          "ber", "texts", "health", "settings"}

\* The machines that are not under way stay in one initial state.
Idle(name, start) == part # name => start

DevicesInit ==
    /\ part \in Parts
    /\ Init /\ CountersInit /\ GpuInit /\ AddressingInit /\ ReadingsInit /\ FilterInit
    /\ ProcessesInit /\ HistoryInit /\ BerInit /\ TextsInit /\ HealthInit
    /\ SettingsInit
    /\ Idle("counters", plugin = "power" /\ \A e \in Elements : counter[e] = 0)
    /\ Idle("addressing", ~enabled)
    /\ Idle("readings", gauge = "uptime")
    /\ Idle("settings", followed = "load" /\ \A p \in DOMAIN setup.at : setup.at[p] \in {Missing, <<>>})

DevicesNext ==
    \/ /\ part = "loop" /\ Next
       /\ UNCHANGED <<part, countersVars, gpuVars, addressingVars, readingsVars, filterVars,
                      processVars, historyVars, berVars, textsVars, healthVars, settingsVars>>
    \/ /\ part = "counters" /\ CountersNext
       /\ UNCHANGED <<part, vars, gpuVars, addressingVars, readingsVars, filterVars,
                      processVars, historyVars, berVars, textsVars, healthVars, settingsVars>>
    \/ /\ part = "gpu" /\ GpuNext
       /\ UNCHANGED <<part, vars, countersVars, addressingVars, readingsVars, filterVars,
                      processVars, historyVars, berVars, textsVars, healthVars, settingsVars>>
    \/ /\ part = "addressing" /\ AddressingNext
       /\ UNCHANGED <<part, vars, countersVars, gpuVars, readingsVars, filterVars,
                      processVars, historyVars, berVars, textsVars, healthVars, settingsVars>>
    \/ /\ part = "readings" /\ ReadingsNext
       /\ UNCHANGED <<part, vars, countersVars, gpuVars, addressingVars, filterVars,
                      processVars, historyVars, berVars, textsVars, healthVars, settingsVars>>
    \/ /\ part = "filters" /\ FilterNext
       /\ UNCHANGED <<part, vars, countersVars, gpuVars, addressingVars, readingsVars,
                      processVars, historyVars, berVars, textsVars, healthVars, settingsVars>>
    \/ /\ part = "processes" /\ ProcessesNext
       /\ UNCHANGED <<part, vars, countersVars, gpuVars, addressingVars, readingsVars,
                      filterVars, historyVars, berVars, textsVars, healthVars, settingsVars>>
    \/ /\ part = "history" /\ HistoryNext
       /\ UNCHANGED <<part, vars, countersVars, gpuVars, addressingVars, readingsVars,
                      filterVars, processVars, berVars, textsVars, healthVars, settingsVars>>
    \/ /\ part = "ber" /\ BerNext
       /\ UNCHANGED <<part, vars, countersVars, gpuVars, addressingVars, readingsVars,
                      filterVars, processVars, historyVars, textsVars, healthVars, settingsVars>>
    \/ /\ part = "texts" /\ TextsNext
       /\ UNCHANGED <<part, vars, countersVars, gpuVars, addressingVars, readingsVars,
                      filterVars, processVars, historyVars, berVars, healthVars, settingsVars>>
    \/ /\ part = "health" /\ HealthNext
       /\ UNCHANGED <<part, vars, countersVars, gpuVars, addressingVars, readingsVars,
                      filterVars, processVars, historyVars, berVars, textsVars, settingsVars>>
    \/ /\ part = "settings" /\ SettingsNext
       /\ UNCHANGED <<part, vars, countersVars, gpuVars, addressingVars, readingsVars,
                      filterVars, processVars, historyVars, berVars, textsVars, healthVars>>

devicesVars == <<part, vars, countersVars, gpuVars, addressingVars, readingsVars, filterVars,
                 processVars, historyVars, berVars, textsVars, healthVars, settingsVars>>

DevicesSpec == DevicesInit /\ [][DevicesNext]_devicesVars

----------------------------------------------------------------------------
\* Each machine's state keeps its type: no clock difference is below zero, no
\* counter beyond its width, no service reply is shown that does not parse as an
\* address.
DevicesTypeOK ==
    CASE part = "loop" -> TypeOK
      [] part = "counters" -> CountersTypeOK
      [] part = "gpu" -> GpuTypeOK
      [] part = "addressing" -> AddressingTypeOK
      [] part = "readings" -> ReadingsTypeOK
      [] part \in {"filters", "processes", "history", "ber", "texts", "health", "settings"} -> TRUE
============================================================================
