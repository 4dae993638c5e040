----------------------------- MODULE Addressing -----------------------------
(***************************************************************************)
(* Which interface an address belongs to: the ip plugin (plugins/ip), which *)
(* describes the interface of the default route from four readings of the  *)
(* kernel's tables, the attribution of addresses in the network plugin     *)
(* (ip/attribute.rs), and the daemon that keeps the public address.        *)
(*                                                                         *)
(* An address is a number of Bits bits, a network a number and a length.   *)
(* A table has its rows by line number; rows that go leave their lines out. *)
(* The tables are looked at during an update only; links go down between   *)
(* its readings.                                                           *)
(***************************************************************************)
EXTENDS Naturals, FiniteSets, FiniteSetsExt, Functions

CONSTANTS
    Bits,      \* width of an address
    Loopbacks, \* addresses of 127/8
    Lo,        \* the loopback interface
    Tables,    \* what the kernel may say: links and routes, in their order
    Replies,   \* what a fetch of the public address may give
    Absent     \* the empty string

\* A link is a name, whether it is up, and its address; a route an interface, a
\* destination, the length of its mask and a gateway, 0 for none.
WellFormed(t) ==
    /\ DOMAIN t.links \subseteq Nat /\ DOMAIN t.routes \subseteq Nat
    /\ \A i \in DOMAIN t.links : t.links[i].address \in (0..2^Bits - 1) \cup {Absent}
    /\ \A i \in DOMAIN t.routes : t.routes[i].length \in 0..Bits

ASSUME AddressingAssumption == Bits \in Nat \ {0} /\ \A t \in Tables : WellFormed(t)

VARIABLES
    tables,  \* the tables, or Absent between updates
    reading, \* what the ip plugin reads next
    draft,   \* the fields read
    calm,    \* history: whether the tables were the same at every reading
    enabled, \* configure: whether there is an endpoint
    public   \* PUBLIC_IP

addressingVars == <<tables, reading, draft, calm, enabled, public>>

Blank == [iface |-> Absent, mac |-> Absent, mask |-> Absent, gateway |-> Absent, address |-> Absent, public |-> Absent]

AddressingInit ==
    /\ tables = Absent
    /\ reading = "none"
    /\ draft = Blank
    /\ calm = TRUE
    /\ enabled \in BOOLEAN
    /\ public = Absent

-----------------------------------------------------------------------------
(* Tables.                                                                 *)

Covers(r, a) == a \div 2^(Bits - r.length) = r.dest \div 2^(Bits - r.length)
IsDefault(r) == r.dest = 0

\* local_ips_from_fib_trie: the lines of the links that have an address.
LocalIps(t) == {k \in DOMAIN t.links : t.links[k].address # Absent}

\* default_iface: the first default route with a gateway, or else a link that
\* is not the loopback.
DefaultIface(t) ==
    LET routed == {i \in DOMAIN t.routes : IsDefault(t.routes[i]) /\ t.routes[i].gateway # 0}
        others == {k \in DOMAIN t.links : t.links[k].name # Lo}
    IN IF routed # {} THEN t.routes[Min(routed)].iface
       ELSE IF others # {} THEN t.links[Min(others)].name ELSE Absent

DefaultRoutes(t) == {i \in DOMAIN t.routes : IsDefault(t.routes[i])}

\* default_gateway: the first default route, with a gateway or without.
DefaultGateway(t) == IF DefaultRoutes(t) = {} THEN Absent ELSE t.routes[Min(DefaultRoutes(t))].gateway

\* Fault form: the first subnet there is.
AnySubnet(iface, r) == ~IsDefault(r) /\ r.length # Bits

\* mask_from_route and address_for_iface take the same row.
Subnet(iface, r) == r.iface = iface /\ ~IsDefault(r) /\ r.length # Bits

Subnets(iface, t) == {i \in DOMAIN t.routes : Subnet(iface, t.routes[i])}

MaskOf(iface, t) == IF Subnets(iface, t) = {} THEN Absent ELSE t.routes[Min(Subnets(iface, t))].length

\* address_for_iface, and private_ip_from_fib_trie where there is no interface.
AddressFor(iface, t) ==
    LET external == {k \in LocalIps(t) : t.links[k].address \notin Loopbacks}
        within == {k \in external : Subnets(iface, t) # {} /\ Covers(t.routes[Min(Subnets(iface, t))], t.links[k].address)}
        found == IF within = {} THEN external ELSE within
    IN IF found = {} THEN Absent ELSE t.links[Min(found)].address

-----------------------------------------------------------------------------
(* The ip plugin's update, one reading after the other.                    *)

Begin(t) ==
    /\ reading = "none"
    /\ tables' = t
    /\ reading' = "iface"
    /\ draft' = Blank
    /\ calm' = TRUE
    /\ UNCHANGED <<enabled, public>>

Read(what, next, value) ==
    /\ reading = what
    /\ draft' = [draft EXCEPT ![what] = value]
    /\ reading' = next
    /\ UNCHANGED <<tables, calm, enabled, public>>

Named(value) == IF draft.iface = Absent THEN Absent ELSE value
HasLink(iface) == \E i \in DOMAIN tables.links : tables.links[i].name = iface

AddressStep ==
    \/ reading = "iface" /\ Read("iface", "mac", DefaultIface(tables))
    \/ reading = "mac" /\ Read("mac", "mask", IF HasLink(draft.iface) THEN draft.iface ELSE Absent)
    \/ reading = "mask" /\ Read("mask", "gateway", Named(MaskOf(draft.iface, tables)))
    \/ reading = "gateway" /\ Read("gateway", "address", DefaultGateway(tables))
    \/ reading = "address" /\ Read("address", "public", AddressFor(draft.iface, tables))
    \/ reading = "public" /\ Read("public", "shown", public)

Rest ==
    /\ reading = "shown"
    /\ tables' = Absent
    /\ reading' = "none"
    /\ draft' = Blank
    /\ UNCHANGED <<calm, enabled, public>>

\* A link and its routes go.
LinkLost(name) ==
    /\ reading \notin {"none", "shown"}
    /\ HasLink(name)
    /\ tables' = [links |-> Restrict(tables.links, {k \in DOMAIN tables.links : tables.links[k].name # name}),
                  routes |-> Restrict(tables.routes, {i \in DOMAIN tables.routes : tables.routes[i].iface # name})]
    /\ calm' = FALSE
    /\ UNCHANGED <<reading, draft, enabled, public>>

\* extract_ip: an address literal; everything else is an error.
Takes(reply) == reply # Absent /\ reply.literal

\* The daemon, which configure enables or leaves out: a failure keeps the last.
Fetch(reply) ==
    /\ enabled
    /\ public' = IF Takes(reply) THEN reply ELSE public
    /\ UNCHANGED <<tables, reading, draft, calm, enabled>>

AddressingNext ==
    \/ reading = "none" /\ \E t \in Tables : Begin(t)
    \/ AddressStep \/ Rest
    \/ tables # Absent /\ \E i \in DOMAIN tables.links : LinkLost(tables.links[i].name)
    \/ \E reply \in Replies \cup {Absent} : Fetch(reply)

AddressingSpec == AddressingInit /\ [][AddressingNext]_addressingVars

-----------------------------------------------------------------------------
(* attribute_ips, of the network plugin.                                   *)

UpNames(t) == {t.links[i].name : i \in {j \in DOMAIN t.links : t.links[j].up}}

\* Fault form: the last of the routes that match wins.
LastMatch(t, a) ==
    LET match == {i \in DOMAIN t.routes : ~IsDefault(t.routes[i]) /\ Covers(t.routes[i], a)}
    IN {i \in match : \A j \in match : j <= i}

\* The longest prefix, of several the first.
BestMatch(t, a) ==
    LET match == {i \in DOMAIN t.routes : ~IsDefault(t.routes[i]) /\ Covers(t.routes[i], a)}
    IN {i \in match : \A j \in match :
            \/ t.routes[j].length < t.routes[i].length
            \/ t.routes[j].length = t.routes[i].length /\ i <= j}

\* By route, the loopbacks to lo, and a single one left to a single link left.
Attribution(t) ==
    LET ips == {t.links[k].address : k \in LocalIps(t)}
        byRoute == UNION {{<<t.routes[i].iface, a>> : i \in BestMatch(t, a)} : a \in ips \ Loopbacks}
        byName == IF Lo \in UpNames(t) THEN {<<Lo, a>> : a \in ips \cap Loopbacks} ELSE {}
        rest == {a \in ips \ Loopbacks : BestMatch(t, a) = {}}
        bare == {n \in UpNames(t) : \A x \in byRoute \cup byName : x[1] # n}
    IN byRoute \cup byName
       \cup (IF Cardinality(rest) = 1 /\ Cardinality(bare) = 1 THEN bare \X rest ELSE {})

Owned(t) == {<<t.links[k].name, t.links[k].address>> : k \in LocalIps(t)}

-----------------------------------------------------------------------------
(* Properties.                                                             *)

AddressingTypeOK ==
    /\ reading \in {"none", "iface", "mac", "mask", "gateway", "address", "public", "shown"}
    /\ (reading = "none") = (tables = Absent)
    /\ draft.iface = Absent => draft.mac = Absent /\ draft.mask = Absent
    /\ public = Absent \/ (enabled /\ public.literal)

\* The route of a subnet, of more than one address.
IsSubnet(r) == ~IsDefault(r) /\ r.length # Bits

\* Every field that has a value describes the interface.
Describes(d, t) ==
    /\ d.mac \in {d.iface, Absent}
    /\ d.mask # Absent =>
        \E i \in DOMAIN t.routes : t.routes[i].iface = d.iface /\ IsSubnet(t.routes[i]) /\ t.routes[i].length = d.mask
    /\ d.gateway # Absent =>
        \E i \in DOMAIN t.routes : t.routes[i].iface = d.iface /\ IsDefault(t.routes[i]) /\ t.routes[i].gateway = d.gateway
    /\ d.address # Absent => <<d.iface, d.address>> \in Owned(t)

\* The interface has a subnet, each subnet has an address of its interface, and an
\* address in any network is of that network's interface.
PlainSubnet(iface, t) ==
    /\ \E i \in DOMAIN t.routes : t.routes[i].iface = iface /\ IsSubnet(t.routes[i])
    /\ \A i \in DOMAIN t.routes : IsSubnet(t.routes[i]) =>
        \E x \in Owned(t) : x[1] = t.routes[i].iface /\ x[2] \notin Loopbacks /\ Covers(t.routes[i], x[2])
    /\ \A i \in DOMAIN t.routes, x \in Owned(t) :
        ~IsDefault(t.routes[i]) /\ Covers(t.routes[i], x[2]) => t.routes[i].iface = x[1]

\* Of default routes there is at most one, and it has a gateway.
PlainDefault(t) ==
    \A i \in DefaultRoutes(t) : t.routes[i].gateway # 0 /\ \A j \in DefaultRoutes(t) : i = j

\* Mask, gateway, hardware address and address are of the interface shown, if
\* the tables hold still, subnets are apart and one default route, which has a
\* gateway, is what there is.
OneInterface ==
    reading = "shown" /\ calm /\ PlainDefault(tables) /\ PlainSubnet(draft.iface, tables) =>
        Describes(draft, tables)

\* The interface of an address has a route to it longer than any other's.
Nearest(x, t) ==
    \E i \in DOMAIN t.routes :
        /\ t.routes[i].iface = x[1] /\ ~IsDefault(t.routes[i]) /\ Covers(t.routes[i], x[2])
        /\ \A j \in DOMAIN t.routes : Covers(t.routes[j], x[2]) /\ t.routes[j].iface # x[1] =>
            t.routes[j].length < t.routes[i].length

\* Where the loopback addresses are of the loopback and the interface of every
\* other address has the longest route to it, however the subnets of others
\* overlap, each address is given to its interface and to no other, and
\* interfaces without one stay without.
OwnersFound ==
    reading = "shown" /\ (\A x \in Owned(tables) : IF x[2] \in Loopbacks THEN x[1] = Lo ELSE Nearest(x, tables)) =>
        Attribution(tables) = {x \in Owned(tables) : x[2] \in Loopbacks => x[1] \in UpNames(tables)}
=============================================================================
