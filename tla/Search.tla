------------------------------- MODULE Search -------------------------------
(***************************************************************************)
(* POST /api/search: the handler of webapp/internal/search/handler.go and  *)
(* searchSQL of search/sql.go, on mac_table and arp_table as the consumer  *)
(* fills them.  The left joins with interface_table and vlan_table are on  *)
(* unique keys: they add columns, never rows, and are left out.            *)
(***************************************************************************)
EXTENDS Integers, FiniteSets

CONSTANTS
  Nodes, IPs,
  MacStrings,   \* stored spellings of MAC addresses: [hex, sep, case]
  Rank,         \* Rank[i]: the CASE of best_mac; DOMAIN Rank are interfaces
  Terms,        \* search terms: [kind, arg]
  MaxTime,      \* bound: collected_at
  MaxRows,      \* bound: rows in the two tables
  NoRow, NoResponse, NoIP, NoPort

Times == 0..MaxTime
Interfaces == DOMAIN Rank

\* The digits of a MAC address in groups, or bare; a device may write any.
Seps == {"colon", "dot", "hyphen", "bare"}
Cases == {"lower", "upper", "mixed"}

ASSUME SearchAssumption ==
  /\ MaxTime \in Nat /\ MaxRows \in Nat
  /\ \A m \in MacStrings : /\ m = [hex |-> m.hex, sep |-> m.sep, case |-> m.case]
                            /\ m.sep \in Seps /\ m.case \in Cases
  /\ NoPort \notin Interfaces
  /\ \A t \in Terms : /\ t.kind \in {"mac", "ip", "hostname", "other"}
                      /\ t.kind = "ip" => t.arg \in IPs

VARIABLES
  arp,          \* arp_table, by (node_id, ip_address)
  mac,          \* mac_table, by (node_id, mac_address)
  resp          \* the answer to a search of the present tables

vars == <<arp, mac, resp>>

ArpKeys == Nodes \X IPs
MacKeys == Nodes \X MacStrings
Results == [node: Nodes, mac: MacStrings, ip: IPs \cup {NoIP}, port: Interfaces \cup {NoPort}]

TypeOK ==
  /\ arp \in [ArpKeys -> [mac: MacStrings, at: Times] \cup {NoRow}]
  /\ mac \in [MacKeys -> [port: Interfaces, at: Times] \cup {NoRow}]
  /\ \/ resp = NoResponse
     \/ /\ resp.terms \subseteq Terms /\ resp.notFound \subseteq resp.terms
        /\ resp.results \subseteq Results

Init ==
  /\ arp = [k \in ArpKeys |-> NoRow]
  /\ mac = [k \in MacKeys |-> NoRow]
  /\ resp = NoResponse

ArpRows == {[node |-> k[1], ip |-> k[2], mac |-> arp[k].mac, at |-> arp[k].at] :
              k \in {j \in ArpKeys : arp[j] # NoRow}}

MacRows == {[node |-> k[1], mac |-> k[2], port |-> mac[k].port, at |-> mac[k].at] :
              k \in {j \in MacKeys : mac[j] # NoRow}}

-----------------------------------------------------------------------------
(* The tables.  A search reads them in one statement and nothing after it   *)
(* depends on them, so they change again when it has been answered.        *)

RoomFor(old) == old # NoRow \/ Cardinality(ArpRows) + Cardinality(MacRows) < MaxRows

WriteArp(k, m, at) ==
  /\ RoomFor(arp[k])
  /\ arp' = [arp EXCEPT ![k] = [mac |-> m, at |-> at]]
  /\ UNCHANGED <<mac, resp>>

WriteMac(k, port, at) ==
  /\ RoomFor(mac[k])
  /\ mac' = [mac EXCEPT ![k] = [port |-> port, at |-> at]]
  /\ UNCHANGED <<arp, resp>>

\* startCleanup of the two tables, one statement each.
Cleanup(cutoff) ==
  /\ \/ /\ arp' = [k \in ArpKeys |-> IF arp[k] # NoRow /\ arp[k].at < cutoff THEN NoRow ELSE arp[k]]
        /\ UNCHANGED mac
     \/ /\ mac' = [k \in MacKeys |-> IF mac[k] # NoRow /\ mac[k].at < cutoff THEN NoRow ELSE mac[k]]
        /\ UNCHANGED arp
  /\ UNCHANGED resp

-----------------------------------------------------------------------------
(* searchSQL.  DISTINCT ON keeps any one of equally ranked rows, so what it *)
(* may return is a set of tables.                                          *)

\* lower(mac_address): the separators stay.
Lower(m) == [m EXCEPT !.case = "lower"]

OnePer(S, T, Same(_, _), Before(_, _)) ==
  /\ \A r \in S : \E t \in T : Same(r, t)
  /\ \A t \in T, r \in S : Same(r, t) => ~ Before(r, t)
  /\ \A t, u \in T : Same(t, u) => t = u

SameMac(r, t) == r.mac = t.mac
SameIp(r, t) == r.ip = t.ip
Later(r, t) == r.at > t.at
Preferred(r, t) == Rank[r.port] < Rank[t.port] \/ (Rank[r.port] = Rank[t.port] /\ r.at > t.at)

\* Mutant: latest_arp is the whole arp_table.
LatestArp_all == {ArpRows}

\* WITH latest_arp: DISTINCT ON (mac_address) ... collected_at DESC.
LatestArp == {T \in SUBSET ArpRows : OnePer(ArpRows, T, SameMac, Later)}

\* best_mac: the access port before logical interfaces, then the newest.
BestMac == {T \in SUBSET MacRows : OnePer(MacRows, T, SameMac, Preferred)}

\* Mutant: a full join; m.node_id is null where a latest_arp row has no partner.
Joined_full(best, latest) ==
  UNION {LET as == {a \in latest : a.mac = m.mac}
             row(ip) == [node |-> m.node, mac |-> m.mac, ip |-> ip, port |-> m.port]
         IN  IF as = {} THEN {row(NoIP)} ELSE {row(a.ip) : a \in as} : m \in best}
  \cup {[node |-> NoRow, mac |-> a.mac, ip |-> a.ip, port |-> NoPort] :
          a \in {b \in latest : \A m \in best : m.mac # b.mac}}

\* FROM best_mac LEFT JOIN latest_arp.
Joined(best, latest) ==
  UNION {LET as == {a \in latest : a.mac = m.mac}
             row(ip) == [node |-> m.node, mac |-> m.mac, ip |-> ip, port |-> m.port]
         IN  IF as = {} THEN {row(NoIP)} ELSE {row(a.ip) : a \in as} : m \in best}

\* Mutant: the WHERE clause only looks at the MAC address.
Wanted_macOnly(r, macs, ips) == Lower(r.mac) \in macs

\* WHERE lower(m.mac_address) = ANY($1) OR a.ip_address = ANY($2).
Wanted(r, macs, ips) == Lower(r.mac) \in macs \/ r.ip \in ips

\* The second half: the newest entry of each IP, if its MAC is in no mac_table.
LatestOf(ips) ==
  LET S == {a \in ArpRows : a.ip \in ips} IN {T \in SUBSET S : OnePer(S, T, SameIp, Later)}

Portless(latest) ==
  {[node |-> a.node, mac |-> a.mac, ip |-> a.ip, port |-> NoPort] :
     a \in {b \in latest : \A m \in MacRows : Lower(m.mac) # Lower(b.mac)}}

Answers(macs, ips) ==
  {{r \in Joined(best, latest) : Wanted(r, macs, ips)} \cup Portless(newest) :
     best \in BestMac, latest \in LatestArp, newest \in LatestOf(ips)}

-----------------------------------------------------------------------------
(* Handler *)

\* Mutant: only the colon form of a MAC is looked for.
normalizeMac_colon(hex) == {[hex |-> hex, sep |-> "colon", case |-> "lower"]}

normalizeMac(hex) == {[hex |-> hex, sep |-> s, case |-> "lower"] : s \in {"colon", "dot"}}

\* What a term looks for; dns gives the addresses of each host name, none
\* when the lookup fails.
lookFor(t, dns) == CASE t.kind = "mac" -> normalizeMac(t.arg)
                     [] t.kind = "ip" -> {t.arg}
                     [] t.kind = "hostname" -> dns[t]

OfKind(terms, kinds) == {t \in terms : t.kind \in kinds}

\* foundMACs / foundIPs.
Matched(t, dns, results) ==
  IF t.kind = "mac" THEN \E r \in results : Lower(r.mac) \in lookFor(t, dns)
                    ELSE \E r \in results : r.ip \in lookFor(t, dns)

\* Terms of no kind are dropped.  A failed query is answered with an error
\* and reports nothing, so it is no step here.
Handler(terms, dns) ==
  LET known == OfKind(terms, {"mac", "ip", "hostname"})
      macs == UNION {lookFor(t, dns) : t \in OfKind(terms, {"mac"})}
      ips == UNION {lookFor(t, dns) : t \in OfKind(terms, {"ip", "hostname"})}
  IN  /\ \E results \in (IF macs = {} /\ ips = {} THEN {{}} ELSE Answers(macs, ips)) :
           resp' = [terms |-> terms, results |-> results,
                    notFound |-> {t \in known : ~ Matched(t, dns, results)}]
      /\ UNCHANGED <<arp, mac>>

\* writeResp: the answer is sent.
Respond ==
  /\ resp # NoResponse
  /\ resp' = NoResponse
  /\ UNCHANGED <<arp, mac>>

Next ==
  \/ /\ resp = NoResponse
     /\ \/ \E k \in ArpKeys, m \in MacStrings, at \in Times : WriteArp(k, m, at)
        \/ \E k \in MacKeys, port \in Interfaces, at \in Times : WriteMac(k, port, at)
        \/ \E cutoff \in 1..(MaxTime + 1) : Cleanup(cutoff)
        \/ \E terms \in SUBSET Terms : \E dns \in [OfKind(terms, {"hostname"}) -> SUBSET IPs] :
             Handler(terms, dns)
  \/ Respond

Spec == Init /\ [][Next]_vars

-----------------------------------------------------------------------------
(* Properties *)

Answered == resp # NoResponse

\* A MAC address is reported as not found only if no switch reports it with
\* colons or in Cisco's dotted form, the two that normalizeMac makes of
\* whatever was typed; the case of the letters does not matter.
KnownMacFound ==
  Answered => \A t \in OfKind(resp.notFound, {"mac"}), m \in MacRows :
    m.mac.hex = t.arg => m.mac.sep \notin {"colon", "dot"}

Spellings == {r.mac : r \in ArpRows} \cup {r.mac : r \in MacRows}

\* search/sql.go: "stale duplicates (e.g. a device that moved ports) do not
\* produce multiple result rows": if a MAC address has a row with a port, it
\* has another row only under another spelling in the tables, since DISTINCT ON
\* goes by the string; one without a port only if more than the case differs.
OneRowPerSpelling ==
  Answered => \A r, s \in resp.results :
    r.port # NoPort /\ s.mac.hex = r.mac.hex /\ s # r =>
      /\ {r.mac, s.mac} \subseteq Spellings /\ s.mac # r.mac
      /\ s.port = NoPort => Lower(s.mac) # Lower(r.mac)

\* mac_table has this MAC address in another case only: the join misses it,
\* and NOT EXISTS, which compares in lower case, takes it for joined.
OnlyInOtherCase(m) ==
  /\ \E r \in MacRows : Lower(r.mac) = Lower(m)
  /\ \A r \in MacRows : r.mac # m

\* The present address of a host is found: an IP whose ARP entry is newer than
\* every other entry of its MAC address and of the IP is reported as not found
\* only if its MAC address falls between the two halves of the query.
CurrentIpFound ==
  Answered => \A t \in OfKind(resp.notFound, {"ip"}), a \in ArpRows :
    a.ip = t.arg =>
      \/ \E b \in ArpRows \ {a} : (b.mac = a.mac \/ b.ip = a.ip) /\ b.at >= a.at
      \/ OnlyInOtherCase(a.mac)
=============================================================================
