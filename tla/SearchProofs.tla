---------------------------- MODULE SearchProofs ----------------------------
(***************************************************************************)
(* What a search answers, for any tables, terms and bounds, and whichever  *)
(* of equally ranked rows DISTINCT ON keeps.  The tables change again when *)
(* the answer is sent, so the properties of an answer are inductive        *)
(* together; the work is in the one step that computes it.                 *)
(***************************************************************************)
EXTENDS Search, TLAPS

IInv == TypeOK /\ KnownMacFound /\ OneRowPerSpelling /\ CurrentIpFound

-----------------------------------------------------------------------------
(* The rows of the tables. *)

ArpRow == [node: Nodes, ip: IPs, mac: MacStrings, at: Times]
MacRow == [node: Nodes, mac: MacStrings, port: Interfaces, at: Times]

\* Rows have the types of their columns.
LEMMA RowTypes ==
  ASSUME TypeOK
  PROVE  ArpRows \in SUBSET ArpRow /\ MacRows \in SUBSET MacRow
<1>1. ASSUME NEW k \in ArpKeys, arp[k] # NoRow
      PROVE  /\ k[1] \in Nodes /\ k[2] \in IPs
             /\ arp[k].mac \in MacStrings /\ arp[k].at \in Times
  <2>1. arp[k] \in [mac: MacStrings, at: Times]
    BY <1>1 DEF TypeOK
  <2> QED BY <2>1 DEF ArpKeys
<1>2. ASSUME NEW k \in MacKeys, mac[k] # NoRow
      PROVE  /\ k[1] \in Nodes /\ k[2] \in MacStrings
             /\ mac[k].port \in Interfaces /\ mac[k].at \in Times
  <2>1. mac[k] \in [port: Interfaces, at: Times]
    BY <1>2 DEF TypeOK
  <2> QED BY <2>1 DEF MacKeys
<1>3. ArpRows \in SUBSET ArpRow
  BY <1>1 DEF ArpRows, ArpRow
<1>4. MacRows \in SUBSET MacRow
  BY <1>2 DEF MacRows, MacRow
<1> QED BY <1>3, <1>4

\* Lower case changes neither the digits nor the separators.
LEMMA LowerFacts ==
  ASSUME NEW m \in MacStrings
  PROVE  /\ Lower(m) = [hex |-> m.hex, sep |-> m.sep, case |-> "lower"]
         /\ m.sep \in {"colon", "dot"} => Lower(m) \in normalizeMac(m.hex)
<1>1. m = [hex |-> m.hex, sep |-> m.sep, case |-> m.case]
  BY SearchAssumption
<1>2. Lower(m) = [hex |-> m.hex, sep |-> m.sep, case |-> "lower"]
  BY <1>1 DEF Lower
<1> QED BY <1>2 DEF normalizeMac

-----------------------------------------------------------------------------
(* searchSQL *)

\* A row of best_mac with an address.
Row(m, ip) == [node |-> m.node, mac |-> m.mac, ip |-> ip, port |-> m.port]

\* Every row of best_mac is in the join, with each of its addresses.
LEMMA JoinKeeps ==
  ASSUME NEW best, NEW latest, NEW m \in best
  PROVE  /\ (\A a \in latest : a.mac # m.mac) => Row(m, NoIP) \in Joined(best, latest)
         /\ \A a \in latest : a.mac = m.mac => Row(m, a.ip) \in Joined(best, latest)
BY DEF Joined, Row

\* The join has no other rows.
LEMMA JoinOnly ==
  ASSUME NEW best, NEW latest, NEW r \in Joined(best, latest)
  PROVE  \E m \in best :
           \/ r = Row(m, NoIP) /\ \A a \in latest : a.mac # m.mac
           \/ \E a \in latest : a.mac = m.mac /\ r = Row(m, a.ip)
BY DEF Joined, Row

\* DISTINCT ON (mac_address) over mac_table: one row of each MAC.
LEMMA BestMacFacts ==
  ASSUME NEW best \in BestMac
  PROVE  /\ best \in SUBSET MacRows
         /\ \A r \in MacRows : \E m \in best : m.mac = r.mac
         /\ \A m, n \in best : m.mac = n.mac => m = n
BY DEF BestMac, OnePer, SameMac

\* The same over arp_table: one row of each MAC, none of them newer.
LEMMA LatestArpFacts ==
  ASSUME NEW latest \in LatestArp
  PROVE  /\ latest \in SUBSET ArpRows
         /\ \A r \in ArpRows : \E a \in latest : a.mac = r.mac /\ ~ (r.at > a.at)
         /\ \A a, b \in latest : a.mac = b.mac => a = b
<1>1. /\ latest \in SUBSET ArpRows
      /\ \A r \in ArpRows : \E a \in latest : r.mac = a.mac
      /\ \A a \in latest, r \in ArpRows : r.mac = a.mac => ~ (r.at > a.at)
      /\ \A a, b \in latest : a.mac = b.mac => a = b
  BY DEF LatestArp, OnePer, SameMac, Later
<1> QED BY <1>1

\* The newest entry of each address that is looked for.
LEMMA LatestOfFacts ==
  ASSUME NEW ips, NEW newest \in LatestOf(ips)
  PROVE  /\ newest \in SUBSET ArpRows
         /\ \A r \in ArpRows : r.ip \in ips => \E a \in newest : a.ip = r.ip /\ ~ (r.at > a.at)
<1> DEFINE S == {a \in ArpRows : a.ip \in ips}
<1>1. /\ newest \in SUBSET S
      /\ \A r \in S : \E a \in newest : r.ip = a.ip
      /\ \A a \in newest, r \in S : r.ip = a.ip => ~ (r.at > a.at)
  BY DEF LatestOf, OnePer, SameIp, Later
<1> QED BY <1>1

\* What an answer consists of.
LEMMA AnswerParts ==
  ASSUME NEW macs, NEW ips, NEW results \in Answers(macs, ips)
  PROVE  \E best \in BestMac, latest \in LatestArp, newest \in LatestOf(ips) :
           results = {r \in Joined(best, latest) : Wanted(r, macs, ips)} \cup Portless(newest)
BY DEF Answers

\* Answers are made of the columns of the tables.
LEMMA AnswerTypes ==
  ASSUME TypeOK, NEW macs, NEW ips, NEW results \in Answers(macs, ips)
  PROVE  results \in SUBSET Results
<1>1. PICK best \in BestMac, latest \in LatestArp, newest \in LatestOf(ips) :
        results = {r \in Joined(best, latest) : Wanted(r, macs, ips)} \cup Portless(newest)
  BY AnswerParts
<1>2. /\ \A m \in best : m \in MacRow
      /\ \A a \in latest : a \in ArpRow
      /\ \A a \in newest : a \in ArpRow
  BY RowTypes, BestMacFacts, LatestArpFacts, LatestOfFacts
<1>3. ASSUME NEW m \in best, NEW ip \in IPs \cup {NoIP}
      PROVE  Row(m, ip) \in Results
  <2>1. m.node \in Nodes /\ m.mac \in MacStrings /\ m.port \in Interfaces
    BY <1>2 DEF MacRow
  <2> QED BY <2>1 DEF Row, Results
<1>4. \A r \in Joined(best, latest) : r \in Results
  <2> SUFFICES ASSUME NEW r \in Joined(best, latest) PROVE r \in Results
    OBVIOUS
  <2>1. PICK m \in best : r = Row(m, NoIP) \/ \E a \in latest : r = Row(m, a.ip)
    BY JoinOnly
  <2>2. \A a \in latest : a.ip \in IPs
    BY <1>2 DEF ArpRow
  <2> QED BY <1>3, <2>1, <2>2
<1>5. \A r \in Portless(newest) : r \in Results
  BY <1>2 DEF Portless, Results, ArpRow
<1> QED BY <1>1, <1>4, <1>5

-----------------------------------------------------------------------------
(* The three properties of one answer. *)

\* An answer has a row for every learned MAC it was asked for.
LEMMA AnswerHasMac ==
  ASSUME TypeOK, NEW macs, NEW ips, NEW results \in Answers(macs, ips),
         NEW row \in MacRows, Lower(row.mac) \in macs
  PROVE  \E r \in results : r.mac = row.mac
<1>1. PICK best \in BestMac, latest \in LatestArp, newest \in LatestOf(ips) :
        results = {r \in Joined(best, latest) : Wanted(r, macs, ips)} \cup Portless(newest)
  BY AnswerParts
<1>2. PICK m \in best : m.mac = row.mac
  BY BestMacFacts
<1>3. \E ip : Row(m, ip) \in Joined(best, latest)
  BY JoinKeeps
<1>4. PICK ip : Row(m, ip) \in Joined(best, latest)
  BY <1>3
<1>5. Row(m, ip).mac = row.mac
  BY <1>2 DEF Row
<1>6. Wanted(Row(m, ip), macs, ips)
  BY <1>5 DEF Wanted
<1> QED BY <1>1, <1>4, <1>5, <1>6

\* Two rows of one MAC, one of them with a port, are spelled differently.
LEMMA AnswerOncePerSpelling ==
  ASSUME TypeOK, NEW macs, NEW ips, NEW results \in Answers(macs, ips),
         NEW r \in results, NEW s \in results, r.port # NoPort, s # r
  PROVE  /\ {r.mac, s.mac} \subseteq Spellings /\ s.mac # r.mac
         /\ s.port = NoPort => Lower(s.mac) # Lower(r.mac)
<1>1. PICK best \in BestMac, latest \in LatestArp, newest \in LatestOf(ips) :
        results = {x \in Joined(best, latest) : Wanted(x, macs, ips)} \cup Portless(newest)
  BY AnswerParts
<1>2. \A x \in Portless(newest) :
        /\ x.port = NoPort /\ x.mac \in Spellings
        /\ \A m \in MacRows : Lower(m.mac) # Lower(x.mac)
  BY LatestOfFacts DEF Portless, Spellings
<1>3. ASSUME NEW x \in Joined(best, latest)
      PROVE  \E m \in best : /\ x.mac = m.mac /\ x.port = m.port
                             /\ \/ x = Row(m, NoIP) /\ \A a \in latest : a.mac # m.mac
                                \/ \E a \in latest : a.mac = m.mac /\ x = Row(m, a.ip)
  <2>1. PICK m \in best :
           \/ x = Row(m, NoIP) /\ \A a \in latest : a.mac # m.mac
           \/ \E a \in latest : a.mac = m.mac /\ x = Row(m, a.ip)
    BY JoinOnly
  <2>2. x.mac = m.mac /\ x.port = m.port
    BY <2>1 DEF Row
  <2> QED BY <2>1, <2>2
<1>4. PICK m \in best : /\ r.mac = m.mac /\ r.port = m.port
                        /\ \/ r = Row(m, NoIP) /\ \A a \in latest : a.mac # m.mac
                           \/ \E a \in latest : a.mac = m.mac /\ r = Row(m, a.ip)
  BY <1>1, <1>2, <1>3
<1>5. m \in MacRows /\ r.mac \in Spellings
  BY <1>4, BestMacFacts DEF Spellings
<1>6. CASE s \in Portless(newest)
  BY <1>2, <1>4, <1>5, <1>6
<1>7. CASE s \in Joined(best, latest)
  <2>1. PICK n \in best : /\ s.mac = n.mac /\ s.port = n.port
                          /\ \/ s = Row(n, NoIP) /\ \A a \in latest : a.mac # n.mac
                             \/ \E a \in latest : a.mac = n.mac /\ s = Row(n, a.ip)
    BY <1>3, <1>7
  <2>2. n \in MacRows /\ s.mac \in Spellings
    BY <2>1, BestMacFacts DEF Spellings
  <2>3. s.port # NoPort
    <3>1. n \in MacRow
      BY <2>2, RowTypes
    <3>2. n.port \in Interfaces
      BY <3>1 DEF MacRow
    <3> QED BY <2>1, <3>2, SearchAssumption
  <2>4. ASSUME s.mac = r.mac
        PROVE  FALSE
    <3>0. n.mac = m.mac /\ \A x, y \in best : x.mac = y.mac => x = y
      BY <1>4, <2>1, <2>4, BestMacFacts
    <3>1. n = m
      BY <3>0
    <3>2. \A a, b \in latest : a.mac = b.mac => a = b
      BY LatestArpFacts
    <3>3. s = r
      BY <1>4, <2>1, <3>1, <3>2
    <3> QED BY <3>3
  <2> QED BY <1>5, <2>2, <2>3, <2>4
<1> QED BY <1>1, <1>6, <1>7

\* An answer has a row with the address of an entry that is newer than every
\* other entry of its MAC and of its address, unless mac_table has that MAC in
\* another case only.
LEMMA AnswerHasIp ==
  ASSUME TypeOK, NEW macs, NEW ips, NEW results \in Answers(macs, ips),
         NEW a \in ArpRows, a.ip \in ips, ~ OnlyInOtherCase(a.mac),
         \A b \in ArpRows \ {a} : b.mac = a.mac \/ b.ip = a.ip => ~ (b.at >= a.at)
  PROVE  \E r \in results : r.ip = a.ip
<1>1. PICK best \in BestMac, latest \in LatestArp, newest \in LatestOf(ips) :
        results = {x \in Joined(best, latest) : Wanted(x, macs, ips)} \cup Portless(newest)
  BY AnswerParts
<1>2. \A x \in ArpRows : x.at \in Int /\ x.mac \in MacStrings
  <2>1. \A x \in ArpRows : x \in ArpRow
    BY RowTypes
  <2> QED BY <2>1, SearchAssumption DEF ArpRow, Times
<1>3. a \in newest
  <2>1. PICK x \in newest : x.ip = a.ip /\ ~ (a.at > x.at)
    BY LatestOfFacts
  <2>2. x \in ArpRows
    BY LatestOfFacts
  <2> QED BY <1>2, <2>1, <2>2
<1>4. a \in latest
  <2>1. PICK x \in latest : x.mac = a.mac /\ ~ (a.at > x.at)
    BY LatestArpFacts
  <2>2. x \in ArpRows
    BY LatestArpFacts
  <2> QED BY <1>2, <2>1, <2>2
<1>5. CASE \A m \in MacRows : Lower(m.mac) # Lower(a.mac)
  <2>1. [node |-> a.node, mac |-> a.mac, ip |-> a.ip, port |-> NoPort] \in Portless(newest)
    BY <1>3, <1>5 DEF Portless
  <2> QED BY <1>1, <2>1
<1>6. CASE \E m \in MacRows : Lower(m.mac) = Lower(a.mac)
  <2>1. PICK m \in MacRows : m.mac = a.mac
    BY <1>6 DEF OnlyInOtherCase
  <2>2. PICK n \in best : n.mac = m.mac
    BY BestMacFacts
  <2>3. Row(n, a.ip) \in Joined(best, latest)
    BY <1>4, <2>1, <2>2, JoinKeeps
  <2>4. Row(n, a.ip).ip = a.ip
    BY DEF Row
  <2>5. Wanted(Row(n, a.ip), macs, ips)
    BY <2>4 DEF Wanted
  <2> QED BY <1>1, <2>3, <2>4, <2>5
<1> QED BY <1>5, <1>6

-----------------------------------------------------------------------------
(* Steps. *)

\* The handler answers with rows that are as the three properties say.
LEMMA HandlerStep ==
  ASSUME IInv, NEW terms \in SUBSET Terms,
         NEW dns \in [OfKind(terms, {"hostname"}) -> SUBSET IPs], Handler(terms, dns)
  PROVE  IInv'
<1> DEFINE known == OfKind(terms, {"mac", "ip", "hostname"})
           macs == UNION {lookFor(t, dns) : t \in OfKind(terms, {"mac"})}
           ips == UNION {lookFor(t, dns) : t \in OfKind(terms, {"ip", "hostname"})}
<1>0. TypeOK
  BY DEF IInv
<1>1. PICK results \in (IF macs = {} /\ ips = {} THEN {{}} ELSE Answers(macs, ips)) :
        resp' = [terms |-> terms, results |-> results,
                 notFound |-> {t \in known : ~ Matched(t, dns, results)}]
  BY DEF Handler
<1>2. UNCHANGED <<arp, mac>>
  BY DEF Handler
<1>3. /\ resp'.terms = terms /\ resp'.results = results
      /\ resp'.notFound = {t \in known : ~ Matched(t, dns, results)}
  BY <1>1
<1>4. ArpRows' = ArpRows /\ MacRows' = MacRows
  BY <1>2 DEF ArpRows, MacRows
<1>5. ASSUME NEW x, x \in macs \/ x \in ips
      PROVE  results \in Answers(macs, ips)
  BY <1>1, <1>5
<1>6. results = {} \/ results \in Answers(macs, ips)
  BY <1>1
<1>m. ASSUME NEW t \in terms, t.kind = "mac"
      PROVE  lookFor(t, dns) = normalizeMac(t.arg) /\ \A x \in lookFor(t, dns) : x \in macs
  <2>1. t \in OfKind(terms, {"mac"})
    BY <1>m DEF OfKind
  <2> QED BY <1>m, <2>1 DEF lookFor
<1>p. ASSUME NEW t \in terms, t.kind = "ip"
      PROVE  lookFor(t, dns) = {t.arg} /\ \A x \in lookFor(t, dns) : x \in ips
  <2>1. t \in OfKind(terms, {"ip", "hostname"})
    BY <1>p DEF OfKind
  <2> QED BY <1>p, <2>1 DEF lookFor
<1> HIDE DEF macs, ips
<1>7. TypeOK'
  <2>1. resp'.notFound \subseteq resp'.terms /\ resp'.terms \subseteq Terms
    BY <1>3 DEF OfKind
  <2>2. resp'.results \subseteq Results
    BY <1>0, <1>3, <1>6, AnswerTypes
  <2> QED BY <1>0, <1>2, <2>1, <2>2 DEF TypeOK
<1>8. KnownMacFound'
  <2> SUFFICES ASSUME NEW t \in OfKind(resp'.notFound, {"mac"}), NEW m \in MacRows,
                      m.mac.hex = t.arg, m.mac.sep \in {"colon", "dot"}
               PROVE  FALSE
    BY <1>4 DEF KnownMacFound, OfKind
  <2>1. t \in terms /\ t.kind = "mac" /\ ~ Matched(t, dns, results)
    BY <1>3 DEF OfKind
  <2>2. m.mac \in MacStrings
    <3>1. m \in MacRow
      BY <1>0, RowTypes
    <3> QED BY <3>1 DEF MacRow
  <2>3. Lower(m.mac) \in lookFor(t, dns) /\ Lower(m.mac) \in macs
    BY <1>m, <2>1, <2>2, LowerFacts
  <2>4. PICK r \in results : r.mac = m.mac
    BY <1>0, <1>5, <2>3, AnswerHasMac
  <2> QED BY <2>1, <2>3, <2>4 DEF Matched
<1>9. OneRowPerSpelling'
  <2> SUFFICES ASSUME NEW r \in results, NEW s \in results, r.port # NoPort, s # r
               PROVE  /\ {r.mac, s.mac} \subseteq Spellings /\ s.mac # r.mac
                      /\ s.port = NoPort => Lower(s.mac) # Lower(r.mac)
    BY <1>3, <1>4 DEF OneRowPerSpelling, Lower, Spellings
  <2> QED BY <1>0, <1>6, AnswerOncePerSpelling
<1>10. CurrentIpFound'
  <2> SUFFICES ASSUME NEW t \in OfKind(resp'.notFound, {"ip"}),
                      NEW a \in ArpRows, a.ip = t.arg, ~ OnlyInOtherCase(a.mac),
                      \A b \in ArpRows \ {a} : b.mac = a.mac \/ b.ip = a.ip => ~ (b.at >= a.at)
               PROVE  FALSE
    BY <1>4 DEF CurrentIpFound, OnlyInOtherCase, Lower, OfKind
  <2>1. t \in terms /\ t.kind = "ip" /\ ~ Matched(t, dns, results)
    BY <1>3 DEF OfKind
  <2>2. a.ip \in lookFor(t, dns) /\ a.ip \in ips
    BY <1>p, <2>1
  <2>3. PICK r \in results : r.ip = a.ip
    BY <1>0, <1>5, <2>2, AnswerHasIp
  <2> QED BY <2>1, <2>2, <2>3 DEF Matched
<1> QED BY <1>7, <1>8, <1>9, <1>10 DEF IInv

\* Without an answer there is nothing to say but the types of the tables.
LEMMA WriteStep ==
  ASSUME resp' = NoResponse,
         arp' \in [ArpKeys -> [mac: MacStrings, at: Times] \cup {NoRow}],
         mac' \in [MacKeys -> [port: Interfaces, at: Times] \cup {NoRow}]
  PROVE  IInv'
BY DEF IInv, TypeOK, KnownMacFound, OneRowPerSpelling, CurrentIpFound, Answered

\* Every step keeps the invariant.
LEMMA Inductive == IInv /\ [Next]_vars => IInv'
<1> SUFFICES ASSUME IInv, [Next]_vars PROVE IInv'
  OBVIOUS
<1>0. /\ arp \in [ArpKeys -> [mac: MacStrings, at: Times] \cup {NoRow}]
      /\ mac \in [MacKeys -> [port: Interfaces, at: Times] \cup {NoRow}]
  BY DEF IInv, TypeOK
<1>1. ASSUME NEW k \in ArpKeys, NEW m \in MacStrings, NEW at \in Times, resp = NoResponse,
             WriteArp(k, m, at)
      PROVE  IInv'
  <2>1. arp' \in [ArpKeys -> [mac: MacStrings, at: Times] \cup {NoRow}]
    BY <1>0, <1>1 DEF WriteArp
  <2> QED BY <1>0, <1>1, <2>1, WriteStep DEF WriteArp
<1>2. ASSUME NEW k \in MacKeys, NEW port \in Interfaces, NEW at \in Times,
             resp = NoResponse, WriteMac(k, port, at)
      PROVE  IInv'
  <2>1. mac' \in [MacKeys -> [port: Interfaces, at: Times] \cup {NoRow}]
    BY <1>0, <1>2 DEF WriteMac
  <2> QED BY <1>0, <1>2, <2>1, WriteStep DEF WriteMac
<1>3. ASSUME NEW cutoff \in 1..(MaxTime + 1), resp = NoResponse, Cleanup(cutoff)
      PROVE  IInv'
  <2>1. /\ arp' \in [ArpKeys -> [mac: MacStrings, at: Times] \cup {NoRow}]
        /\ mac' \in [MacKeys -> [port: Interfaces, at: Times] \cup {NoRow}]
    BY <1>0, <1>3 DEF Cleanup
  <2> QED BY <1>3, <2>1, WriteStep DEF Cleanup
<1>4. ASSUME NEW terms \in SUBSET Terms,
             NEW dns \in [OfKind(terms, {"hostname"}) -> SUBSET IPs], Handler(terms, dns)
      PROVE  IInv'
  BY <1>4, HandlerStep
<1>5. CASE Respond
  BY <1>0, <1>5, WriteStep DEF Respond
<1>6. CASE UNCHANGED vars
  <2>1. UNCHANGED <<arp, mac, resp>> /\ ArpRows' = ArpRows /\ MacRows' = MacRows
    BY <1>6 DEF vars, ArpRows, MacRows
  <2>2. TypeOK' /\ KnownMacFound'
    BY <2>1 DEF IInv, TypeOK, KnownMacFound, Answered, OfKind
  <2>3. OneRowPerSpelling'
    BY <2>1 DEF IInv, OneRowPerSpelling, Answered, Lower, Spellings
  <2>4. CurrentIpFound'
    BY <2>1, ZenonT(60) DEF IInv, CurrentIpFound, Answered, OnlyInOtherCase, Lower, OfKind
  <2> QED BY <2>2, <2>3, <2>4 DEF IInv
<1> QED BY <1>1, <1>2, <1>3, <1>4, <1>5, <1>6 DEF Next

\* The invariant holds in every state.
THEOREM Invariant == Spec => []IInv
<1>1. Init => IInv
  <2> SUFFICES ASSUME Init PROVE IInv
    OBVIOUS
  <2>1. TypeOK
    BY DEF Init, TypeOK
  <2> QED BY <2>1 DEF Init, IInv, KnownMacFound, OneRowPerSpelling, CurrentIpFound, Answered
<1> QED BY <1>1, Inductive, PTL DEF Spec

\* The tables and the answers of the search handler keep their types: no row of
\* an answer has columns the tables do not have.
THEOREM TypeCorrect == Spec => []TypeOK
<1>1. IInv => TypeOK
  BY DEF IInv
<1> QED BY <1>1, Invariant, PTL

\* A learned MAC address is found in either notation that is looked for and in
\* any case, whichever rows DISTINCT ON keeps.
THEOREM LearnedMacsAreFound == Spec => []KnownMacFound
<1>1. IInv => KnownMacFound
  BY DEF IInv
<1> QED BY <1>1, Invariant, PTL

\* Duplicate entries of a MAC never lead to a second row for it: a second row
\* is one of another spelling that the tables have.
THEOREM ShownOncePerSpelling == Spec => []OneRowPerSpelling
<1>1. IInv => OneRowPerSpelling
  BY DEF IInv
<1> QED BY <1>1, Invariant, PTL

\* The present address of a host is found, with or without a port, unless
\* mac_table spells its MAC address in another case only.
THEOREM PresentAddressesAreFound == Spec => []CurrentIpFound
<1>1. IInv => CurrentIpFound
  BY DEF IInv
<1> QED BY <1>1, Invariant, PTL
=============================================================================
