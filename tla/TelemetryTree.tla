--------------------------- MODULE TelemetryTree ---------------------------
(***************************************************************************)
(* The parsers of collector/main.go: from a decoded Telemetry message, a   *)
(* tree of TelemetryFields, to the Kafka messages dispatch sends for it,   *)
(* in the order in which it sends them.                                    *)
(*                                                                         *)
(* A field is [name, pfx, has, str, num, kids]: its local name, whether a  *)
(* YANG module prefix stands before it, whether it carries a value, and    *)
(* what GetStringValue, GetUint32Value and Fields return.  A value that    *)
(* may be missing (nil) is a sequence of at most one element.  An          *)
(* interface name is the pair of its letters and the rest of it, and a     *)
(* subnet mask the sequence of its octets.                                 *)
(***************************************************************************)
EXTENDS Integers, Sequences, SequencesExt

CONSTANT MaxNodes       \* bound: fields in one message
ASSUME MaxNodesAssumption == MaxNodes \in Nat

Nil == <<>>
Raw(f) == IF f.pfx THEN "module:" \o f.name ELSE f.name     \* f.Name
Is(f, name) == Raw(f) = name

-----------------------------------------------------------------------------
(* Tree access. *)

\* Mutant: names are compared with their YANG prefix.
Child_prefixed(fields, name) ==
  LET hits == SelectSeq(fields, LAMBDA f : Is(f, name))
  IN  IF hits = <<>> THEN Nil ELSE <<Head(hits)>>

\* The first field of that name, a YANG prefix stripped.
Child(fields, name) ==
  LET hits == SelectSeq(fields, LAMBDA f : f.name = name)
  IN  IF hits = <<>> THEN Nil ELSE <<Head(hits)>>

findNestedField(fields, path) ==
  FoldLeft(LAMBDA match, name : IF match = Nil THEN Nil ELSE Child(match[1].kids, name),
           <<[kids |-> fields]>>, path)

Str(match) == [i \in DOMAIN match |-> match[i].str]
Num(match) == [i \in DOMAIN match |-> match[i].num]

\* A captured pointer: the field's value, or what was captured before.
OrKeep(new, old) == IF new = Nil THEN old ELSE new

\* net.IPMask.Size: the ones of a contiguous mask; 0 for any other, and for
\* a string that is no address.
maskToPrefixLen(mask) ==
  LET Ones(n, i) == IF n >= 8 * i THEN 8 ELSE IF n <= 8 * (i - 1) THEN 0 ELSE n - 8 * (i - 1)
      MaskOf(n) == [i \in 1..4 |-> 256 - 2 ^ (8 - Ones(n, i))]
  IN  IF \E n \in 0..32 : mask = MaskOf(n) THEN CHOOSE n \in 0..32 : mask = MaskOf(n) ELSE 0

Abbrev == [Gi |-> "GigabitEthernet", Fi |-> "FiveGigabitEthernet", Te |-> "TenGigabitEthernet",
           Fa |-> "FastEthernet", Hu |-> "HundredGigE", Twe |-> "TwentyFiveGigE",
           Fo |-> "FortyGigabitEthernet", Po |-> "Port-channel", Lo |-> "Loopback",
           Vl |-> "Vlan", Tu |-> "Tunnel"]

\* Mutant: the abbreviation of the device is kept.
expandIfName_not(name) == name

\* A known abbreviation with a digit behind it is spelled out.
expandIfName(name) ==
  IF name[1] \in DOMAIN Abbrev /\ name[2] # "" THEN <<Abbrev[name[1]], name[2]>> ELSE name

-----------------------------------------------------------------------------
(* MAC and ARP tables: one message with an entry per row. *)

\* The leaves of a row, one level deep inside "keys" and "content" or not.
Leaves(row) ==
  FlattenSeq([i \in DOMAIN row |-> IF row[i].kids # <<>> THEN row[i].kids ELSE <<row[i]>>])

applyMAC(entry, f) ==
  CASE Is(f, "mac") \/ Is(f, "mac-address")          -> [entry EXCEPT !.mac = f.str]
    [] Is(f, "port") \/ Is(f, "interface")           -> [entry EXCEPT !.interface = expandIfName(f.str)]
    [] Is(f, "vlan-id-number") \/ Is(f, "vlan-id")   -> [entry EXCEPT !.vlan = f.num]
    [] Is(f, "mat-addr-type") \/ Is(f, "mac-type")   -> [entry EXCEPT !.type = f.str]
    [] OTHER                                         -> entry

applyARP(entry, f) ==
  CASE Is(f, "address")      -> [entry EXCEPT !.ip = f.str]
    [] Is(f, "hardware")     -> [entry EXCEPT !.mac = f.str]
    [] Is(f, "interface")    -> [entry EXCEPT !.interface = expandIfName(f.str)]
    [] Is(f, "time-to-live") -> [entry EXCEPT !.age = f.num]
    [] OTHER                 -> entry

MacEntry(row) ==
  FoldLeft(applyMAC, [mac |-> "", interface |-> <<"", "">>, vlan |-> 0, type |-> ""], Leaves(row))

ArpEntry(row) ==
  FoldLeft(applyARP, [ip |-> "", mac |-> "", interface |-> <<"", "">>, age |-> 0], Leaves(row))

\* One message, keyed by the node, unless there is nothing to say.
Batch(topic, t, entries) ==
  IF entries = <<>> THEN <<>>
  ELSE <<[topic |-> topic, key |-> <<t.node>>, ts |-> t.ts, entries |-> entries]>>

publishMAC(t) ==
  Batch("mac-table", t, SelectSeq([i \in DOMAIN t.rows |-> MacEntry(t.rows[i])],
                                  LAMBDA e : e.mac # ""))

publishARP(t) ==
  Batch("arp-table", t, SelectSeq([i \in DOMAIN t.rows |-> ArpEntry(t.rows[i])],
                                  LAMBDA e : e.ip # ""))

-----------------------------------------------------------------------------
(* Interface configuration: one message per interface. *)

isIfaceNode(f) == \E i \in DOMAIN f.kids : f.kids[i].name = "name" /\ f.kids[i].has

\* Mutant: the chain links of an interface node are not followed.
WalkStep_flat(w) ==
  IF w.stack = <<>> THEN w
  ELSE LET f == Last(w.stack) IN
       IF isIfaceNode(f) THEN [stack |-> Front(w.stack), result |-> Append(w.result, f)]
       ELSE [w EXCEPT !.stack = Front(@) \o f.kids]

\* One turn of the stack walk: below an interface node only the chain links
\* are followed, below any other node everything.
WalkStep(w) ==
  IF w.stack = <<>> THEN w
  ELSE LET f == Last(w.stack) IN
       IF isIfaceNode(f)
       THEN [stack |-> Front(w.stack) \o SelectSeq(f.kids, isIfaceNode),
             result |-> Append(w.result, f)]
       ELSE [w EXCEPT !.stack = Front(@) \o f.kids]

collectInterfaces(root) ==
  LET walk[n \in 0..MaxNodes] ==
        IF n = 0 THEN [stack |-> root.kids, result |-> <<>>] ELSE WalkStep(walk[n - 1])
  IN  walk[MaxNodes].result

\* uint16(v.GetUint32Value()) of the VLAN node at path.
VlanAt(fields, path) ==
  LET v == Num(findNestedField(fields, path)) IN [i \in DOMAIN v |-> v[i] % 65536]

\* The bare container supplies what switchport-config did not.
Fallback(old, new) == OrKeep(old, new)

\* The switch over f.Name, for a child of the interface node of type ifType.
ApplyIf(ifType, entry, f) ==
  CASE Is(f, "name") ->
         [entry EXCEPT !.name = <<ifType, IF f.str # "" THEN f.str ELSE ToString(f.num)>>]
    [] Is(f, "description") -> [entry EXCEPT !.description = <<f.str>>]
    [] Is(f, "mtu") -> [entry EXCEPT !.mtu = f.num]
    [] Is(f, "shutdown") -> [entry EXCEPT !.shutdown = TRUE]
    [] Is(f, "vrf") ->
         LET fw == findNestedField(f.kids, <<"forwarding">>)
         IN  IF fw = Nil THEN entry ELSE [entry EXCEPT !.vrf = fw[1].str]
    [] Is(f, "ip") ->
         LET addr == findNestedField(f.kids, <<"address", "primary", "address">>)
             mask == Str(findNestedField(f.kids, <<"address", "primary", "mask">>))
         IN  [entry EXCEPT !.ip = OrKeep(Str(addr), @),
                           !.prefixLen = OrKeep([i \in DOMAIN mask |-> maskToPrefixLen(mask[i])], @)]
    [] Is(f, "switchport-config") ->
         [entry EXCEPT !.voice = OrKeep(VlanAt(f.kids, <<"switchport", "voice", "vlan", "vlan">>), @),
                       !.access = OrKeep(VlanAt(f.kids, <<"switchport", "access", "vlan", "vlan">>), @)]
    [] Is(f, "switchport") ->
         [entry EXCEPT !.voice = Fallback(@, VlanAt(f.kids, <<"voice", "vlan", "vlan">>)),
                       !.access = Fallback(@, VlanAt(f.kids, <<"access", "vlan", "vlan">>))]
    [] OTHER -> entry

\* An IfEntry, its own data leaves applied in order.
IfEntry(iface) ==
  FoldLeft(LAMBDA entry, f : ApplyIf(Raw(iface), entry, f),
           [name |-> Nil, description |-> Nil, shutdown |-> FALSE, ip |-> Nil, prefixLen |-> Nil,
            vrf |-> "", mtu |-> 0, access |-> Nil, voice |-> Nil],
           SelectSeq(iface.kids, LAMBDA f : ~isIfaceNode(f)))

\* json.Marshal: vrf and mtu have omitempty.
Marshalled(e) ==
  [e EXCEPT !.vrf = IF @ = "" THEN Nil ELSE <<@>>, !.mtu = IF @ = 0 THEN Nil ELSE <<@>>]

\* publish of one entry under the key node/name or node/id.
Single(topic, t, id, entry) ==
  [topic |-> topic, key |-> <<t.node, id>>, ts |-> t.ts, entries |-> <<entry>>]

\* The named interfaces of a row's content field.
RowInterfaces(row) ==
  LET content == SelectSeq(row, LAMBDA f : Is(f, "content"))
      entries == [i \in DOMAIN collectInterfaces(content[1]) |->
                    IfEntry(collectInterfaces(content[1])[i])]
  IN  IF content = <<>> THEN <<>> ELSE SelectSeq(entries, LAMBDA e : e.name # Nil)

publishInterface(t) ==
  LET entries == FlattenSeq([i \in DOMAIN t.rows |-> RowInterfaces(t.rows[i])])
  IN  [i \in DOMAIN entries |->
         Single("interface-table", t, entries[i].name, Marshalled(entries[i]))]

-----------------------------------------------------------------------------
(* VLANs: one message per VLAN. *)

\* openconfig nests the name in content/state; an explicit empty one stands.
VlanName(old, kids) ==
  OrKeep(OrKeep(Str(findNestedField(kids, <<"name">>)), old),
         Str(findNestedField(kids, <<"state", "name">>)))

VlanStatus(old, kids) ==
  LET status == OrKeep(Str(findNestedField(kids, <<"status">>)), <<old>>)
  IN  IF status[1] # "" THEN status[1]
      ELSE OrKeep(Str(findNestedField(kids, <<"state", "status">>)), status)[1]

\* Cisco-IOS-XE-vlan-oper says "id", openconfig-vlan "vlan-id".
VlanId(old, kids) ==
  OrKeep(OrKeep(Num(findNestedField(kids, <<"id">>)), Num(findNestedField(kids, <<"vlan-id">>))),
         <<old>>)[1]

VlanEntry(row) ==
  FoldLeft(LAMBDA entry, c :
             CASE Is(c, "keys") -> [entry EXCEPT !.id = VlanId(@, c.kids)]
               [] Is(c, "content") -> [entry EXCEPT !.name = VlanName(@, c.kids),
                                                    !.status = VlanStatus(@, c.kids)]
               [] OTHER -> entry,
           [id |-> 0, name |-> Nil, status |-> ""], row)

publishVlan(t) ==
  LET entries == SelectSeq([i \in DOMAIN t.rows |-> VlanEntry(t.rows[i])], LAMBDA e : e.id # 0)
  IN  [i \in DOMAIN entries |-> Single("vlan-table", t, <<ToString(entries[i].id)>>,
         [entries[i] EXCEPT !.status = IF @ = "" THEN Nil ELSE <<@>>])]

-----------------------------------------------------------------------------
\* isMAC, isARP, isInterface, isVlan: the encoding paths that are handled.
PathsOf ==
  [mac |-> {"Cisco-IOS-XE-matm-oper:matm-oper-data/matm-table/matm-mac-entry"},
   arp |-> {"Cisco-IOS-XE-arp-oper:arp-data/arp-vrf/arp-entry",
            "arp-ios-xe-oper:arp-data/arp-vrf/arp-entry"},
   interface |-> {"Cisco-IOS-XE-native:native/interface"},
   vlan |-> {"openconfig-vlan:vlans/vlan", "Cisco-IOS-XE-vlan-oper:vlans/vlan"}]

\* The messages of a push, in the order they are sent.
dispatch(t) ==
  CASE t.path \in PathsOf.mac -> publishMAC(t)
    [] t.path \in PathsOf.arp -> publishARP(t)
    [] t.path \in PathsOf.interface -> publishInterface(t)
    [] t.path \in PathsOf.vlan -> publishVlan(t)
    [] OTHER -> <<>>
=============================================================================
