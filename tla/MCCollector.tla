---------------------------- MODULE MCCollector ----------------------------
(***************************************************************************)
(* Small instances of Collector for TLC.  A push has reports of a device   *)
(* and the layout in which its IOS-XE release serializes them; Tree is the *)
(* serializer, and MCCarried what has to reach the topics whatever the     *)
(* layout.                                                                 *)
(***************************************************************************)
EXTENDS Collector, TelemetryTree

Field(name, has, str, num, kids) ==
  [name |-> name, pfx |-> FALSE, has |-> has, str |-> str, num |-> num, kids |-> kids]
Text(name, str) == Field(name, TRUE, str, 0, <<>>)
Number(name, num) == Field(name, TRUE, "", num, <<>>)
Box(name, kids) == Field(name, FALSE, "", 0, kids)
Prefixed(f) == [f EXCEPT !.pfx = TRUE]

\* The field made of a value, if there is one.
If(opt, Make(_)) == [i \in DOMAIN opt |-> Make(opt[i])]

-----------------------------------------------------------------------------
(* Interfaces. *)

Iface(type, id, num, rest) ==
  rest @@ [type |-> type, id |-> id, num |-> num, description |-> Nil, shutdown |-> Nil,
           ip |-> Nil, mask |-> Nil, vrf |-> Nil, mtu |-> Nil, access |-> Nil, voice |-> Nil]

Gi1 == Iface("GigabitEthernet", "1/0/1", 0, [description |-> <<"x">>, access |-> <<10>>, voice |-> <<20>>])
Gi2 == Iface("GigabitEthernet", "1/0/2", 0, [description |-> <<"">>, access |-> <<0>>, mtu |-> <<9198>>])
Vl9 == Iface("Vlan", "", 9, [shutdown |-> <<TRUE>>, ip |-> <<"i">>, mask |-> <<<<255, 255, 254, 0>>>>, vrf |-> <<"blue">>])
\* A delta that removes what Gi1 may have, and says nothing of shutdown.
Gi1Less == Iface("GigabitEthernet", "1/0/1", 0,
                 [description |-> <<"">>, vrf |-> <<"">>, mtu |-> <<0>>, voice |-> <<0>>])
Vl8 == Iface("Vlan", "", 8, [ip |-> <<"">>, mask |-> <<<<>>>>])

Vlans(i) ==
  If(i.voice, LAMBDA v : Prefixed(Box("voice", <<Box("vlan", <<Number("vlan", v)>>)>>))) \o
  If(i.access, LAMBDA v : Prefixed(Box("access", <<Box("vlan", <<Number("vlan", v)>>)>>)))

\* The data of an interface: releases differ in where they put the VLANs.
Data(i, layout) ==
  <<IF i.id # "" THEN Text("name", i.id) ELSE Number("name", i.num)>> \o
  If(i.description, LAMBDA d : Text("description", d)) \o
  If(i.mtu, LAMBDA m : Number("mtu", m)) \o
  If(i.shutdown, LAMBDA x : Box("shutdown", <<>>)) \o
  If(i.vrf, LAMBDA v : Box("vrf", <<Text("forwarding", v)>>)) \o
  If(i.ip, LAMBDA a : Box("ip", <<Box("address", <<Box("primary",
       <<Text("address", a)>> \o If(i.mask, LAMBDA m : Text("mask", m)))>>)>>)) \o
  (IF layout = "boxed" THEN <<Box("switchport", Vlans(i))>>
   ELSE <<Box("switchport-config", <<Box("switchport", Vlans(i))>>)>>)

Node(i, layout, more) == Box(i.type, Data(i, layout) \o more)

\* The interfaces of one type: siblings, or each inside the one before it.
Instances(is, layout) ==
  IF layout = "chain"
  THEN FoldRight(LAMBDA i, inner : <<Node(i, layout, inner)>>, is, <<>>)
  ELSE [k \in DOMAIN is |-> Node(is[k], layout, <<>>)]

IfTree(is, layout) ==
  LET ofType(T) == Instances(SelectSeq(is, LAMBDA i : i.type = T), layout)
      all == ofType("GigabitEthernet") \o ofType("Vlan")
  IN  <<<<Box("keys", <<>>),
          Box("content", IF layout = "boxed" THEN <<Box("interface", all)>> ELSE all)>>>>

\* omitempty: the empty value is not carried.
NonEmpty(opt, empty) == IF opt = <<empty>> THEN Nil ELSE opt

\* What IfEntry can hold of a report.  Shutdown is a plain bool: false is both
\* "not shut down" and "not mentioned".  VRF and MTU are omitted when empty.
IfCarried(i) ==
  LET name == <<i.type, IF i.id # "" THEN i.id ELSE ToString(i.num)>>
  IN  [topic |-> "interface-table", key |-> <<"n", name>>, ts |-> 1, entries |-> <<
        [name |-> name, description |-> i.description, shutdown |-> i.shutdown # Nil, ip |-> i.ip,
         prefixLen |-> IF i.mask = Nil THEN Nil ELSE IF i.mask[1] = <<>> THEN <<0>> ELSE <<23>>,
         vrf |-> NonEmpty(i.vrf, ""), mtu |-> NonEmpty(i.mtu, 0), access |-> i.access, voice |-> i.voice]>>]

IfReports == <<<<Gi1, Gi2>>, <<Vl9, Vl8>>, <<Gi1Less>>>>

-----------------------------------------------------------------------------
(* VLANs, MAC and ARP entries. *)

Vlan(id, name, status) == [id |-> id, name |-> name, status |-> status]
VlanReports == <<<<Vlan(10, <<"a">>, <<"active">>), Vlan(20, <<"">>, Nil)>>, <<Vlan(30, Nil, Nil), Vlan(40, <<"b">>, <<"">>)>>>>

VlanRow(v, layout) ==
  LET data == If(v.name, LAMBDA x : Text("name", x)) \o If(v.status, LAMBDA x : Text("status", x))
  IN  IF layout = "openconfig"
      THEN <<Box("keys", <<Number("vlan-id", v.id)>>), Box("content", <<Box("state", data)>>)>>
      ELSE <<Box("keys", <<Number("id", v.id)>>),
             Box("content", data)>>

VlanCarried(v) ==
  [topic |-> "vlan-table", key |-> <<"n", <<ToString(v.id)>>>>, ts |-> 1, entries |-> <<
     [id |-> v.id, name |-> v.name, status |-> NonEmpty(v.status, "")]>>]

MacRow(m, layout) ==
  IF layout = "nested"
  THEN <<Box("keys", <<Number("vlan-id-number", 10), Text("mac", m)>>),
         Box("content", <<Text("port", <<"Gi", "1/0/1">>), Text("mat-addr-type", "dynamic")>>)>>
  ELSE <<Text("mac-address", m), Text("interface", <<"GigabitEthernet", "1/0/1">>),
         Number("vlan-id", 10), Text("mac-type", "dynamic")>>

ArpRow(m, layout) ==
  LET key == <<Text("address", m)>>
      data == <<Text("hardware", "h"), Text("interface", <<"Vl", "9">>), Number("time-to-live", 5)>>
  IN  IF layout = "nested" THEN <<Box("keys", key), Box("content", data)>> ELSE key \o data

\* A row without its key is not for the table.
RowReports == <<<<"a", "", "b">>>>

TableCarried(kind, r) ==
  LET rows == SelectSeq(r, LAMBDA m : m # "")
  IN  [topic |-> IF kind = "mac" THEN "mac-table" ELSE "arp-table", key |-> <<"n">>, ts |-> 1,
       entries |-> [k \in DOMAIN rows |->
         IF kind = "mac" THEN [mac |-> rows[k], interface |-> <<"GigabitEthernet", "1/0/1">>,
                               vlan |-> 10, type |-> "dynamic"]
                         ELSE [ip |-> rows[k], mac |-> "h", interface |-> <<"Vlan", "9">>, age |-> 5]]]

-----------------------------------------------------------------------------
(* The constants of Collector. *)

\* A push names its kind, its layout and which of the reports it carries.
IfPushes == {<<"interface", l, k>> : l \in {"flat", "chain", "boxed"}, k \in DOMAIN IfReports}
VlanPushes == {<<"vlan", l, k>> : l \in {"oper", "openconfig"}, k \in DOMAIN VlanReports}
RowPushes == {<<kind, l, k>> : kind \in {"mac", "arp"}, l \in {"nested", "bare"}, k \in DOMAIN RowReports}
Garbage == <<"garbage", "", 1>>
Unknown == <<"unknown", "", 1>>
MCPushes == IfPushes \cup VlanPushes \cup RowPushes \cup {Garbage, Unknown}

Each(seq, Op(_)) == [i \in DOMAIN seq |-> Op(seq[i])]

Rows(kind, l, k) ==
  CASE kind = "interface" -> IfTree(IfReports[k], l)
    [] kind = "vlan" -> Each(VlanReports[k], LAMBDA v : VlanRow(v, l))
    [] kind = "mac" -> Each(RowReports[k], LAMBDA m : MacRow(m, l))
    [] kind = "arp" -> Each(RowReports[k], LAMBDA m : ArpRow(m, l))
    [] OTHER -> <<>>

Path(kind, l) ==
  CASE kind = "interface" -> "Cisco-IOS-XE-native:native/interface"
    [] kind = "vlan" -> IF l = "oper" THEN "Cisco-IOS-XE-vlan-oper:vlans/vlan" ELSE "openconfig-vlan:vlans/vlan"
    [] kind = "mac" -> "Cisco-IOS-XE-matm-oper:matm-oper-data/matm-table/matm-mac-entry"
    [] kind = "arp" -> IF l = "nested" THEN "Cisco-IOS-XE-arp-oper:arp-data/arp-vrf/arp-entry"
                                       ELSE "arp-ios-xe-oper:arp-data/arp-vrf/arp-entry"
    [] OTHER -> "Cisco-IOS-XE-process-cpu-oper:cpu-usage"

Tree(p) == [node |-> "n", ts |-> 1, path |-> Path(p[1], p[2]), rows |-> Rows(p[1], p[2], p[3])]

\* A report is its kind and its content.
Meant(kind, k) ==
  CASE kind = "interface" -> {<<kind, IfReports[k][i]>> : i \in DOMAIN IfReports[k]}
    [] kind = "vlan" -> {<<kind, VlanReports[k][i]>> : i \in DOMAIN VlanReports[k]}
    [] kind \in {"mac", "arp"} -> {<<kind, RowReports[k]>>}
    [] OTHER -> {}

MCParsed == [p \in MCPushes |-> dispatch(Tree(p))]
MCMeaning == [p \in MCPushes |-> Meant(p[1], p[3])]
MCReports == UNION {MCMeaning[p] : p \in MCPushes}
MCCarried == [r \in MCReports |-> CASE r[1] = "interface" -> IfCarried(r[2])
                                    [] r[1] = "vlan" -> VlanCarried(r[2])
                                    [] OTHER -> TableCarried(r[1], r[2])]
MCMessages == {MCCarried[r] : r \in MCReports} \cup UNION {ToSet(MCParsed[p]) : p \in MCPushes}
MCUndecodable == {Garbage}
MCStreams == {"any", "few"}
\* One stream sends any push once, the other a few kinds, twice.
MCSubscribed == [any |-> MCPushes \ {Garbage},
                 few |-> {<<"mac", "nested", 1>>, Garbage}]
MCMaxPushes == [any |-> 1, few |-> 2]
=============================================================================
