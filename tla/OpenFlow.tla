------------------------------ MODULE OpenFlow ------------------------------
(***************************************************************************)
(* Flow tables and flow modifications, as sfc_nfv.py uses them.            *)
(*                                                                         *)
(* A header is a <<field, value>> pair.  A match is a set of headers and a *)
(* packet is the set of the headers it carries, so that a match accepts a  *)
(* packet exactly when it is a subset of it, and one match is at least as  *)
(* specific as another when it is a superset of it.                        *)
(*                                                                         *)
(* The switch side (Apply, Best) is Open vSwitch's: external to the        *)
(* repository.  The controller side (AddMod, DelMod) is add_flow and       *)
(* del_flow of sfc_nfv.py.                                                 *)
(***************************************************************************)
EXTENDS Naturals, Sequences

CONSTANTS
    FieldValue,         \* every value a header field can take
    Flow,               \* flow ids, the metadata written to a packet
    NoFlow,             \* an entry that belongs to no flow row
    NoMeta,             \* an entry that writes no metadata
    IPv4, IPv6, NSH,    \* values of eth_type: 0x0800, 0x86DD, 0x894F
    TCP, UDP            \* values of ip_proto: 0x06, 0x11

ASSUME FlowAssumption == NoFlow \notin Flow /\ NoMeta \notin Flow

FieldName ==
    {"in_port", "eth_src", "eth_dst", "eth_type", "ip_proto", "ipv4_src",
     "ipv4_dst", "tcp_src", "tcp_dst", "udp_src", "udp_dst", "ipv6_src",
     "ipv6_dst", "nsh_spi", "nsh_si"}
Header == FieldName \X FieldValue

\* An action is its name and its argument.
ActionName ==
    {"output", "controller", "normal", "encap_nsh", "encap_ether", "decap",
     "set_spi", "set_si", "set_eth_dst"}
Action == ActionName \X FieldValue

\* One row of a flow table.  goto = 0 means that the packet leaves the
\* pipeline after the actions.  The field flow is history: it names the row of
\* the flows table the entry was made for, and no switch looks at it.
Entry == [table : 0..3, priority : 0..10, match : SUBSET Header,
          actions : Seq(Action), meta : Flow \cup {NoMeta}, goto : 0..3,
          flow : Flow \cup {NoFlow}]

FlowMod == [cmd : {"add", "delete"}, entry : Entry]

(***************************************************************************)
(* Controller side.                                                        *)
(***************************************************************************)

\* add_flow writes the metadata only when it also has a table to go to.
AddMod(f, table_id, priority, match, actions, meta, goto) ==
    [cmd |-> "add",
     entry |-> [table |-> table_id, priority |-> priority, match |-> match,
                actions |-> actions, goto |-> goto, flow |-> f,
                meta |-> IF goto = 0 THEN NoMeta ELSE meta]]

\* del_flow, called everywhere without a table_id: the message then carries
\* the parser's default table, 0.
DelModAllTables(f, match) ==        \* mutant: OFPTT_ALL
    [cmd |-> "delete",
     entry |-> [table |-> 255, priority |-> 0, match |-> match,
                actions |-> <<>>, goto |-> 0, flow |-> f, meta |-> NoMeta]]
DelMod(f, match) ==
    [cmd |-> "delete",
     entry |-> [table |-> 0, priority |-> 0, match |-> match,
                actions |-> <<>>, goto |-> 0, flow |-> f, meta |-> NoMeta]]

(***************************************************************************)
(* Switch side.                                                            *)
(***************************************************************************)

Fields(match) == {h[1] : h \in match}

\* A switch refuses an entry whose match lacks the prerequisite of a field.
PrereqOK(match) ==
    /\ Fields(match) \cap {"ipv4_src", "ipv4_dst"} # {}
          => <<"eth_type", IPv4>> \in match
    /\ Fields(match) \cap {"ipv6_src", "ipv6_dst"} # {}
          => <<"eth_type", IPv6>> \in match
    /\ "ip_proto" \in Fields(match)
          => {<<"eth_type", IPv4>>, <<"eth_type", IPv6>>} \cap match # {}
    /\ Fields(match) \cap {"tcp_src", "tcp_dst"} # {}
          => <<"ip_proto", TCP>> \in match
    /\ Fields(match) \cap {"udp_src", "udp_dst"} # {}
          => <<"ip_proto", UDP>> \in match

\* OFPFC_ADD replaces the entry with the same table, priority and match.
Installed(tbl, e) ==
    {x \in tbl : \/ x.table # e.table
                 \/ x.priority # e.priority
                 \/ x.match # e.match} \cup {e}

\* OFPFC_DELETE is not strict: it removes from its table every entry that is
\* at least as specific as the match, whatever its priority.
Removed(tbl, table, match) ==
    {x \in tbl : x.table # table \/ ~ (match \subseteq x.match)}

Apply(tbl, mod) ==
    IF mod.cmd = "delete" THEN Removed(tbl, mod.entry.table, mod.entry.match)
    ELSE IF PrereqOK(mod.entry.match) THEN Installed(tbl, mod.entry)
    ELSE tbl

Matching(tbl, table, packet) ==
    {e \in tbl : e.table = table /\ e.match \subseteq packet}

\* The entries that may process a packet: of those that match, the ones of the
\* highest priority.  When two of them overlap either may be taken.
Best(tbl, table, packet) ==
    LET M == Matching(tbl, table, packet)
    IN {e \in M : \A x \in M : x.priority <= e.priority}
=============================================================================
