----------------------------- MODULE HostNetsMC -----------------------------
(* Addresses of two bits; lists with nested, repeated and misplaced        *)
(* netblocks and with every kind of line; hosts whose short names collide. *)
EXTENDS HostNets

MCDomain == <<"d">>
Net(b, c, n) == [base |-> <<b, c>>, bits |-> n]
Line(colo, net) == [colo |-> colo, net |-> net]
A(host, b, c) == [host |-> host, ip |-> <<b, c>>]

MCListFiles ==
  {Unreadable,
   <<Line("east", Net("0", "0", 1)), Skipped, Line("west", Net("0", "1", 2)), Line("east", Net("1", "1", 1))>>,
   <<Line("east", Net("1", "0", 1)), Line("west", Net("1", "0", 1)), Line("west", Net("0", "0", 0)),
     Line("west", Net("0", "1", 2))>>,
   <<Line("east", Net("0", "0", 1)), Unended, BadNet>>,
   <<Line("east", Net("0", "0", 1)), BadNet>>}

MCDnsFiles ==
  {Unreadable,
   <<A(<<"a", ".", "d">>, "0", "0"), A(<<"b", ".", "d", ".">>, "0", "1"), A(<<"c">>, "1", "0")>>,
   <<A(<<"a">>, "0", "1"), A(<<"a", ".", "d">>, "1", "1"), A(<<"a", ".", "d">>, "1", "0")>>,
   <<A(<<"a">>, "0", "1"), TooLong>>}

Query(f, ms) == [fn |-> f, args |-> ms]
MCQueries ==
  {Query("vlan", {<<"a">>, <<"0", "1">>}), Query("vlan", {<<"b">>, <<"c">>}),
   Query("dc", {<<"a">>, <<"b">>}), Query("dc", {<<"1", "0">>}),
   Query("hosts_v", {Net("0", "0", 1), Net("1", "1", 1)}), Query("hosts_v", {Net("0", "1", 2), BadBlock}),
   Query("hosts_v", {Net("1", "0", 1)}),
   Query("hosts_dc", {"east", "west"}), Query("hosts_dc", {"none"}),
   Query("vlans_dc", {"east", "none"}), Query("vlans_dc", {"west"})}

(* One name more, so that TLC evaluates each of these only once.           *)
ListFilesDef == MCListFiles
DnsFilesDef == MCDnsFiles
QueriesDef == MCQueries
=============================================================================
