------------------------------ MODULE HostNets ------------------------------
(***************************************************************************)
(* The functions of yst-ip-list.c (vlan, dc, hosts_v, hosts_dc, vlans_dc)  *)
(* and what they keep: the list of netblocks (netblock.c), read when it is *)
(* first needed and for every host again until it could be read, and the   *)
(* four tables of hosts-netblocks.c, built together from that list and     *)
(* from the DNS data (tinydns_ip.c).  Both files change at any time, and   *)
(* are looked at again only when the caches have been cleared.             *)
(*                                                                         *)
(* An address is a sequence of Width bits, a name one of symbols, among    *)
(* them the bits: a host is also found under its address.                  *)
(***************************************************************************)
EXTENDS Naturals, Sequences, SequencesExt, FiniteSetsExt

CONSTANTS
  Width,       \* bits of an address: 32
  Domain,      \* the default domain
  DnsFiles, ListFiles,          \* what the files may hold: lines, or Unreadable
  Unreadable,
  TooLong,     \* a line of DNS data that does not fit in the buffer
  Skipped, Unended, BadNet,     \* lines of the list that are no entries
  Queries,     \* calls: [fn, args] each
  BadBlock     \* an argument of hosts_v that is no netblock

ASSUME WidthAssumption == Width \in Nat \ {0}

Address == [1..Width -> {"0", "1"}]
Block == [base : Address, bits : 0..Width]
Masked(ip, bits) == [i \in 1..Width |-> IF i <= bits THEN ip[i] ELSE "0"]

VARIABLES
  dns, list,     \* the files
  want_caching,
  nets,          \* the caches netcolo and colonet of netblock.c that there are
  tables,        \* and the caches hn, hd, nh and dh of hosts-netblocks.c
  pc,            \* "idle", "loop", "place", "returned" or "crashed"
  fn, args, todo, result,
  warned,        \* the arguments there were warnings about
  hosts,         \* the hosts of the DNS data and their addresses, as read
  unplaced, building,  \* what init_caches has to do, and the tables it has
  listRead,      \* ghost: the lines the caches of netblock.c came from
  missed,        \* ghost: the hosts looked up while the list could not be read
  steady         \* ghost: no file has changed since the caches were empty

environment == <<dns, list, want_caching, steady>>
call == <<fn, args, todo, result, warned>>
init == <<hosts, unplaced, building>>
ghosts == <<listRead, missed>>
vars == <<environment, nets, tables, pc, call, init, ghosts>>

Names == {"hn", "hd", "nh", "dh"}
Empty == [x \in {} |-> x]
Put(f, k, v) == [x \in DOMAIN f \union {k} |-> IF x = k THEN v ELSE f[x]]
AddTo(f, k, v) == Put(f, k, {v} \union IF k \in DOMAIN f THEN f[k] ELSE {})

(***************************************************************************)
(* The list of netblocks.                                                  *)
(***************************************************************************)
Entries(lines) == {i \in DOMAIN lines : lines[i] \notin {Skipped, Unended, BadNet}}

ASSUME ListAssumption ==
  \A lines \in ListFiles \ {Unreadable} :
    /\ Len(lines) \in Nat /\ DOMAIN lines = 1..Len(lines)
    /\ \A i \in Entries(lines) : lines[i].net \in Block

ASSUME DnsAssumption ==
  \A lines \in DnsFiles \ {Unreadable} :
    /\ Len(lines) \in Nat /\ DOMAIN lines = 1..Len(lines)
    /\ \A i \in DOMAIN lines : lines[i] = TooLong \/ lines[i].ip \in Address

Functions == {"vlan", "dc", "hosts_v", "hosts_dc", "vlans_dc"}
ASSUME QueryAssumption ==
  \A q \in Queries : q.fn \in Functions /\ (BadBlock \in q.args => q.fn = "hosts_v")

(* Nothing is kept of a list with a line that has no end; a netblock that  *)
(* does not parse aborts the program.                                      *)
Loads(lines) == lines # Unreadable /\ \A i \in DOMAIN lines : lines[i] \notin {Unended, BadNet}
Aborts(lines) ==
  /\ lines # Unreadable
  /\ \E i \in DOMAIN lines : lines[i] = BadNet /\ \A j \in 1..i : lines[j] # Unended

netcolo(lines) ==
  [net \in {lines[i].net : i \in Entries(lines)} |->
     lines[Max({i \in Entries(lines) : lines[i].net = net})].colo]
colonet(lines) ==
  [colo \in {lines[i].colo : i \in Entries(lines)} |->
     {lines[i].net : i \in {j \in Entries(lines) : lines[j].colo = colo}}]

(* Is the list read now, and what is then in its two caches?               *)
Unread == "netcolo" \notin DOMAIN nets
Reads == Unread /\ Loads(list)
Cached_fault(lines) == [netcolo |-> netcolo(lines)]
Cached(lines) == [netcolo |-> netcolo(lines), colonet |-> colonet(lines)]

read_netblocks ==
  /\ nets' = IF Reads /\ want_caching THEN Cached(list) ELSE nets
  /\ listRead' = IF Reads /\ want_caching THEN list ELSE listRead

Netblocks ==
  IF ~Unread THEN nets.netcolo ELSE IF Reads THEN netcolo(list) ELSE Empty

(* The loop over the lengths starts at the longest and ends before 0.      *)
Lengths(blocks, ip) ==
  {bits \in 1..Width : [base |-> Masked(ip, bits), bits |-> bits] \in DOMAIN blocks}
Taken_fault(lengths) == Min(lengths)
Taken(lengths) == Max(lengths)
netcolo_for_ip(blocks, ip) ==
  LET bits == Taken(Lengths(blocks, ip)) IN [base |-> Masked(ip, bits), bits |-> bits]

(***************************************************************************)
(* Calls of the functions.                                                 *)
(***************************************************************************)
Ask(q) ==
  /\ pc = "idle"
  /\ pc' = "loop" /\ fn' = q.fn /\ args' = q.args /\ todo' = q.args
  /\ UNCHANGED <<environment, nets, tables, result, warned, init, ghosts>>

Looping == pc = "loop" /\ todo # {}
Needed == CASE fn = "vlan" -> "hn" [] fn = "dc" -> "hd" [] fn = "hosts_v" -> "nh" [] OTHER -> "dh"

(* netblock_from_string of an argument aborts.                             *)
BadArgument ==
  /\ Looping /\ BadBlock \in todo
  /\ pc' = "crashed" /\ UNCHANGED <<environment, nets, tables, call, init, ghosts>>

Missing_fault == Needed \notin DOMAIN tables \/ dns = Unreadable
Missing == Needed \notin DOMAIN tables
Misses == Looping /\ fn # "vlans_dc" /\ todo # {BadBlock} /\ Missing

(* The last line of a host gives its address.                              *)
HostsIp(lines) ==
  [h \in {lines[i].host : i \in DOMAIN lines} |->
     lines[Max({i \in DOMAIN lines : lines[i].host = h})].ip]

(* init_caches, tinydns_read: no host if the data cannot be read.  There   *)
(* are no tables, and what tinydns_read keeps was cleared with them, so    *)
(* that it never finds its cache, or compares times.                       *)
HostsNow == IF dns = Unreadable THEN Empty ELSE HostsIp(dns)
ReadHosts ==
  /\ Misses /\ (dns # Unreadable => \A i \in DOMAIN dns : dns[i] # TooLong)
  /\ hosts' = HostsNow
  /\ unplaced' = DOMAIN hosts' /\ building' = [t \in Names |-> Empty] /\ missed' = {}
  /\ pc' = "place" /\ UNCHANGED <<environment, nets, tables, call, listRead>>

LongLine ==
  /\ Misses /\ dns # Unreadable /\ (\E i \in DOMAIN dns : dns[i] = TooLong)
  /\ pc' = "crashed" /\ UNCHANGED <<environment, nets, tables, call, init, ghosts>>

(* The name without a '.' at its end and without the default domain.       *)
Undotted(host) == IF Last(host) = "." THEN Front(host) ELSE host
ShortHostname(host) ==
  LET n == Undotted(host) IN
  IF Len(n) > Len(Domain) /\ IsSuffix(Domain, n) THEN SubSeq(n, 1, Len(n) - Len(Domain) - 1) ELSE n

Filled(host, net, colo) ==
  LET name == ShortHostname(host) IN
  [hn |-> Put(Put(building.hn, name, net), hosts[host], net),
   hd |-> Put(Put(building.hd, name, colo), hosts[host], colo),
   nh |-> AddTo(building.nh, net, name),
   dh |-> AddTo(building.dh, colo, name)]

Place(h) ==
  /\ pc = "place" /\ h \in unplaced /\ ~(Unread /\ Aborts(list))
  /\ building' = IF Lengths(Netblocks, hosts[h]) = {} THEN building
                 ELSE LET net == netcolo_for_ip(Netblocks, hosts[h])
                      IN Filled(h, net, Netblocks[net])
  /\ read_netblocks
  /\ missed' = IF Unread /\ ~Loads(list) THEN missed \union {h} ELSE missed
  /\ unplaced' = unplaced \ {h}
  /\ UNCHANGED <<environment, tables, pc, call, hosts>>

BadList ==
  /\ \/ pc = "place" /\ unplaced # {}
     \/ Looping /\ fn = "vlans_dc"
  /\ Unread /\ Aborts(list)
  /\ pc' = "crashed" /\ UNCHANGED <<environment, nets, tables, call, init, ghosts>>

Kept_fault == Put(tables, Needed, building[Needed])
Kept == building

(* All four tables are kept, or none and the caller reads at address 0.    *)
Register ==
  /\ pc = "place" /\ unplaced = {}
  /\ tables' = IF want_caching THEN Kept ELSE tables
  /\ pc' = IF want_caching THEN "loop" ELSE "crashed"
  /\ UNCHANGED <<environment, nets, call, init, ghosts>>

(* A range of the table is copied to the result.                           *)
Found(table, m) == IF fn \in {"vlan", "dc"} THEN {table[m]} ELSE table[m]
Answered(table, m) ==
  /\ result' = IF m \in DOMAIN table THEN result \union Found(table, m) ELSE result
  /\ warned' = IF m \in DOMAIN table THEN warned ELSE warned \union {m}
  /\ todo' = todo \ {m}

LookUp(m) ==
  /\ Looping /\ fn # "vlans_dc" /\ m \in todo \ {BadBlock} /\ ~Missing
  /\ Answered(tables[Needed], m)
  /\ UNCHANGED <<environment, nets, tables, pc, fn, args, init, ghosts>>

(* netblocks_for_dc: if there is nothing to look in, it reads at 0.        *)
netblocks_for_dc(dc) ==
  /\ Looping /\ fn = "vlans_dc" /\ dc \in todo /\ ~(Unread /\ Aborts(list))
  /\ read_netblocks
  /\ IF "colonet" \notin DOMAIN nets'
     THEN pc' = "crashed" /\ UNCHANGED <<todo, result, warned>>
     ELSE Answered(nets'.colonet, dc) /\ UNCHANGED pc
  /\ UNCHANGED <<environment, tables, fn, args, init, missed>>

Done ==
  /\ pc = "loop" /\ todo = {} /\ pc' = "returned"
  /\ UNCHANGED <<environment, nets, tables, call, init, ghosts>>

Return ==
  /\ pc = "returned" /\ pc' = "idle" /\ args' = {} /\ result' = {} /\ warned' = {}
  /\ UNCHANGED <<environment, nets, tables, fn, todo, init, ghosts>>

(***************************************************************************)
(* Everything else, while the program runs.                                *)
(***************************************************************************)
WriteDns ==
  /\ pc # "crashed" /\ dns' \in DnsFiles \ {dns} /\ steady' = FALSE
  /\ UNCHANGED <<list, want_caching, nets, tables, pc, call, init, ghosts>>

WriteList ==
  /\ pc # "crashed" /\ list' \in ListFiles \ {list} /\ steady' = FALSE
  /\ UNCHANGED <<dns, want_caching, nets, tables, pc, call, init, ghosts>>

libcrange_want_caching ==
  /\ pc = "idle" /\ want_caching' = ~want_caching
  /\ UNCHANGED <<dns, list, steady, nets, tables, pc, call, init, ghosts>>

(* Every cache is dropped: the next call that needs them reads both files. *)
Cleared_fault == nets
Cleared == Empty
libcrange_clear_caches ==
  /\ pc = "idle"
  /\ nets' = Cleared /\ tables' = Empty /\ steady' = TRUE
  /\ hosts' = Empty /\ unplaced' = {} /\ building' = [t \in Names |-> Empty] /\ listRead' = <<>> /\ missed' = {}
  /\ UNCHANGED <<dns, list, want_caching, pc, call>>

Init ==
  /\ dns \in DnsFiles /\ list \in ListFiles /\ want_caching = TRUE /\ steady = TRUE
  /\ nets = Empty /\ tables = Empty
  /\ pc = "idle" /\ fn = "vlan" /\ args = {} /\ todo = {} /\ result = {} /\ warned = {}
  /\ hosts = Empty /\ unplaced = {} /\ building = [t \in Names |-> Empty]
  /\ listRead = <<>> /\ missed = {}

Next ==
  \/ WriteDns \/ WriteList \/ libcrange_want_caching \/ libcrange_clear_caches
  \/ \E q \in Queries : Ask(q)
  \/ BadArgument \/ ReadHosts \/ LongLine \/ BadList \/ Register \/ Done \/ Return
  \/ \E h \in unplaced : Place(h)
  \/ \E m \in todo : LookUp(m) \/ netblocks_for_dc(m)

Spec == Init /\ [][Next]_vars

(***************************************************************************)
(* Properties.                                                             *)
(***************************************************************************)
Short == {ShortHostname(h) : h \in DOMAIN hosts}

(* Types: tables of hosts' names and addresses, and of netblocks whose     *)
(* base has no bit beyond their length.                                    *)
TypeOK ==
  /\ dns \in DnsFiles /\ list \in ListFiles /\ {want_caching, steady} \subseteq BOOLEAN
  /\ pc \in {"idle", "loop", "place", "returned", "crashed"}
  /\ \A h \in DOMAIN hosts : hosts[h] \in Address
  /\ unplaced \subseteq DOMAIN hosts /\ missed \subseteq DOMAIN hosts
  /\ ~Unread => DOMAIN nets.netcolo \subseteq Block
  /\ \A n \in DOMAIN building.hn :
       /\ n \in Address \union Short
       /\ building.hn[n] \in Block /\ building.hn[n].base = Masked(building.hn[n].base, building.hn[n].bits)
  /\ \A net \in DOMAIN building.nh : building.nh[net] \subseteq Short
  /\ todo \subseteq args /\ warned \subseteq args \ todo

(* The four tables and the list tell the same, whatever the files have     *)
(* become since: every name has its datacenter and its netblock, is among  *)
(* the hosts of both, and its netblock is one of its datacenter's.         *)
TablesAgree ==
  tables # Empty =>
    /\ DOMAIN tables = Names
    /\ DOMAIN tables.hn = DOMAIN tables.hd
    /\ \A n \in DOMAIN tables.hn :
         /\ tables.hd[n] = nets.netcolo[tables.hn[n]]
         /\ tables.hn[n] \in nets.colonet[tables.hd[n]]
         /\ n \notin Address => n \in tables.nh[tables.hn[n]] /\ n \in tables.dh[tables.hd[n]]
    /\ \A colo \in DOMAIN tables.dh :
         tables.dh[colo] = UNION {tables.nh[net] : net \in {b \in DOMAIN tables.nh : nets.netcolo[b] = colo}}

(* What the functions are to answer from the lines of a list and the hosts *)
(* hs, without those in gone: a host is in the longest netblock around its *)
(* address.                                                                *)
Around(lines, ip) ==
  {b \in {lines[i].net : i \in Entries(lines)} : b.bits > 0 /\ b.base = Masked(ip, b.bits)}
Longest(lines, ip) == {b \in Around(lines, ip) : \A c \in Around(lines, ip) : c.bits <= b.bits}
Nets(lines, hs, gone, h) == IF h \in gone THEN {} ELSE Longest(lines, hs[h])
Colos(lines, hs, gone, h) == {netcolo(lines)[b] : b \in Nets(lines, hs, gone, h)}
Known(hs, name) == {h \in DOMAIN hs : name \in {ShortHostname(h), hs[h]}}

MeaningOf(lines, hs, gone, m) ==
  CASE fn = "vlan"     -> UNION {Nets(lines, hs, gone, h) : h \in Known(hs, m)}
    [] fn = "dc"       -> UNION {Colos(lines, hs, gone, h) : h \in Known(hs, m)}
    [] fn = "hosts_v"  -> {ShortHostname(h) : h \in {g \in DOMAIN hs : m \in Nets(lines, hs, gone, g)}}
    [] fn = "hosts_dc" -> {ShortHostname(h) : h \in {g \in DOMAIN hs : m \in Colos(lines, hs, gone, g)}}
    [] OTHER           -> {lines[i].net : i \in {j \in Entries(lines) : lines[j].colo = m}}

(* All arguments are answered, with warnings about those nothing is known  *)
(* of.  Of hosts with one short name or address, vlan and dc answer for    *)
(* one.                                                                    *)
AnswersFrom(lines, hs, gone) ==
  /\ warned = {m \in args : MeaningOf(lines, hs, gone, m) = {}}
  /\ result \subseteq UNION {MeaningOf(lines, hs, gone, m) : m \in args}
  /\ \A m \in args \ warned :
       IF fn \in {"vlan", "dc"} THEN result \intersect MeaningOf(lines, hs, gone, m) # {}
       ELSE MeaningOf(lines, hs, gone, m) \subseteq result

(* A call answers for all its arguments from one reading of the DNS data   *)
(* and one of the list, without the hosts it asked for while there was no  *)
(* list, and warns about those it knows nothing of.                        *)
AnswerExact == pc = "returned" => AnswersFrom(listRead, hosts, missed)

(* The program ends only for want of what it needs: an argument that is a  *)
(* netblock, tables it may keep, a list and DNS data it can read.  Once it *)
(* has them the files can do it no harm.                                   *)
CrashesOnly ==
  pc = "crashed" =>
    \/ fn = "hosts_v" /\ BadBlock \in args
    \/ /\ fn # "vlans_dc" /\ Missing
       /\ \/ ~want_caching
          \/ Unread /\ Aborts(list)
          \/ dns # Unreadable /\ \E i \in DOMAIN dns : dns[i] = TooLong
    \/ fn = "vlans_dc" /\ Unread /\ (~want_caching \/ ~Loads(list))

(* When the files have not changed since the caches were cleared (or since *)
(* the program began) a call answers from what they hold, whatever was     *)
(* read of them before; a list that cannot be read whole has no lines.     *)
LinesNow == IF Loads(list) THEN list ELSE <<>>
CurrentWhenCleared == pc = "returned" /\ steady => AnswersFrom(LinesNow, HostsNow, {})
=============================================================================
