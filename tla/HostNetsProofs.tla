--------------------------- MODULE HostNetsProofs ---------------------------
(***************************************************************************)
(* Proofs about HostNets, for any files, queries and width of an address:  *)
(* its types, that an answer is exact, and current when the files are what *)
(* they were when the caches were cleared, that the tables agree, and that *)
(* the program ends only for want of what it needs.                        *)
(* The invariant says what a table has that was made of some of the hosts  *)
(* (Made): while it is being built of those placed so far, and afterwards  *)
(* of all; and that hosts placed without a list were all missed.           *)
(***************************************************************************)
EXTENDS HostNets, WellFoundedInduction, TLAPS

(***************************************************************************)
(* Longest netblocks.                                                      *)
(***************************************************************************)

(* A non-empty set of naturals has a least element. *)
LEMMA LeastExists ==
  ASSUME NEW S \in SUBSET Nat, S # {}
  PROVE  \E m \in S : \A n \in S : m <= n
<1> DEFINE R == OpToRel(<, Nat)
<1>1. R = {ss \in Nat \X Nat : ss[1] < ss[2]} BY Zenon DEF OpToRel
<1>2. IsWellFoundedOn(R, Nat) BY NatLessThanWellFounded
<1> HIDE DEF R
<1>3. PICK m \in S : \A n \in S : ~ (<<n, m>> \in R) BY <1>2, WFMin, Zenon
<1>4. ASSUME NEW n \in S PROVE m <= n
  <2>1. n \in Nat /\ m \in Nat OBVIOUS
  <2>2. n < m => <<n, m>> \in R BY <1>1, <2>1
  <2>3. QED BY <1>3, <2>1, <2>2
<1>5. QED BY <1>4

(* So Max is the greatest member of a non-empty set that is bounded. *)
LEMMA MaxIs ==
  ASSUME NEW n \in Nat, NEW S \in SUBSET (0..n), S # {}
  PROVE  Max(S) \in S /\ \A y \in S : y <= Max(S)
<1> DEFINE D == {n - x : x \in S}
<1>0. \A x \in S : n - x \in Nat OBVIOUS
<1>1. D \in SUBSET Nat /\ D # {} BY <1>0
<1>2. PICK d \in D : \A e \in D : d <= e BY <1>1, LeastExists
<1>3. PICK x \in S : d = n - x OBVIOUS
<1>4. ASSUME NEW y \in S PROVE x >= y
  <2>1. n - y \in D OBVIOUS
  <2>2. n - x <= n - y BY <1>2, <1>3, <2>1
  <2>3. QED BY <2>2
<1>5. \E z \in S : \A y \in S : z >= y BY <1>4
<1>6. Max(S) \in S /\ \A y \in S : Max(S) >= y BY <1>5 DEF Max
<1>7. QED BY <1>6

(* The table of a list: its netblocks, each with the datacenter of one of  *)
(* its lines.                                                              *)
LEMMA NetcoloIs ==
  ASSUME NEW lines \in ListFiles, Loads(lines)
  PROVE  /\ DOMAIN netcolo(lines) = {lines[i].net : i \in Entries(lines)}
         /\ DOMAIN netcolo(lines) \subseteq Block
         /\ \A net \in DOMAIN netcolo(lines) :
              \E i \in Entries(lines) : lines[i].net = net /\ lines[i].colo = netcolo(lines)[net]
<1>1. lines # Unreadable BY DEF Loads
<1>2. Len(lines) \in Nat /\ DOMAIN lines = 1..Len(lines) /\ \A i \in Entries(lines) : lines[i].net \in Block
  BY <1>1, ListAssumption DEF ListAssumption
<1>3. DOMAIN netcolo(lines) = {lines[i].net : i \in Entries(lines)} BY DEF netcolo
<1>4. ASSUME NEW net \in DOMAIN netcolo(lines)
      PROVE  \E i \in Entries(lines) : lines[i].net = net /\ lines[i].colo = netcolo(lines)[net]
  <2> DEFINE S == {i \in Entries(lines) : lines[i].net = net}
  <2>1. S # {} BY <1>3
  <2>2. S \in SUBSET (0..Len(lines)) BY <1>2 DEF Entries
  <2> HIDE DEF S
  <2>3. Max(S) \in S BY <1>2, <2>1, <2>2, MaxIs
  <2>4. netcolo(lines)[net] = lines[Max(S)].colo BY <1>3 DEF netcolo, S
  <2>5. QED BY <2>3, <2>4 DEF S
<1>5. QED BY <1>2, <1>3, <1>4

(* And the table of the datacenters has what that one has. *)
LEMMA ColonetIs ==
  ASSUME NEW lines \in ListFiles, Loads(lines), NEW net \in DOMAIN netcolo(lines)
  PROVE  netcolo(lines)[net] \in DOMAIN colonet(lines) /\ net \in colonet(lines)[netcolo(lines)[net]]
<1>1. PICK i \in Entries(lines) : lines[i].net = net /\ lines[i].colo = netcolo(lines)[net] BY NetcoloIs
<1>2. QED BY <1>1 DEF colonet

LEMMA MaskedIs ==
  ASSUME NEW ip \in Address, NEW bits \in 0..Width
  PROVE  Masked(ip, bits) \in Address /\ Masked(Masked(ip, bits), bits) = Masked(ip, bits)
BY WidthAssumption DEF WidthAssumption, Address, Masked

(* What the loop over the lengths finds is the longest netblock around the *)
(* address, the only one of its length.                                    *)
LEMMA LongestIs ==
  ASSUME NEW lines \in ListFiles, Loads(lines), NEW ip \in Address
  PROVE  /\ Lengths(netcolo(lines), ip) = {} => Longest(lines, ip) = {}
         /\ Lengths(netcolo(lines), ip) # {} =>
              /\ netcolo_for_ip(netcolo(lines), ip) \in DOMAIN netcolo(lines)
              /\ Longest(lines, ip) = {netcolo_for_ip(netcolo(lines), ip)}
<1> DEFINE blocks == DOMAIN netcolo(lines)
           ls == Lengths(netcolo(lines), ip)
           at(bits) == [base |-> Masked(ip, bits), bits |-> bits]
<1>1. blocks = {lines[i].net : i \in Entries(lines)} /\ blocks \subseteq Block BY NetcoloIs
<1>2. Width \in Nat BY WidthAssumption DEF WidthAssumption
<1>3. ASSUME NEW b \in Around(lines, ip) PROVE b \in blocks /\ b.bits \in ls /\ b = at(b.bits)
  <2>1. b \in blocks /\ b.bits > 0 /\ b.base = Masked(ip, b.bits) BY <1>1 DEF Around
  <2>2. b \in Block BY <1>1, <2>1
  <2>3. b = [base |-> b.base, bits |-> b.bits] /\ b.bits \in 0..Width BY <2>2 DEF Block
  <2>4. b = at(b.bits) BY <2>1, <2>3
  <2>5. b.bits \in 1..Width BY <1>2, <2>1, <2>3
  <2>6. QED BY <2>1, <2>4, <2>5 DEF Lengths
<1>4. ASSUME NEW bits \in ls PROVE at(bits) \in Around(lines, ip) /\ bits \in 1..Width
  <2>1. bits \in 1..Width /\ at(bits) \in blocks BY DEF Lengths
  <2>2. QED BY <1>1, <1>2, <2>1 DEF Around
<1>5. CASE ls = {}
  <2>1. Around(lines, ip) = {} BY <1>3, <1>5
  <2>2. QED BY <1>5, <2>1 DEF Longest
<1>6. CASE ls # {}
  <2>0. \A bits \in ls : bits \in 0..Width BY <1>2 DEF Lengths
  <2>1. ls \in SUBSET (0..Width) BY <2>0
  <2> DEFINE top == Max(ls)
  <2>2. top \in ls /\ \A y \in ls : y <= top BY <1>2, <1>6, <2>1, MaxIs
  <2>3. netcolo_for_ip(netcolo(lines), ip) = at(top) BY DEF netcolo_for_ip, Taken
  <2> HIDE DEF top, ls
  <2>4. at(top) \in Around(lines, ip) /\ top \in 1..Width BY <1>4, <2>2
  <2>5. at(top) \in blocks BY <1>3, <2>4
  <2>6. at(top) \in Longest(lines, ip)
    <3>1. ASSUME NEW c \in Around(lines, ip) PROVE c.bits <= at(top).bits BY <1>3, <2>2
    <3>2. QED BY <2>4, <3>1 DEF Longest
  <2>7. ASSUME NEW b \in Longest(lines, ip) PROVE b = at(top)
    <3>1. b \in Around(lines, ip) /\ at(top).bits <= b.bits BY <2>4 DEF Longest
    <3>2. b.bits \in ls /\ b = at(b.bits) BY <1>3, <3>1
    <3>3. b.bits <= top /\ top <= b.bits BY <2>2, <3>1, <3>2
    <3>4. b.bits \in Nat /\ top \in Nat BY <1>2, <2>1, <2>2, <3>2
    <3>5. b.bits = top BY <3>3, <3>4
    <3>6. QED BY <3>2, <3>5
  <2>8. QED BY <1>6, <2>3, <2>5, <2>6, <2>7 DEF ls
<1>7. QED BY <1>5, <1>6

(***************************************************************************)
(* Tables made of the hosts P: of their addresses hs, without those in ms, *)
(* and of the list.                                                        *)
(***************************************************************************)
Called(hs, h) == {ShortHostname(h), hs[h]}

Made(T, P, lines, hs, ms) ==
  /\ T = [hn |-> T.hn, hd |-> T.hd, nh |-> T.nh, dh |-> T.dh]
  /\ DOMAIN T.hn = DOMAIN T.hd
  /\ \A n : n \in DOMAIN T.hn <=> \E h \in P : n \in Called(hs, h) /\ Nets(lines, hs, ms, h) # {}
  /\ \A n \in DOMAIN T.hn :
       \E h \in P : /\ n \in Called(hs, h) /\ T.hn[n] \in Nets(lines, hs, ms, h)
                    /\ T.hd[n] = netcolo(lines)[T.hn[n]]
  /\ \A net : net \in DOMAIN T.nh <=> \E h \in P : net \in Nets(lines, hs, ms, h)
  /\ \A net \in DOMAIN T.nh : T.nh[net] = {ShortHostname(h) : h \in {g \in P : net \in Nets(lines, hs, ms, g)}}
  /\ \A colo : colo \in DOMAIN T.dh <=> \E h \in P : colo \in Colos(lines, hs, ms, h)
  /\ \A colo \in DOMAIN T.dh :
       T.dh[colo] = {ShortHostname(h) : h \in {g \in P : colo \in Colos(lines, hs, ms, g)}}

(* Only the netblocks of these hosts matter. *)
LEMMA MadeSame ==
  ASSUME NEW T, NEW P, NEW lines, NEW hs, NEW ms, NEW more, NEW found, NEW Q,
         Made(T, P, lines, hs, ms), P \subseteq Q,
         \A h \in P : Nets(more, hs, found, h) = Nets(lines, hs, ms, h),
         \A h \in P : Nets(lines, hs, ms, h) # {} => more = lines,
         \A h \in Q \ P : Nets(more, hs, found, h) = {}
  PROVE  Made(T, Q, more, hs, found)
<1>1. \A h \in P : Colos(more, hs, found, h) = Colos(lines, hs, ms, h) BY DEF Colos
<1>2. \A h \in Q \ P : Colos(more, hs, found, h) = {} BY DEF Colos
<1>3. \A n : n \in DOMAIN T.hn <=> \E h \in Q : n \in Called(hs, h) /\ Nets(more, hs, found, h) # {} BY DEF Made
<1>4. \A n \in DOMAIN T.hn :
       \E h \in Q : /\ n \in Called(hs, h) /\ T.hn[n] \in Nets(more, hs, found, h)
                    /\ T.hd[n] = netcolo(more)[T.hn[n]]
  BY DEF Made
<1>5. \A net : net \in DOMAIN T.nh <=> \E h \in Q : net \in Nets(more, hs, found, h) BY DEF Made
<1>6. ASSUME NEW net \in DOMAIN T.nh
      PROVE  T.nh[net] = {ShortHostname(h) : h \in {g \in Q : net \in Nets(more, hs, found, g)}}
  <2>1. {g \in Q : net \in Nets(more, hs, found, g)} = {g \in P : net \in Nets(lines, hs, ms, g)} OBVIOUS
  <2>2. QED BY <2>1 DEF Made
<1>7. \A colo : colo \in DOMAIN T.dh <=> \E h \in Q : colo \in Colos(more, hs, found, h) BY <1>1, <1>2 DEF Made
<1>8. ASSUME NEW colo \in DOMAIN T.dh
      PROVE  T.dh[colo] = {ShortHostname(h) : h \in {g \in Q : colo \in Colos(more, hs, found, g)}}
  <2>1. {g \in Q : colo \in Colos(more, hs, found, g)} = {g \in P : colo \in Colos(lines, hs, ms, g)}
    BY <1>1, <1>2
  <2>2. QED BY <2>1 DEF Made
<1>9. QED BY <1>3, <1>4, <1>5, <1>6, <1>7, <1>8 DEF Made

(* Placing one host more: one that is in no netblock changes nothing, one  *)
(* that is in one is entered under both its names.                         *)
FilledWith(T, hs, h, net, colo) ==
  [hn |-> Put(Put(T.hn, ShortHostname(h), net), hs[h], net),
   hd |-> Put(Put(T.hd, ShortHostname(h), colo), hs[h], colo),
   nh |-> AddTo(T.nh, net, ShortHostname(h)),
   dh |-> AddTo(T.dh, colo, ShortHostname(h))]

LEMMA MadeFilled ==
  ASSUME NEW T, NEW P, NEW lines, NEW hs, NEW ms, NEW h, h \notin P, NEW net,
         Made(T, P, lines, hs, ms), Nets(lines, hs, ms, h) = {net}
  PROVE  Made(FilledWith(T, hs, h, net, netcolo(lines)[net]), P \union {h}, lines, hs, ms)
<1> DEFINE colo == netcolo(lines)[net]
           U == FilledWith(T, hs, h, net, colo)
           Q == P \union {h}
<1>1. Colos(lines, hs, ms, h) = {colo} BY DEF Colos
<1>2. /\ DOMAIN U.hn = DOMAIN T.hn \union Called(hs, h)
      /\ DOMAIN U.hd = DOMAIN T.hd \union Called(hs, h)
      /\ \A n \in Called(hs, h) : U.hn[n] = net /\ U.hd[n] = colo
      /\ \A n \in DOMAIN T.hn \ Called(hs, h) : U.hn[n] = T.hn[n]
      /\ \A n \in DOMAIN T.hd \ Called(hs, h) : U.hd[n] = T.hd[n]
  BY DEF FilledWith, Called, Put
<1>3. /\ DOMAIN U.nh = DOMAIN T.nh \union {net}
      /\ U.nh[net] = {ShortHostname(h)} \union (IF net \in DOMAIN T.nh THEN T.nh[net] ELSE {})
      /\ \A b \in DOMAIN T.nh : b # net => U.nh[b] = T.nh[b]
  <2> DEFINE new == {ShortHostname(h)} \union (IF net \in DOMAIN T.nh THEN T.nh[net] ELSE {})
  <2>1. U.nh = Put(T.nh, net, new) BY DEF FilledWith, AddTo
  <2> HIDE DEF new, U, colo
  <2>2. QED BY <2>1 DEF new, Put
<1>4. /\ DOMAIN U.dh = DOMAIN T.dh \union {colo}
      /\ U.dh[colo] = {ShortHostname(h)} \union (IF colo \in DOMAIN T.dh THEN T.dh[colo] ELSE {})
      /\ \A c \in DOMAIN T.dh : c # colo => U.dh[c] = T.dh[c]
  <2> DEFINE new == {ShortHostname(h)} \union (IF colo \in DOMAIN T.dh THEN T.dh[colo] ELSE {})
  <2>1. U.dh = Put(T.dh, colo, new) BY DEF FilledWith, AddTo
  <2> HIDE DEF new, U, colo
  <2>2. QED BY <2>1 DEF new, Put
<1>5. U = [hn |-> U.hn, hd |-> U.hd, nh |-> U.nh, dh |-> U.dh] BY DEF FilledWith
<1> HIDE DEF U, colo
<1>6. DOMAIN U.hn = DOMAIN U.hd BY <1>2 DEF Made
<1>7. ASSUME NEW n PROVE n \in DOMAIN U.hn <=> \E g \in Q : n \in Called(hs, g) /\ Nets(lines, hs, ms, g) # {}
  BY <1>2 DEF Made
<1>8. ASSUME NEW n \in DOMAIN U.hn
      PROVE  \E g \in Q : /\ n \in Called(hs, g) /\ U.hn[n] \in Nets(lines, hs, ms, g)
                          /\ U.hd[n] = netcolo(lines)[U.hn[n]]
  <2>1. CASE n \in Called(hs, h)
    <3>1. U.hn[n] = net /\ U.hd[n] = netcolo(lines)[net] BY <1>2, <2>1 DEF colo
    <3>2. QED BY <2>1, <3>1
  <2>2. CASE n \notin Called(hs, h)
    <3>1. n \in DOMAIN T.hn /\ n \in DOMAIN T.hd BY <1>2, <2>2 DEF Made
    <3>2. U.hn[n] = T.hn[n] /\ U.hd[n] = T.hd[n] BY <1>2, <2>2, <3>1
    <3>3. QED BY <3>1, <3>2 DEF Made
  <2>3. QED BY <2>1, <2>2
<1>9. ASSUME NEW b PROVE b \in DOMAIN U.nh <=> \E g \in Q : b \in Nets(lines, hs, ms, g)
  BY <1>3 DEF Made
<1>10. ASSUME NEW b \in DOMAIN U.nh
       PROVE  U.nh[b] = {ShortHostname(g) : g \in {k \in Q : b \in Nets(lines, hs, ms, k)}}
  <2>1. CASE b = net
    <3>1. {k \in Q : b \in Nets(lines, hs, ms, k)} = {k \in P : b \in Nets(lines, hs, ms, k)} \union {h}
      BY <2>1
    <3>2. CASE net \in DOMAIN T.nh BY <1>3, <2>1, <3>1, <3>2 DEF Made
    <3>3. CASE net \notin DOMAIN T.nh
      <4>1. {k \in P : b \in Nets(lines, hs, ms, k)} = {} BY <2>1, <3>3 DEF Made
      <4>2. QED BY <1>3, <2>1, <3>1, <3>3, <4>1
    <3>4. QED BY <3>2, <3>3
  <2>2. CASE b # net
    <3>1. {k \in Q : b \in Nets(lines, hs, ms, k)} = {k \in P : b \in Nets(lines, hs, ms, k)} BY <2>2
    <3>2. QED BY <1>3, <2>2, <3>1 DEF Made
  <2>3. QED BY <2>1, <2>2
<1>11. ASSUME NEW c PROVE c \in DOMAIN U.dh <=> \E g \in Q : c \in Colos(lines, hs, ms, g)
  BY <1>1, <1>4 DEF Made
<1>12. ASSUME NEW c \in DOMAIN U.dh
       PROVE  U.dh[c] = {ShortHostname(g) : g \in {k \in Q : c \in Colos(lines, hs, ms, k)}}
  <2>1. CASE c = colo
    <3>1. {k \in Q : c \in Colos(lines, hs, ms, k)} = {k \in P : c \in Colos(lines, hs, ms, k)} \union {h}
      BY <1>1, <2>1
    <3>2. CASE colo \in DOMAIN T.dh BY <1>4, <2>1, <3>1, <3>2 DEF Made
    <3>3. CASE colo \notin DOMAIN T.dh
      <4>1. {k \in P : c \in Colos(lines, hs, ms, k)} = {} BY <2>1, <3>3 DEF Made
      <4>2. QED BY <1>4, <2>1, <3>1, <3>3, <4>1
    <3>4. QED BY <3>2, <3>3
  <2>2. CASE c # colo
    <3>1. {k \in Q : c \in Colos(lines, hs, ms, k)} = {k \in P : c \in Colos(lines, hs, ms, k)} BY <1>1, <2>2
    <3>2. QED BY <1>4, <2>2, <3>1 DEF Made
  <2>3. QED BY <2>1, <2>2
<1>13. Made(U, Q, lines, hs, ms) BY <1>5, <1>6, <1>7, <1>8, <1>9, <1>10, <1>11, <1>12 DEF Made
<1>14. QED BY <1>13 DEF U, colo

(***************************************************************************)
(* The invariant.                                                          *)
(***************************************************************************)

(* The list is read whole or not at all.                                   *)
Whole(lines) == lines \in ListFiles /\ Loads(lines)
ListOK ==
  /\ listRead = <<>> \/ Whole(listRead)
  /\ nets = Empty \/ (Whole(listRead) /\ nets = Cached(listRead))

Placed == DOMAIN hosts \ unplaced
BuildOK ==
  pc = "place" =>
    /\ tables = Empty /\ fn # "vlans_dc" /\ missed \subseteq Placed
    /\ want_caching => Made(building, Placed, listRead, hosts, missed) /\ (Unread => Placed \subseteq missed)

TablesOK ==
  tables # Empty =>
    Made(tables, DOMAIN hosts, listRead, hosts, missed) /\ (Unread => DOMAIN hosts \subseteq missed)

(* What m means in what was read, and what has been answered so far: what  *)
(* AnswerExact asks for in the end.                                        *)
Meaning(m) == MeaningOf(listRead, hosts, missed, m)
Answers(seen) ==
  /\ warned = {m \in seen : Meaning(m) = {}}
  /\ result \subseteq UNION {Meaning(m) : m \in seen}
  /\ \A m \in seen \ warned :
       IF fn \in {"vlan", "dc"} THEN result \intersect Meaning(m) # {} ELSE Meaning(m) \subseteq result

CallOK ==
  /\ fn \in Functions /\ todo \subseteq args /\ (BadBlock \in args => fn = "hosts_v")
  /\ pc = "idle" => args = {} /\ result = {} /\ warned = {}
  /\ pc = "place" => todo = args
  /\ pc = "returned" => todo = {}
  /\ pc # "crashed" => Answers(args \ todo)
  /\ pc \in {"loop", "returned"} /\ todo # args => IF fn = "vlans_dc" THEN ~Unread ELSE tables # Empty

IInv == TypeOK /\ ListOK /\ BuildOK /\ TablesOK /\ CallOK /\ CrashesOnly

(* A call has its tables, or there are none. *)
LEMMA TablesAll ==
  ASSUME TablesOK, fn \in Functions, fn # "vlans_dc"
  PROVE  Missing <=> tables = Empty
<1>1. Needed \in Names BY DEF Needed, Names, Functions
<1>2. tables = Empty => DOMAIN tables = {} BY DEF Empty
<1>3. tables # Empty => DOMAIN tables = Names BY DEF TablesOK, Made, Names
<1>4. QED BY <1>1, <1>2, <1>3 DEF Missing

LEMMA UnreadIs == ASSUME ListOK PROVE (Unread <=> nets = Empty) /\ (~Unread => DOMAIN nets = {"netcolo", "colonet"})
BY DEF ListOK, Unread, Empty, Cached

(* What the tables and the list say together. *)
LEMMA MadeAgree ==
  ASSUME TypeOK, ListOK, TablesOK PROVE TablesAgree
<1> SUFFICES ASSUME tables # Empty PROVE TablesAgree BY DEF TablesAgree
<1> DEFINE N(h) == Nets(listRead, hosts, missed, h)
           C(h) == Colos(listRead, hosts, missed, h)
<1>1. Made(tables, DOMAIN hosts, listRead, hosts, missed) BY DEF TablesOK
<1>2. ASSUME NEW h \in DOMAIN hosts, N(h) # {}
      PROVE  /\ Whole(listRead) /\ nets = Cached(listRead) /\ N(h) \subseteq DOMAIN netcolo(listRead)
             /\ nets.netcolo = netcolo(listRead) /\ nets.colonet = colonet(listRead)
  <2>1. ~Unread BY <1>2 DEF TablesOK, Nets
  <2>2. Whole(listRead) /\ nets = Cached(listRead) BY <2>1, UnreadIs DEF ListOK
  <2>3. N(h) \subseteq Around(listRead, hosts[h]) BY DEF Nets, Longest
  <2>4. QED BY <2>2, <2>3, NetcoloIs DEF Whole, Around, Cached
<1>3. DOMAIN tables = Names /\ DOMAIN tables.hn = DOMAIN tables.hd BY <1>1 DEF Made, Names
<1>4. ASSUME NEW n \in DOMAIN tables.hn
      PROVE  /\ tables.hd[n] = nets.netcolo[tables.hn[n]]
             /\ tables.hn[n] \in nets.colonet[tables.hd[n]]
             /\ n \notin Address => n \in tables.nh[tables.hn[n]] /\ n \in tables.dh[tables.hd[n]]
  <2>1. PICK h \in DOMAIN hosts :
          n \in Called(hosts, h) /\ tables.hn[n] \in N(h) /\ tables.hd[n] = netcolo(listRead)[tables.hn[n]]
    BY <1>1 DEF Made
  <2>2. nets.netcolo = netcolo(listRead) /\ nets.colonet = colonet(listRead) /\ Whole(listRead)
        /\ tables.hn[n] \in DOMAIN netcolo(listRead)
    BY <1>2, <2>1
  <2>3. tables.hd[n] = nets.netcolo[tables.hn[n]] BY <2>1, <2>2
  <2>4. tables.hn[n] \in nets.colonet[tables.hd[n]] BY <2>1, <2>2, ColonetIs DEF Whole
  <2>5. ASSUME n \notin Address PROVE n \in tables.nh[tables.hn[n]] /\ n \in tables.dh[tables.hd[n]]
    <3>1. n = ShortHostname(h) BY <2>1, <2>5 DEF Called, TypeOK
    <3>2. tables.hd[n] \in C(h) BY <2>1 DEF Colos
    <3>3. tables.hn[n] \in DOMAIN tables.nh /\ tables.hd[n] \in DOMAIN tables.dh BY <1>1, <2>1, <3>2 DEF Made
    <3>4. QED BY <1>1, <2>1, <3>1, <3>2, <3>3 DEF Made
  <2>6. QED BY <2>3, <2>4, <2>5
<1>5. ASSUME NEW colo \in DOMAIN tables.dh
      PROVE  tables.dh[colo] = UNION {tables.nh[net] : net \in {b \in DOMAIN tables.nh : nets.netcolo[b] = colo}}
  <2>1. tables.dh[colo] = {ShortHostname(h) : h \in {g \in DOMAIN hosts : colo \in C(g)}} BY <1>1 DEF Made
  <2>2. ASSUME NEW h \in DOMAIN hosts, NEW net \in N(h)
        PROVE  net \in DOMAIN tables.nh /\ nets.netcolo[net] = netcolo(listRead)[net]
    BY <1>1, <1>2, <2>2 DEF Made
  <2>3. ASSUME NEW net \in DOMAIN tables.nh
        PROVE  tables.nh[net] = {ShortHostname(h) : h \in {g \in DOMAIN hosts : net \in N(g)}}
    BY <1>1 DEF Made
  <2>4. ASSUME NEW h \in DOMAIN hosts, colo \in C(h)
        PROVE  \E net \in DOMAIN tables.nh : nets.netcolo[net] = colo /\ ShortHostname(h) \in tables.nh[net]
    <3>1. PICK net \in N(h) : colo = netcolo(listRead)[net] BY <2>4 DEF Colos
    <3>2. QED BY <2>2, <2>3, <3>1
  <2>5. ASSUME NEW net \in DOMAIN tables.nh, nets.netcolo[net] = colo, NEW name \in tables.nh[net]
        PROVE  name \in tables.dh[colo]
    <3>1. PICK h \in DOMAIN hosts : net \in N(h) /\ name = ShortHostname(h) BY <2>3
    <3>2. colo \in C(h) BY <2>2, <2>5, <3>1 DEF Colos
    <3>3. QED BY <2>1, <3>1, <3>2
  <2>6. QED BY <2>1, <2>4, <2>5
<1>6. QED BY <1>3, <1>4, <1>5 DEF TablesAgree

(***************************************************************************)
(* One more argument answered.                                             *)
(***************************************************************************)

(* What a table has for m is what m means, and it has nothing for an m     *)
(* that means nothing.                                                     *)
Means(table, m, meaning) ==
  /\ m \in DOMAIN table <=> meaning # {}
  /\ m \in DOMAIN table => IF fn \in {"vlan", "dc"} THEN table[m] \in meaning ELSE table[m] = meaning

LEMMA TableMeans ==
  ASSUME TablesOK, tables # Empty, fn \in Functions, fn # "vlans_dc", NEW m
  PROVE  Means(tables[Needed], m, Meaning(m))
<1>1. Made(tables, DOMAIN hosts, listRead, hosts, missed) BY DEF TablesOK
<1> DEFINE NetsOf(h) == Nets(listRead, hosts, missed, h)
           ColosOf(h) == Colos(listRead, hosts, missed, h)
           Knows == Known(hosts, m)
<1>2. \A h : NetsOf(h) = Nets(listRead, hosts, missed, h) /\ ColosOf(h) = Colos(listRead, hosts, missed, h)
  OBVIOUS
<1>3. \A h : ColosOf(h) = {} <=> NetsOf(h) = {} BY DEF Colos
<1>4. Knows = {h \in DOMAIN hosts : m \in Called(hosts, h)} BY DEF Known, Called
<1>5. CASE fn = "vlan"
  <2>1. Meaning(m) = UNION {NetsOf(h) : h \in Knows} /\ Needed = "hn" BY <1>5 DEF Meaning, MeaningOf, Needed
  <2>2. m \in DOMAIN tables.hn <=> Meaning(m) # {} BY <1>1, <1>2, <1>4, <2>1 DEF Made
  <2>3. m \in DOMAIN tables.hn => tables.hn[m] \in Meaning(m) BY <1>1, <1>2, <1>4, <2>1 DEF Made
  <2>4. QED BY <1>5, <2>1, <2>2, <2>3 DEF Means
<1>6. CASE fn = "dc"
  <2>1. Meaning(m) = UNION {ColosOf(h) : h \in Knows} /\ Needed = "hd" BY <1>6 DEF Meaning, MeaningOf, Needed
  <2>2. m \in DOMAIN tables.hd <=> \E h \in Knows : NetsOf(h) # {} BY <1>1, <1>2, <1>4 DEF Made
  <2>3. m \in DOMAIN tables.hd <=> Meaning(m) # {} BY <1>3, <2>1, <2>2
  <2>4. ASSUME m \in DOMAIN tables.hd PROVE tables.hd[m] \in Meaning(m)
    <3>1. PICK h \in DOMAIN hosts :
            /\ m \in Called(hosts, h) /\ tables.hn[m] \in NetsOf(h)
            /\ tables.hd[m] = netcolo(listRead)[tables.hn[m]]
      BY <1>1, <1>2, <2>4 DEF Made
    <3>2. tables.hd[m] \in ColosOf(h) /\ h \in Knows BY <1>4, <3>1 DEF Colos
    <3>3. QED BY <2>1, <3>2
  <2>5. QED BY <1>6, <2>1, <2>3, <2>4 DEF Means
<1>7. CASE fn = "hosts_v"
  <2>1. Meaning(m) = {ShortHostname(h) : h \in {g \in DOMAIN hosts : m \in NetsOf(g)}} /\ Needed = "nh"
    BY <1>7 DEF Meaning, MeaningOf, Needed
  <2>2. m \in DOMAIN tables.nh <=> Meaning(m) # {} BY <1>1, <1>2, <2>1 DEF Made
  <2>3. m \in DOMAIN tables.nh => tables.nh[m] = Meaning(m) BY <1>1, <1>2, <2>1 DEF Made
  <2>4. QED BY <1>7, <2>1, <2>2, <2>3 DEF Means
<1>8. CASE fn = "hosts_dc"
  <2>1. Meaning(m) = {ShortHostname(h) : h \in {g \in DOMAIN hosts : m \in ColosOf(g)}} /\ Needed = "dh"
    BY <1>8 DEF Meaning, MeaningOf, Needed
  <2>2. m \in DOMAIN tables.dh <=> Meaning(m) # {} BY <1>1, <1>2, <2>1 DEF Made
  <2>3. m \in DOMAIN tables.dh => tables.dh[m] = Meaning(m) BY <1>1, <1>2, <2>1 DEF Made
  <2>4. QED BY <1>8, <2>1, <2>2, <2>3 DEF Means
<1>9. QED BY <1>5, <1>6, <1>7, <1>8 DEF Functions

NetsAt(lines, dc) == {lines[i].net : i \in {j \in Entries(lines) : lines[j].colo = dc}}
LEMMA ListMeans ==
  ASSUME fn = "vlans_dc", NEW lines, NEW m PROVE Means(colonet(lines), m, NetsAt(lines, m))
<1>1. m \in DOMAIN colonet(lines) <=> \E i \in Entries(lines) : lines[i].colo = m BY DEF colonet
<1>2. m \in DOMAIN colonet(lines) => colonet(lines)[m] = NetsAt(lines, m) BY DEF colonet, NetsAt
<1>3. NetsAt(lines, m) # {} <=> \E i \in Entries(lines) : lines[i].colo = m BY DEF NetsAt
<1>4. QED BY <1>1, <1>2, <1>3 DEF Means

LEMMA MeaningSame == ASSUME UNCHANGED <<fn, hosts, missed, listRead>>, NEW m PROVE Meaning(m)' = Meaning(m)
BY DEF Meaning, MeaningOf

LEMMA AnsweredStep ==
  ASSUME NEW table, NEW m \in todo, NEW meaning, todo \subseteq args, Answers(args \ todo),
         Means(table, m, meaning), Answered(table, m), UNCHANGED <<fn, args>>,
         Meaning(m)' = meaning, \A k \in args \ todo : Meaning(k)' = Meaning(k)
  PROVE  todo' \subseteq args' /\ Answers(args \ todo)'
<1> DEFINE seen == args \ todo
           next == seen \union {m}
<1>1. todo' = todo \ {m} /\ args' \ todo' = next BY DEF Answered
<1>2. CASE m \in DOMAIN table
  <2>1. meaning # {} /\ warned' = warned /\ result' = result \union Found(table, m)
    BY <1>2 DEF Means, Answered
  <2>2. Found(table, m) \subseteq meaning
        /\ IF fn \in {"vlan", "dc"} THEN Found(table, m) \intersect meaning # {} ELSE meaning \subseteq Found(table, m)
    BY <1>2 DEF Means, Found
  <2>3. warned' = {k \in next : Meaning(k)' = {}} BY <2>1 DEF Answers
  <2>4. result' \subseteq UNION {Meaning(k)' : k \in next} BY <2>1, <2>2 DEF Answers
  <2>5. ASSUME NEW k \in next \ warned'
        PROVE  IF fn \in {"vlan", "dc"} THEN result' \intersect Meaning(k)' # {} ELSE Meaning(k)' \subseteq result'
    <3>1. CASE k = m BY <2>1, <2>2, <3>1
    <3>2. CASE k # m BY <2>1, <3>2 DEF Answers
    <3>3. QED BY <3>1, <3>2
  <2>6. QED BY <1>1, <2>3, <2>4, <2>5 DEF Answers
<1>3. CASE m \notin DOMAIN table
  <2>1. meaning = {} /\ warned' = warned \union {m} /\ result' = result BY <1>3 DEF Means, Answered
  <2>2. warned' = {k \in next : Meaning(k)' = {}} BY <2>1 DEF Answers
  <2>3. result' \subseteq UNION {Meaning(k)' : k \in next} BY <2>1 DEF Answers
  <2>4. ASSUME NEW k \in next \ warned'
        PROVE  IF fn \in {"vlan", "dc"} THEN result' \intersect Meaning(k)' # {} ELSE Meaning(k)' \subseteq result'
    <3>1. k \in seen \ warned BY <2>1, <2>4
    <3>2. QED BY <2>1, <3>1 DEF Answers
  <2>5. QED BY <1>1, <2>2, <2>3, <2>4 DEF Answers
<1>4. QED BY <1>2, <1>3

(***************************************************************************)
(* The steps.                                                              *)
(***************************************************************************)

LEMMA InitInv == Init => IInv
<1> SUFFICES ASSUME Init PROVE IInv OBVIOUS
<1>1. TypeOK BY DEF Init, TypeOK, Empty, Names, Unread
<1>2. ListOK /\ BuildOK /\ TablesOK /\ CrashesOnly BY DEF Init, ListOK, BuildOK, TablesOK, CrashesOnly
<1>3. Answers({}) BY DEF Init, Answers
<1>4. CallOK BY <1>3 DEF Init, CallOK, Functions
<1>5. QED BY <1>1, <1>2, <1>4 DEF IInv

(* The list is read at most once, and then whole. *)
LEMMA ListReads ==
  ASSUME TypeOK, ListOK, read_netblocks
  PROVE  /\ ListOK' /\ (~Unread => ~Unread' /\ UNCHANGED <<nets, listRead>>)
         /\ Unread' <=> Unread /\ ~(Loads(list) /\ want_caching)
         /\ Unread' => UNCHANGED <<nets, listRead>>
<1>1. CASE Reads /\ want_caching
  <2>1. nets' = Cached(list) /\ listRead' = list /\ Whole(list) BY <1>1 DEF read_netblocks, Reads, Whole, TypeOK
  <2>2. ~Unread' BY <2>1 DEF Unread, Cached
  <2>3. QED BY <1>1, <2>1, <2>2 DEF ListOK, Reads
<1>2. CASE ~(Reads /\ want_caching)
  <2>1. nets' = nets /\ listRead' = listRead BY <1>2 DEF read_netblocks
  <2>2. QED BY <1>2, <2>1 DEF ListOK, Unread, Reads
<1>3. QED BY <1>1, <1>2

LEMMA ListStep == ASSUME TypeOK, ListOK, [Next]_vars, ~libcrange_clear_caches PROVE ListOK' /\ (~Unread => ~Unread' /\ UNCHANGED <<nets, listRead>>)
<1>1. CASE UNCHANGED <<nets, listRead>> BY <1>1 DEF ListOK, Unread
<1>2. CASE read_netblocks BY <1>2, ListReads
<1>3. UNCHANGED <<nets, listRead>> \/ read_netblocks
  BY DEF Next, vars, ghosts, WriteDns, WriteList, libcrange_want_caching, Ask, BadArgument, ReadHosts, LongLine, BadList,
         Register, Done, Return, Place, LookUp, netblocks_for_dc
<1>4. QED BY <1>1, <1>2, <1>3

(* Placing a host, while what is built is to be kept. *)
LEMMA PlaceMakes ==
  ASSUME IInv, NEW h \in unplaced, Place(h), want_caching
  PROVE  Made(building', Placed', listRead', hosts', missed') /\ (Unread' => Placed' \subseteq missed')
<1> USE DEF IInv
<1>1. pc = "place" /\ read_netblocks /\ hosts' = hosts /\ unplaced' = unplaced \ {h} BY DEF Place
<1>2. h \in DOMAIN hosts /\ hosts[h] \in Address BY DEF TypeOK
<1>3. Placed' = Placed \union {h} /\ h \notin Placed BY <1>1, <1>2 DEF Placed
<1>4. Made(building, Placed, listRead, hosts, missed) /\ (Unread => Placed \subseteq missed) /\ h \notin missed
  BY <1>1, <1>3 DEF BuildOK
<1>5. ListOK' /\ (Unread' <=> Unread /\ ~Loads(list)) /\ (Unread' => UNCHANGED <<nets, listRead>>)
      /\ (~Unread => UNCHANGED <<nets, listRead>>)
  BY <1>1, ListReads
<1>6. missed' = IF Unread' THEN missed \union {h} ELSE missed BY <1>5 DEF Place
<1>7. \A g \in Placed : /\ Nets(listRead', hosts, missed', g) = Nets(listRead, hosts, missed, g)
                        /\ Nets(listRead, hosts, missed, g) # {} => listRead' = listRead
  <2>1. CASE Unread BY <1>4, <1>6, <2>1 DEF Nets
  <2>2. CASE ~Unread BY <1>3, <1>5, <1>6, <2>2 DEF Nets
  <2>3. QED BY <2>1, <2>2
<1>8. CASE Unread'
  <2>1. Netblocks = Empty BY <1>5, <1>8 DEF Netblocks, Reads
  <2>2. Lengths(Netblocks, hosts[h]) = {} BY <2>1 DEF Lengths, Empty
  <2>3. building' = building BY <2>2 DEF Place
  <2>4. Nets(listRead', hosts, missed', h) = {} BY <1>6, <1>8 DEF Nets
  <2>5. Made(building, Placed \union {h}, listRead', hosts, missed') BY <1>4, <1>7, <2>4, MadeSame
  <2>6. Placed' \subseteq missed' BY <1>3, <1>4, <1>5, <1>6, <1>8
  <2>7. QED BY <1>1, <1>3, <2>3, <2>5, <2>6
<1>9. CASE ~Unread'
  <2>1. Whole(listRead') /\ nets' = Cached(listRead')
    <3>1. nets' # Empty BY <1>9 DEF Unread, Empty
    <3>2. QED BY <1>5, <3>1 DEF ListOK
  <2>2. Netblocks = netcolo(listRead')
    <3>1. CASE Unread
      <4>1. Reads /\ listRead' = list BY <1>1, <1>5, <1>9, <3>1 DEF Reads, read_netblocks
      <4>2. QED BY <3>1, <4>1 DEF Netblocks
    <3>2. CASE ~Unread BY <1>5, <2>1, <3>2 DEF Netblocks, Cached
    <3>3. QED BY <3>1, <3>2
  <2> DEFINE lines == listRead'
             blocks == netcolo(lines)
             net == netcolo_for_ip(blocks, hosts[h])
  <2>3. Whole(lines) /\ lines \in ListFiles /\ Loads(lines) BY <2>1 DEF Whole
  <2>4. Nets(lines, hosts, missed', h) = Longest(lines, hosts[h]) BY <1>4, <1>6, <1>9 DEF Nets
  <2>5. building' = IF Lengths(blocks, hosts[h]) = {} THEN building ELSE Filled(h, net, blocks[net])
    BY <2>2 DEF Place
  <2> HIDE DEF lines, net
  <2>6. CASE Lengths(blocks, hosts[h]) = {}
    <3>1. Nets(lines, hosts, missed', h) = {} BY <1>2, <2>3, <2>4, <2>6, LongestIs
    <3>2. Made(building, Placed \union {h}, lines, hosts, missed') BY <1>4, <1>7, <3>1, MadeSame DEF lines
    <3>3. QED BY <1>1, <1>3, <1>9, <2>5, <2>6, <3>2 DEF lines
  <2>7. CASE Lengths(blocks, hosts[h]) # {}
    <3>1. Nets(lines, hosts, missed', h) = {net} BY <1>2, <2>3, <2>4, <2>7, LongestIs DEF net
    <3>2. Made(building, Placed, lines, hosts, missed') BY <1>4, <1>7, MadeSame DEF lines
    <3>3. building' = FilledWith(building, hosts, h, net, blocks[net]) BY <2>5, <2>7 DEF Filled, FilledWith
    <3>4. Made(building', Placed \union {h}, lines, hosts, missed') BY <1>3, <3>1, <3>2, <3>3, MadeFilled
    <3>5. QED BY <1>1, <1>3, <1>9, <3>4 DEF lines
  <2>8. QED BY <2>6, <2>7
<1>10. QED BY <1>8, <1>9

LEMMA BuildStep == ASSUME IInv, [Next]_vars, ~libcrange_clear_caches PROVE BuildOK'
<1> USE DEF IInv
<1>1. CASE ReadHosts
  <2>1. /\ unplaced' = DOMAIN hosts' /\ missed' = {} /\ pc' = "place" /\ fn' = fn /\ fn # "vlans_dc"
        /\ building' = [t \in Names |-> Empty] /\ UNCHANGED <<tables, listRead>> /\ Missing
    BY <1>1 DEF ReadHosts, Misses, call
  <2>2. tables = Empty BY <2>1, TablesAll DEF CallOK
  <2>3. Placed' = {} BY <2>1 DEF Placed
  <2>4. Made(building', {}, listRead', hosts', missed') BY <2>1 DEF Made, Names, Empty
  <2>5. QED BY <2>1, <2>2, <2>3, <2>4 DEF BuildOK
<1>2. ASSUME NEW h \in unplaced, Place(h) PROVE BuildOK'
  <2>1. /\ pc = "place" /\ pc' = "place" /\ UNCHANGED <<tables, fn, want_caching, hosts>> /\ unplaced' = unplaced \ {h}
        /\ missed' \subseteq missed \union {h}
    BY <1>2 DEF Place, call, environment
  <2>2. missed' \subseteq Placed'
    <3>1. missed \subseteq Placed /\ h \in DOMAIN hosts BY <2>1 DEF BuildOK, TypeOK
    <3>2. QED BY <2>1, <3>1 DEF Placed
  <2>3. QED BY <1>2, <2>1, <2>2, PlaceMakes DEF BuildOK
<1>3. CASE pc' # "place" BY <1>3 DEF BuildOK
<1>4. CASE UNCHANGED <<nets, tables, pc, call, init, ghosts, want_caching>>
  BY <1>4 DEF BuildOK, call, init, ghosts, Placed, Unread
<1>5. pc # "place" => pc' # "place" \/ ReadHosts
  BY DEF Next, vars, WriteDns, WriteList, libcrange_want_caching, Ask, BadArgument, LongLine, BadList, Register, Done, Return,
         Place, LookUp, netblocks_for_dc
<1>6. pc = "place" => pc' # "place" \/ (\E h \in unplaced : Place(h)) \/ UNCHANGED <<nets, tables, pc, call, init, ghosts, want_caching>>
  BY DEF Next, vars, WriteDns, WriteList, libcrange_want_caching, Ask, BadArgument, ReadHosts, Misses, Looping, LongLine,
         BadList, Register, Done, Return, LookUp, netblocks_for_dc, environment
<1>7. QED BY <1>1, <1>2, <1>3, <1>4, <1>5, <1>6

LEMMA TablesStep == ASSUME IInv, [Next]_vars, ~libcrange_clear_caches PROVE TablesOK' /\ (tables # Empty => tables' = tables)
<1> USE DEF IInv
<1>1. CASE Register /\ want_caching
  <2>1. /\ pc = "place" /\ unplaced = {} /\ tables' = building /\ UNCHANGED <<hosts, missed, listRead, nets>>
    BY <1>1 DEF Register, Kept, init, ghosts
  <2>2. Placed = DOMAIN hosts BY <2>1 DEF Placed
  <2>3. Made(building, DOMAIN hosts, listRead, hosts, missed) /\ (Unread => DOMAIN hosts \subseteq missed) /\ tables = Empty
    BY <1>1, <2>1, <2>2 DEF BuildOK
  <2>4. QED BY <2>1, <2>3 DEF TablesOK, Unread
<1>2. CASE UNCHANGED tables /\ tables = Empty BY <1>2 DEF TablesOK
<1>3. ASSUME tables # Empty, UNCHANGED <<tables, hosts, missed>>, ListOK', ~Unread => ~Unread' /\ UNCHANGED <<nets, listRead>>
      PROVE  TablesOK'
  <2>1. CASE ~Unread BY <1>3, <2>1 DEF TablesOK
  <2>2. CASE Unread
    <3>1. DOMAIN hosts \subseteq missed /\ Made(tables, DOMAIN hosts, listRead, hosts, missed) BY <1>3, <2>2 DEF TablesOK
    <3>2. \A h \in DOMAIN hosts : Nets(listRead', hosts, missed, h) = {} /\ Nets(listRead, hosts, missed, h) = {}
      BY <3>1 DEF Nets
    <3>3. Made(tables, DOMAIN hosts, listRead', hosts, missed) BY <3>1, <3>2, MadeSame
    <3>4. QED BY <1>3, <3>1, <3>3 DEF TablesOK
  <2>3. QED BY <2>1, <2>2
<1>4. ASSUME tables # Empty, ~(Register /\ want_caching) PROVE UNCHANGED <<tables, hosts, missed>>
  <2>1. ~ReadHosts BY <1>4, TablesAll DEF ReadHosts, Misses, CallOK
  <2>2. pc # "place" BY <1>4 DEF BuildOK
  <2>3. QED BY <1>4, <2>1, <2>2 DEF Next, vars, WriteDns, WriteList, libcrange_want_caching, Ask, BadArgument, LongLine,
         BadList, Register, Done, Return, Place, LookUp, netblocks_for_dc, init, ghosts
<1>5. tables = Empty /\ ~(Register /\ want_caching) => UNCHANGED tables
  BY DEF Next, vars, WriteDns, WriteList, libcrange_want_caching, Ask, BadArgument, ReadHosts, LongLine, BadList, Register,
         Done, Return, Place, LookUp, netblocks_for_dc
<1>6. tables # Empty => ~(Register /\ want_caching) BY DEF Register, BuildOK
<1>7. QED BY <1>1, <1>2, <1>3, <1>4, <1>5, <1>6, ListStep

(* The types of the tables being built; the other files' and the call's.   *)
BuiltOK ==
  /\ \A n \in DOMAIN building.hn :
       /\ n \in Address \union Short
       /\ building.hn[n] \in Block /\ building.hn[n].base = Masked(building.hn[n].base, building.hn[n].bits)
  /\ \A net \in DOMAIN building.nh : building.nh[net] \subseteq Short

LEMMA PlaceTypes == ASSUME IInv, NEW h \in unplaced, Place(h) PROVE BuiltOK'
<1> USE DEF IInv
<1> DEFINE net == netcolo_for_ip(Netblocks, hosts[h])
<1>1. BuiltOK /\ hosts' = hosts /\ h \in DOMAIN hosts /\ hosts[h] \in Address BY DEF TypeOK, Place, BuiltOK
<1>2. Short' = Short /\ ShortHostname(h) \in Short BY <1>1 DEF Short
<1>3. CASE Lengths(Netblocks, hosts[h]) = {}
  <2>1. building' = building BY <1>3 DEF Place
  <2>2. QED BY <1>1, <1>2, <2>1 DEF BuiltOK
<1>4. CASE Lengths(Netblocks, hosts[h]) # {}
  <2>1. building' = FilledWith(building, hosts, h, net, Netblocks[net]) BY <1>4 DEF Place, Filled, FilledWith
  <2>2. /\ DOMAIN building'.hn = DOMAIN building.hn \union {ShortHostname(h), hosts[h]}
        /\ \A n \in DOMAIN building'.hn :
             building'.hn[n] = net \/ (n \in DOMAIN building.hn /\ building'.hn[n] = building.hn[n])
    BY <2>1 DEF FilledWith, Put
  <2>3. \A b \in DOMAIN building'.nh :
          building'.nh[b] \subseteq (IF b \in DOMAIN building.nh THEN building.nh[b] ELSE {}) \union {ShortHostname(h)}
    BY <2>1 DEF FilledWith, AddTo, Put
  <2>4. net \in Block /\ net.base = Masked(net.base, net.bits)
    <3> DEFINE ls == Lengths(Netblocks, hosts[h])
    <3>1. Width \in Nat BY WidthAssumption DEF WidthAssumption
    <3>2. \A bits \in ls : bits \in 0..Width BY <3>1 DEF Lengths
    <3>3. ls \in SUBSET (0..Width) BY <3>2
    <3>4. Max(ls) \in ls
      <4> HIDE DEF ls
      <4>1. ls # {} BY <1>4 DEF ls
      <4>2. QED BY <3>1, <3>3, <4>1, MaxIs
    <3>5. net = [base |-> Masked(hosts[h], Max(ls)), bits |-> Max(ls)] BY DEF netcolo_for_ip, Taken
    <3>6. Max(ls) \in 0..Width BY <3>2, <3>4
    <3>7. Masked(hosts[h], Max(ls)) \in Address
          /\ Masked(Masked(hosts[h], Max(ls)), Max(ls)) = Masked(hosts[h], Max(ls))
      BY <1>1, <3>6, MaskedIs
    <3> HIDE DEF ls, net
    <3>8. QED BY <3>5, <3>6, <3>7 DEF Block
  <2> HIDE DEF net
  <2>5. \A n \in DOMAIN building'.hn :
          /\ n \in Address \union Short
          /\ building'.hn[n] \in Block /\ building'.hn[n].base = Masked(building'.hn[n].base, building'.hn[n].bits)
    BY <1>1, <1>2, <2>2, <2>4 DEF BuiltOK
  <2>6. \A b \in DOMAIN building'.nh : building'.nh[b] \subseteq Short BY <1>1, <1>2, <2>3 DEF BuiltOK
  <2>7. QED BY <1>2, <2>5, <2>6 DEF BuiltOK
<1>5. QED BY <1>3, <1>4

LEMMA BuiltStep == ASSUME IInv, [Next]_vars, ~libcrange_clear_caches PROVE BuiltOK'
<1> USE DEF IInv
<1>1. CASE UNCHANGED <<building, hosts>> BY <1>1 DEF TypeOK, BuiltOK, Short
<1>2. CASE ReadHosts
  <2>1. building' = [t \in Names |-> Empty] BY <1>2 DEF ReadHosts
  <2>2. DOMAIN building'.hn = {} /\ DOMAIN building'.nh = {} BY <2>1 DEF Names, Empty
  <2>3. QED BY <2>2 DEF BuiltOK
<1>3. ASSUME NEW h \in unplaced, Place(h) PROVE BuiltOK' BY <1>3, PlaceTypes
<1>4. UNCHANGED <<building, hosts>> \/ ReadHosts \/ \E h \in unplaced : Place(h)
  BY DEF Next, vars, init, WriteDns, WriteList, libcrange_want_caching, Ask, BadArgument, LongLine, BadList, Register, Done,
         Return, LookUp, netblocks_for_dc
<1>5. QED BY <1>1, <1>2, <1>3, <1>4

(* The addresses of the hosts, from lines that all fit. *)
LEMMA ReadTypes ==
  ASSUME TypeOK, ReadHosts PROVE \A h \in DOMAIN hosts' : hosts'[h] \in Address
<1>1. CASE dns = Unreadable BY <1>1 DEF ReadHosts, HostsNow, Empty
<1>2. CASE dns # Unreadable
  <2>1. /\ hosts' = HostsIp(dns) /\ Len(dns) \in Nat /\ DOMAIN dns = 1..Len(dns)
        /\ \A i \in DOMAIN dns : dns[i].ip \in Address
    BY <1>2, DnsAssumption DEF ReadHosts, HostsNow, DnsAssumption, TypeOK
  <2>2. ASSUME NEW h \in DOMAIN hosts' PROVE hosts'[h] \in Address
    <3> DEFINE S == {i \in DOMAIN dns : dns[i].host = h}
    <3>1. hosts'[h] = dns[Max(S)].ip /\ S # {} BY <2>1 DEF HostsIp
    <3>2. S \in SUBSET (0..Len(dns)) BY <2>1
    <3> HIDE DEF S
    <3>3. Max(S) \in S BY <2>1, <3>1, <3>2, MaxIs
    <3>4. QED BY <2>1, <3>1, <3>3 DEF S
  <2>3. QED BY <2>2
<1>3. QED BY <1>1, <1>2

LEMMA TypeStep == ASSUME IInv, [Next]_vars, ~libcrange_clear_caches PROVE TypeOK'
<1> USE DEF IInv
<1>1. dns' \in DnsFiles /\ list' \in ListFiles
  BY DEF TypeOK, Next, vars, environment, WriteDns, WriteList, libcrange_want_caching, Ask, BadArgument, ReadHosts, LongLine,
         BadList, Register, Done, Return, Place, LookUp, netblocks_for_dc
<1>2. {want_caching', steady'} \subseteq BOOLEAN
  BY DEF TypeOK, Next, vars, environment, WriteDns, WriteList, libcrange_want_caching, Ask, BadArgument, ReadHosts, LongLine,
         BadList, Register, Done, Return, Place, LookUp, netblocks_for_dc
<1>3. pc' \in {"idle", "loop", "place", "returned", "crashed"}
  BY DEF TypeOK, Next, vars, WriteDns, WriteList, libcrange_want_caching, Ask, BadArgument, ReadHosts, LongLine,
         BadList, Register, Done, Return, Place, LookUp, netblocks_for_dc
<1>4. /\ \A h \in DOMAIN hosts' : hosts'[h] \in Address
      /\ unplaced' \subseteq DOMAIN hosts' /\ missed' \subseteq DOMAIN hosts'
  <2>1. CASE UNCHANGED <<hosts, unplaced, missed>> BY <2>1 DEF TypeOK
  <2>2. CASE ReadHosts BY <2>2, ReadTypes DEF ReadHosts
  <2>3. ASSUME NEW h \in unplaced, Place(h)
        PROVE  /\ hosts' = hosts /\ unplaced' \subseteq DOMAIN hosts /\ missed' \subseteq DOMAIN hosts
    BY <2>3 DEF Place, TypeOK
  <2>4. UNCHANGED <<hosts, unplaced, missed>> \/ ReadHosts \/ \E h \in unplaced : Place(h)
    BY DEF Next, vars, init, ghosts, WriteDns, WriteList, libcrange_want_caching, Ask, BadArgument, LongLine, BadList,
           Register, Done, Return, LookUp, netblocks_for_dc
  <2>5. QED BY <2>1, <2>2, <2>3, <2>4 DEF TypeOK
<1>5. ~Unread' => DOMAIN nets'.netcolo \subseteq Block
  <2>1. ListOK' BY ListStep
  <2>2. CASE nets' = Empty BY <2>2 DEF Unread, Empty
  <2>3. CASE Whole(listRead') /\ nets' = Cached(listRead') BY <2>3, NetcoloIs DEF Whole, Cached
  <2>4. QED BY <2>1, <2>2, <2>3 DEF ListOK
<1>6. todo' \subseteq args' /\ warned' \subseteq args' \ todo'
  <2>1. ASSUME NEW table, NEW m \in todo, Answered(table, m), args' = args
        PROVE  todo' \subseteq args' /\ warned' \subseteq args' \ todo'
    BY <2>1 DEF Answered, TypeOK
  <2>2. ASSUME NEW m \in todo, LookUp(m) PROVE todo' \subseteq args' /\ warned' \subseteq args' \ todo'
    BY <2>1, <2>2 DEF LookUp
  <2>3. ASSUME NEW m \in todo, netblocks_for_dc(m) PROVE todo' \subseteq args' /\ warned' \subseteq args' \ todo'
    <3>1. args' = args /\ (UNCHANGED <<todo, warned>> \/ Answered(nets'.colonet, m)) BY <2>3 DEF netblocks_for_dc
    <3>2. QED BY <2>1, <3>1 DEF TypeOK
  <2>4. ASSUME NEW q \in Queries, Ask(q) PROVE todo' \subseteq args' /\ warned' \subseteq args' \ todo'
    BY <2>4 DEF Ask, CallOK
  <2>5. CASE Return BY <2>5 DEF Return, CallOK
  <2>6. CASE UNCHANGED call BY <2>6 DEF call, TypeOK
  <2>7. QED BY <2>2, <2>3, <2>4, <2>5, <2>6 DEF Next, vars, WriteDns, WriteList, libcrange_want_caching, BadArgument, ReadHosts,
          LongLine, BadList, Register, Done, Place
<1>7. QED BY <1>1, <1>2, <1>3, <1>4, <1>5, <1>6, BuiltStep DEF TypeOK, BuiltOK

LEMMA AnswersNone == ASSUME result = {}, warned = {} PROVE Answers({})
BY DEF Answers

LEMMA NoneAnswered == ASSUME Answers({}) PROVE result = {} /\ warned = {}
BY DEF Answers

LEMMA AnswersSame ==
  ASSUME NEW seen, Answers(seen), UNCHANGED <<fn, result, warned, hosts, missed, listRead>> PROVE Answers(seen)'
<1>1. \A m : Meaning(m)' = Meaning(m) BY MeaningSame
<1>2. QED BY <1>1 DEF Answers

LEMMA CallStep == ASSUME IInv, [Next]_vars, ~libcrange_clear_caches PROVE CallOK'
<1> USE DEF IInv
<1>0. TablesOK' /\ (tables # Empty => tables' = tables) /\ ListOK' /\ (~Unread => ~Unread' /\ UNCHANGED <<nets, listRead>>)
  BY TablesStep, ListStep
<1>1. ASSUME pc' = "crashed", UNCHANGED <<fn, args, todo>> PROVE CallOK' BY <1>1 DEF CallOK
<1>2. ASSUME NEW q \in Queries, Ask(q) PROVE CallOK'
  <2>1. /\ pc = "idle" /\ pc' = "loop" /\ fn' = q.fn /\ args' = q.args /\ todo' = q.args
        /\ result' = result /\ warned' = warned
    BY <1>2 DEF Ask
  <2>2. result' = {} /\ warned' = {} BY <2>1 DEF CallOK
  <2>3. Answers({})' BY <2>2 DEF Answers
  <2>4. q.fn \in Functions /\ (BadBlock \in q.args => q.fn = "hosts_v") BY QueryAssumption DEF QueryAssumption
  <2>5. args' \ todo' = {} BY <2>1
  <2>6. QED BY <2>1, <2>3, <2>4, <2>5 DEF CallOK
<1>3. ASSUME todo = args, result = {}, warned = {}, UNCHANGED call, pc' \in {"loop", "place", "crashed"} PROVE CallOK'
  <2>1. result' = {} /\ warned' = {} /\ args' \ todo' = {} /\ todo' = args' BY <1>3 DEF call
  <2>2. Answers({})' BY <2>1 DEF Answers
  <2>3. QED BY <1>3, <2>1, <2>2 DEF call, CallOK
<1>4. CASE ReadHosts
  <2>1. pc = "loop" /\ fn # "vlans_dc" /\ Missing /\ UNCHANGED call /\ pc' = "place" BY <1>4 DEF ReadHosts, Misses, Looping
  <2>2. tables = Empty BY <2>1, TablesAll DEF CallOK
  <2>3. todo = args BY <2>1, <2>2 DEF CallOK
  <2>4. Answers({}) BY <2>1, <2>3 DEF CallOK
  <2>5. QED BY <1>3, <2>1, <2>3, <2>4, NoneAnswered
<1>5. ASSUME pc = "place", UNCHANGED call, pc' \in {"loop", "place", "crashed"} PROVE CallOK'
  <2>1. todo = args /\ Answers({}) BY <1>5 DEF CallOK
  <2>2. QED BY <1>3, <1>5, <2>1, NoneAnswered
<1>6. ASSUME NEW m \in todo, LookUp(m) PROVE CallOK'
  <2>1. /\ pc = "loop" /\ pc' = "loop" /\ fn # "vlans_dc" /\ ~Missing /\ Answered(tables[Needed], m)
        /\ UNCHANGED <<fn, args, hosts, missed, listRead, tables>>
    BY <1>6 DEF LookUp, Looping, init, ghosts
  <2>2. tables # Empty BY <2>1, TablesAll DEF CallOK
  <2>3. Means(tables[Needed], m, Meaning(m)) BY <2>1, <2>2, TableMeans DEF CallOK
  <2>4. \A k : Meaning(k)' = Meaning(k) BY <2>1, MeaningSame
  <2>5. todo' \subseteq args' /\ Answers(args \ todo)' BY <2>1, <2>3, <2>4, AnsweredStep DEF CallOK
  <2>6. QED BY <2>1, <2>2, <2>5 DEF CallOK
<1>7. ASSUME NEW m \in todo, netblocks_for_dc(m) PROVE CallOK'
  <2>1. /\ pc = "loop" /\ fn = "vlans_dc" /\ UNCHANGED <<fn, args, hosts, missed, tables>>
        /\ IF "colonet" \notin DOMAIN nets' THEN pc' = "crashed" /\ UNCHANGED todo
           ELSE Answered(nets'.colonet, m) /\ pc' = pc
    BY <1>7 DEF netblocks_for_dc, Looping, init
  <2>2. CASE "colonet" \notin DOMAIN nets' BY <1>1, <2>1, <2>2
  <2>3. CASE "colonet" \in DOMAIN nets'
    <3>1. nets' # Empty BY <2>3 DEF Empty
    <3>2. nets' = Cached(listRead') /\ nets'.colonet = colonet(listRead') /\ ~Unread'
      BY <1>0, <3>1 DEF ListOK, Cached, Unread
    <3>3. Meaning(m)' = NetsAt(listRead', m) BY <2>1 DEF Meaning, MeaningOf, NetsAt
    <3>4. Means(colonet(listRead'), m, NetsAt(listRead', m)) BY <2>1, ListMeans
    <3>5. ASSUME NEW k \in args \ todo PROVE Meaning(k)' = Meaning(k)
      <4>1. ~Unread BY <2>1, <3>5 DEF CallOK
      <4>2. QED BY <1>0, <2>1, <4>1, MeaningSame
    <3>6. Answered(nets'.colonet, m) /\ pc' = pc BY <2>1, <2>3
    <3>7. todo' \subseteq args' /\ Answers(args \ todo)'
      BY <2>1, <3>2, <3>3, <3>4, <3>5, <3>6, AnsweredStep DEF CallOK
    <3>8. QED BY <2>1, <3>2, <3>6, <3>7 DEF CallOK
  <2>4. QED BY <2>2, <2>3
<1>8. ASSUME UNCHANGED <<call, hosts, missed, listRead, nets, tables>>, pc' = pc \/ Done PROVE CallOK'
  <2>1. pc # "crashed" \/ pc' = "crashed" BY <1>8 DEF Done
  <2>2. pc # "crashed" => Answers(args \ todo)' BY <1>8, AnswersSame DEF CallOK, call, Answers
  <2>3. pc' = pc \/ (pc = "loop" /\ todo = {} /\ pc' = "returned") BY <1>8 DEF Done
  <2>4. QED BY <1>8, <2>1, <2>2, <2>3 DEF CallOK, call, Unread
<1>9. CASE Return
  <2>1. pc = "returned" /\ pc' = "idle" /\ args' = {} /\ result' = {} /\ warned' = {} /\ todo' = todo /\ fn' = fn
    BY <1>9 DEF Return
  <2>2. todo' = {} /\ args' \ todo' = {} BY <2>1 DEF CallOK
  <2>3. Answers({})' BY <2>1 DEF Answers
  <2>4. QED BY <2>1, <2>2, <2>3 DEF CallOK
<1>10. ASSUME NEW h \in unplaced, Place(h) PROVE CallOK' BY <1>5, <1>10 DEF Place
<1>11. CASE Register BY <1>5, <1>11 DEF Register
<1>12. CASE BadArgument \/ LongLine \/ BadList BY <1>1, <1>12 DEF BadArgument, LongLine, BadList, call
<1>13. CASE WriteDns \/ WriteList \/ libcrange_want_caching \/ Done \/ UNCHANGED vars
  BY <1>8, <1>13 DEF WriteDns, WriteList, libcrange_want_caching, Done, vars, init, ghosts
<1>14. QED BY <1>2, <1>4, <1>6, <1>7, <1>9, <1>10, <1>11, <1>12, <1>13 DEF Next

LEMMA CrashStep == ASSUME IInv, [Next]_vars, ~libcrange_clear_caches PROVE CrashesOnly'
<1> USE DEF IInv
<1>0. fn \in Functions /\ todo \subseteq args /\ (BadBlock \in args => fn = "hosts_v") BY DEF CallOK
<1>1. CASE pc' # "crashed" BY <1>1 DEF CrashesOnly
<1>2. CASE BadArgument BY <1>0, <1>2 DEF BadArgument, call, CrashesOnly
<1>3. CASE LongLine
  <2>1. fn # "vlans_dc" /\ Missing /\ UNCHANGED <<environment, nets, tables, call>> BY <1>3 DEF LongLine, Misses
  <2>2. QED BY <1>3, <2>1 DEF LongLine, CrashesOnly, Missing, Needed, environment, call
<1>4. CASE BadList
  <2>1. Unread /\ Aborts(list) /\ UNCHANGED <<environment, nets, tables, call>> BY <1>4 DEF BadList
  <2>2. CASE fn = "vlans_dc"
    <3>1. ~Loads(list) BY <2>1 DEF Aborts, Loads
    <3>2. QED BY <2>1, <2>2, <3>1 DEF CrashesOnly, Unread, environment, call
  <2>3. CASE fn # "vlans_dc"
    <3>1. pc = "place" BY <1>4, <2>3 DEF BadList
    <3>2. Missing BY <1>0, <2>3, <3>1, TablesAll DEF BuildOK
    <3>3. QED BY <2>1, <2>3, <3>2 DEF CrashesOnly, Missing, Needed, Unread, environment, call
  <2>4. QED BY <2>2, <2>3
<1>5. CASE Register
  <2>1. pc = "place" /\ UNCHANGED <<environment, call>> /\ (pc' = "crashed" => ~want_caching /\ tables' = tables)
    BY <1>5 DEF Register
  <2>2. Missing /\ fn # "vlans_dc" BY <1>0, <2>1, TablesAll DEF BuildOK
  <2>3. QED BY <1>1, <2>1, <2>2 DEF CrashesOnly, Missing, Needed, environment, call
<1>6. ASSUME NEW m \in todo, netblocks_for_dc(m) PROVE CrashesOnly'
  <2>1. /\ fn = "vlans_dc" /\ read_netblocks /\ UNCHANGED <<environment, fn, args>>
        /\ pc' = "crashed" => "colonet" \notin DOMAIN nets'
    BY <1>6 DEF netblocks_for_dc, Looping
  <2>2. ASSUME pc' = "crashed" PROVE Unread' /\ (~want_caching \/ ~Loads(list))
    <3>1. ListOK' /\ (Unread' <=> Unread /\ ~(Loads(list) /\ want_caching)) BY <2>1, ListReads
    <3>2. Unread' BY <2>1, <2>2, <3>1 DEF ListOK, Unread, Cached, Empty
    <3>3. QED BY <3>1, <3>2
  <2>3. QED BY <2>1, <2>2 DEF CrashesOnly, environment
<1>7. CASE UNCHANGED vars BY <1>7 DEF CrashesOnly, vars, environment, call, Missing, Needed, Unread
<1>8. pc' # "crashed" \/ BadArgument \/ LongLine \/ BadList \/ Register \/ (\E m \in todo : netblocks_for_dc(m)) \/ UNCHANGED vars
  BY DEF Next, WriteDns, WriteList, libcrange_want_caching, Ask, ReadHosts, Done, Return, Place, LookUp, Looping
<1>9. QED BY <1>1, <1>2, <1>3, <1>4, <1>5, <1>6, <1>7, <1>8

(***************************************************************************)
(* Theorems.                                                               *)
(***************************************************************************)

LEMMA ClearInv == ASSUME IInv, libcrange_clear_caches PROVE IInv'
<1> USE DEF IInv
<1>1. /\ pc = "idle" /\ nets' = Empty /\ tables' = Empty /\ steady' = TRUE
      /\ hosts' = Empty /\ unplaced' = {} /\ building' = [t \in Names |-> Empty] /\ listRead' = <<>> /\ missed' = {}
      /\ UNCHANGED <<dns, list, want_caching, pc, fn, args, todo, result, warned>>
  BY DEF libcrange_clear_caches, Cleared, call
<1>2. TypeOK' BY <1>1 DEF TypeOK, Empty, Names, Unread
<1>3. ListOK' /\ BuildOK' /\ TablesOK' /\ CrashesOnly' BY <1>1 DEF ListOK, BuildOK, TablesOK, CrashesOnly
<1>4. result' = {} /\ warned' = {} /\ args' \ todo' = {} BY <1>1 DEF CallOK
<1>5. Answers({})' BY <1>4 DEF Answers
<1>6. CallOK' BY <1>1, <1>4, <1>5 DEF CallOK
<1>7. QED BY <1>2, <1>3, <1>6

LEMMA NextInv == IInv /\ [Next]_vars => IInv'
BY ClearInv, TypeStep, ListStep, BuildStep, TablesStep, CallStep, CrashStep DEF IInv

LEMMA AlwaysInv == Spec => []IInv
BY InitInv, NextInv, PTL DEF Spec

(* Every variable stays within its type: what is built has addresses and   *)
(* short names, and netblocks without a bit beyond their length.           *)
THEOREM TypeCorrect == Spec => []TypeOK
BY AlwaysInv, PTL DEF IInv

(* The four tables and the list always tell the same.                      *)
THEOREM AlwaysAgree == Spec => []TablesAgree
<1>1. IInv => TablesAgree BY MadeAgree DEF IInv
<1>2. QED BY <1>1, AlwaysInv, PTL

(* A call answers for all its arguments what the files said when they were *)
(* read, whatever they have become since, and warns about the others.      *)
THEOREM AlwaysExact == Spec => []AnswerExact
<1>1. ASSUME IInv PROVE AnswerExact
  <2> SUFFICES ASSUME pc = "returned" PROVE AnswerExact BY DEF AnswerExact
  <2>1. args \ todo = args BY <1>1 DEF IInv, CallOK
  <2>2. Answers(args) BY <1>1, <2>1 DEF IInv, CallOK
  <2>3. QED BY <2>2 DEF AnswerExact, AnswersFrom, Answers, Meaning
<1>2. QED BY <1>1, AlwaysInv, PTL

(* The program ends only for want of what it needs.                        *)
THEOREM AlwaysCrashesOnly == Spec => []CrashesOnly
BY AlwaysInv, PTL DEF IInv

(* What was read of files that have not changed since the caches were      *)
(* cleared is what they hold: every host, and all of the list or none.     *)
Gone(hs) == IF Loads(list) THEN {} ELSE hs
SteadyOK ==
  steady =>
    /\ ~Unread => listRead = list
    /\ tables # Empty => hosts = HostsNow /\ missed = Gone(DOMAIN hosts)
    /\ pc = "place" => hosts = HostsNow /\ missed = Gone(Placed)

LEMMA SteadyStep == ASSUME IInv, SteadyOK, [Next]_vars PROVE SteadyOK'
<1> USE DEF IInv
<1> SUFFICES ASSUME steady'
             PROVE  /\ ~Unread' => listRead' = list'
                    /\ tables' # Empty => hosts' = HostsNow' /\ missed' = Gone(DOMAIN hosts)'
                    /\ pc' = "place" => hosts' = HostsNow' /\ missed' = Gone(Placed)'
  BY DEF SteadyOK
<1>1. CASE libcrange_clear_caches
  <2>1. nets' = Empty /\ tables' = Empty /\ pc' = "idle" BY <1>1 DEF libcrange_clear_caches, Cleared
  <2>2. QED BY <2>1 DEF Unread, Empty
<1>2. CASE ~libcrange_clear_caches
  <2>1. steady /\ UNCHANGED <<dns, list>>
    BY <1>2 DEF Next, vars, environment, WriteDns, WriteList, libcrange_want_caching, Ask, BadArgument, ReadHosts, LongLine,
       BadList, Register, Done, Return, Place, LookUp, netblocks_for_dc
  <2>2. HostsNow' = HostsNow /\ \A hs : Gone(hs)' = Gone(hs) BY <2>1 DEF HostsNow, Gone
  <2>3. /\ ~Unread => listRead = list
        /\ tables # Empty => hosts = HostsNow /\ missed = Gone(DOMAIN hosts)
        /\ pc = "place" => hosts = HostsNow /\ missed = Gone(Placed)
    BY <2>1 DEF SteadyOK
  <2>4. ~Unread' => listRead' = list'
    <3>1. CASE UNCHANGED <<nets, listRead>> BY <2>1, <2>3, <3>1 DEF Unread
    <3>2. CASE read_netblocks /\ ~UNCHANGED <<nets, listRead>> BY <2>1, <3>2 DEF read_netblocks
    <3>3. UNCHANGED <<nets, listRead>> \/ read_netblocks
      BY <1>2 DEF Next, vars, ghosts, WriteDns, WriteList, libcrange_want_caching, Ask, BadArgument, ReadHosts, LongLine,
         BadList, Register, Done, Return, Place, LookUp, netblocks_for_dc
    <3>4. QED BY <3>1, <3>2, <3>3
  <2>5. CASE ReadHosts
    <3>1. /\ hosts' = HostsNow /\ missed' = {} /\ unplaced' = DOMAIN hosts' /\ UNCHANGED <<tables, fn>>
          /\ Missing /\ fn # "vlans_dc"
      BY <2>5 DEF ReadHosts, Misses, call
    <3>2. tables = Empty BY <3>1, TablesAll DEF CallOK
    <3>3. Placed' = {} BY <3>1 DEF Placed
    <3>4. Gone(Placed)' = {} BY <3>3 DEF Gone
    <3>5. QED BY <2>2, <2>4, <3>1, <3>2, <3>4
  <2>6. ASSUME NEW h \in unplaced, Place(h)
        PROVE  /\ tables' # Empty => hosts' = HostsNow' /\ missed' = Gone(DOMAIN hosts)'
               /\ pc' = "place" => hosts' = HostsNow' /\ missed' = Gone(Placed)'
    <3>1. /\ pc = "place" /\ UNCHANGED <<tables, hosts>> /\ unplaced' = unplaced \ {h} /\ h \in DOMAIN hosts
          /\ missed' = IF Unread /\ ~Loads(list) THEN missed \union {h} ELSE missed
      BY <2>6 DEF Place, TypeOK
    <3>2. tables = Empty BY <3>1 DEF BuildOK
    <3>3. ~Unread => Loads(list)
      <4>1. ~Unread => nets # Empty BY DEF Unread, Empty
      <4>2. QED BY <2>3, <4>1 DEF ListOK, Whole
    <3>4. Placed' = Placed \union {h} BY <3>1 DEF Placed
    <3>5. missed = Gone(Placed) /\ hosts = HostsNow BY <2>3, <3>1
    <3>6. missed' = Gone(Placed \union {h}) BY <3>1, <3>3, <3>5 DEF Gone
    <3>7. Gone(Placed)' = Gone(Placed \union {h}) BY <2>1, <3>4 DEF Gone
    <3>8. QED BY <2>2, <3>1, <3>2, <3>5, <3>6, <3>7
  <2>7. CASE Register
    <3>1. /\ pc = "place" /\ pc' # "place" /\ unplaced = {} /\ UNCHANGED <<hosts, missed>>
          /\ Gone(DOMAIN hosts)' = Gone(DOMAIN hosts)
      BY <2>1, <2>7 DEF Register, init, ghosts, Gone
    <3>2. Placed = DOMAIN hosts BY <3>1 DEF Placed
    <3>3. QED BY <2>2, <2>3, <2>4, <3>1, <3>2
  <2>8. CASE UNCHANGED <<hosts, missed, tables>> /\ (pc' = "place" => pc = "place" /\ unplaced' = unplaced)
    <3>1. Gone(DOMAIN hosts)' = Gone(DOMAIN hosts) BY <2>1, <2>8 DEF Gone
    <3>2. pc' = "place" => Gone(Placed)' = Gone(Placed) BY <2>1, <2>8 DEF Gone, Placed
    <3>3. QED BY <2>2, <2>3, <2>4, <2>8, <3>1, <3>2
  <2>9. \/ ReadHosts \/ Register \/ \E h \in unplaced : Place(h)
        \/ UNCHANGED <<hosts, missed, tables>> /\ (pc' = "place" => pc = "place" /\ unplaced' = unplaced)
    BY <1>2 DEF Next, vars, init, ghosts, WriteDns, WriteList, libcrange_want_caching, Ask, BadArgument, LongLine, BadList,
       Done, Return, LookUp, Looping, netblocks_for_dc
  <2>10. QED BY <2>4, <2>5, <2>6, <2>7, <2>8, <2>9
<1>3. QED BY <1>1, <1>2

(* So what a word means in what was read is what it means in the files.    *)
LEMMA MeansNow ==
  ASSUME IInv, SteadyOK, steady, pc = "returned", NEW m \in args
  PROVE  Meaning(m) = MeaningOf(LinesNow, HostsNow, {}, m)
<1> USE DEF IInv
<1>1. todo = {} /\ todo # args /\ fn \in Functions BY DEF CallOK
<1>2. ~Unread => listRead = list /\ Loads(list)
  <2>1. ~Unread => nets # Empty BY DEF Unread, Empty
  <2>2. QED BY <2>1 DEF SteadyOK, ListOK, Whole
<1>3. CASE fn = "vlans_dc"
  <2>1. listRead = LinesNow BY <1>1, <1>2, <1>3 DEF CallOK, LinesNow
  <2>2. QED BY <1>3, <2>1 DEF Meaning, MeaningOf
<1>4. CASE fn # "vlans_dc"
  <2>1. tables # Empty BY <1>1, <1>4 DEF CallOK
  <2>2. /\ hosts = HostsNow /\ missed = Gone(DOMAIN hosts)
        /\ Unread => DOMAIN hosts \subseteq missed
    BY <2>1 DEF SteadyOK, TablesOK
  <2>3. ASSUME NEW h \in DOMAIN hosts
        PROVE  /\ Nets(listRead, hosts, missed, h) = Nets(LinesNow, HostsNow, {}, h)
               /\ Colos(listRead, hosts, missed, h) = Colos(LinesNow, HostsNow, {}, h)
    <3>1. CASE Loads(list)
      <4>1. missed = {} /\ ~Unread BY <2>2, <2>3, <3>1 DEF Gone
      <4>2. listRead = LinesNow BY <1>2, <3>1, <4>1 DEF LinesNow
      <4>3. QED BY <2>2, <4>1, <4>2
    <3>2. CASE ~Loads(list)
      <4>1. Nets(listRead, hosts, missed, h) = {} BY <2>2, <3>2 DEF Gone, Nets
      <4>2. Nets(LinesNow, HostsNow, {}, h) = {} BY <3>2 DEF LinesNow, Nets, Longest, Around, Entries
      <4>3. QED BY <4>1, <4>2 DEF Colos
    <3>3. QED BY <3>1, <3>2
  <2>4. Known(hosts, m) \subseteq DOMAIN hosts BY DEF Known
  <2>5. CASE fn = "vlan" BY <2>2, <2>3, <2>4, <2>5 DEF Meaning, MeaningOf
  <2>6. CASE fn = "dc" BY <2>2, <2>3, <2>4, <2>6 DEF Meaning, MeaningOf
  <2>7. CASE fn = "hosts_v" BY <2>2, <2>3, <2>7 DEF Meaning, MeaningOf
  <2>8. CASE fn = "hosts_dc" BY <2>2, <2>3, <2>8 DEF Meaning, MeaningOf
  <2>9. QED BY <1>1, <1>4, <2>5, <2>6, <2>7, <2>8 DEF Functions
<1>5. QED BY <1>3, <1>4

(* When the files are what they were when the caches were cleared, every   *)
(* call answers what they say: nothing that was read before is left.       *)
THEOREM AlwaysCurrent == Spec => []CurrentWhenCleared
<1>1. Init => SteadyOK BY DEF Init, SteadyOK, Unread, Empty
<1>2. IInv /\ SteadyOK /\ [Next]_vars => SteadyOK' BY SteadyStep
<1>3. ASSUME IInv, SteadyOK PROVE CurrentWhenCleared
  <2> SUFFICES ASSUME pc = "returned", steady PROVE AnswersFrom(LinesNow, HostsNow, {}) BY DEF CurrentWhenCleared
  <2>1. Answers(args)
    <3>1. args \ todo = args BY <1>3 DEF IInv, CallOK
    <3>2. QED BY <1>3, <3>1 DEF IInv, CallOK
  <2>2. \A m \in args : Meaning(m) = MeaningOf(LinesNow, HostsNow, {}, m) BY <1>3, MeansNow
  <2>3. QED BY <2>1, <2>2 DEF AnswersFrom, Answers
<1>4. QED BY <1>1, <1>2, <1>3, AlwaysInv, PTL DEF Spec
=============================================================================
