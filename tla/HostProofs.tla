------------------------------ MODULE HostProofs ------------------------------
(***************************************************************************)
(* What the host library and the programs over it promise, for any         *)
(* stations, serial numbers, paths, handles, slots, lists of --id and      *)
(* backends: the cache never points at freed memory and tells the right    *)
(* serial number, a station is not opened for another, and a program uses  *)
(* no handle that it or a hid_exit has closed, and --settime sets the      *)
(* stations the user named.                                                *)
(*                                                                         *)
(* What a backend shows is true of what is plugged in (Node, Entry); so is *)
(* what cstbase_enumerate puts in the slots, until something is plugged    *)
(* (SlotsFresh), and the path hid_open has found (CallOK).  A program      *)
(* holds one handle at most at a time (Holds).                             *)
(* What --settime is at is the station the number in its word opens        *)
(* (Aimed), which is the one meant (Meant) or none (AimInv).               *)
(***************************************************************************)
EXTENDS HostPrograms, SequenceTheorems, FiniteSetTheorems, WellFoundedInduction, TLAPS

\* A set of numbers has a least one.
LEMMA LeastNumber == ASSUME NEW T \in SUBSET Nat, T # {} PROVE \E x \in T : \A y \in T : x <= y
  <1>1. PICK x \in T : \A y \in T : ~ (<<y, x>> \in OpToRel(<, Nat))
    BY NatLessThanWellFounded, WFMin, Zenon
  <1>2. \A a, y \in Nat : y < a => <<y, a>> \in OpToRel(<, Nat)
    BY DEF OpToRel
  <1>3. \A y \in T : ~(y < x)
    BY <1>1, <1>2, Zenon
  <1> QED BY <1>3

InOrder(f) == \A a, b \in DOMAIN f : a < b => f[a] < f[b]

\* A finite set of numbers can be put in order, so that Linked is what it says.
LEMMA OrderExists ==
    ASSUME NEW D \in SUBSET Nat, IsFiniteSet(D)
    PROVE  \E f \in [1..Cardinality(D) -> D] : InOrder(f)
  <1> DEFINE Ordered(E) == \E f \in [1..Cardinality(E) -> E] : InOrder(f)
             T == { n \in Nat : \E E \in SUBSET Nat : IsFiniteSet(E) /\ Cardinality(E) = n /\ ~Ordered(E) }
  <1>1. ASSUME T # {} PROVE FALSE
    <2>1. PICK n \in T : \A m \in T : n <= m
      BY <1>1, LeastNumber
    <2>2. PICK E \in SUBSET Nat : IsFiniteSet(E) /\ Cardinality(E) = n /\ ~Ordered(E)
      BY <2>1
    <2>3. CASE E = {}
      <3>1. Cardinality(E) = 0
        BY <2>3, FS_EmptySet
      <3>2. 1..0 = {}
        OBVIOUS
      <3>3. [x \in {} |-> x] \in [1..Cardinality(E) -> E] /\ InOrder([x \in {} |-> x])
        BY <2>3, <3>1, <3>2 DEF InOrder
      <3> QED  BY <2>2, <3>3
    <2>4. CASE E # {}
      <3>1. PICK x \in E : \A y \in E : x <= y
        BY <2>2, <2>4, LeastNumber
      <3> DEFINE R == E \ {x}
      <3>2. IsFiniteSet(R) /\ Cardinality(R) = n - 1 /\ R \in SUBSET Nat
        BY <2>2, FS_RemoveElement
      <3>3. n - 1 \in Nat
        BY <3>2, FS_CardinalityType
      <3>4. n \in Nat /\ n - 1 \notin T
        BY <2>1, <3>3
      <3>5. Ordered(R)
        BY <3>2, <3>3, <3>4
      <3>6. PICK g \in [1..(n - 1) -> R] : InOrder(g)
        BY <3>2, <3>5
      <3> DEFINE f == [k \in 1..n |-> IF k = 1 THEN x ELSE g[k - 1]]
      <3>7. \A k \in 1..n : k # 1 => k - 1 \in 1..(n - 1)
        BY <3>3
      <3>8. f \in [1..Cardinality(E) -> E]
        BY <2>2, <3>6, <3>7
      <3>9. ASSUME NEW a \in 1..n, NEW b \in 1..n, a < b PROVE f[a] < f[b]
        <4>1. b # 1 /\ b - 1 \in 1..(n - 1) /\ g[b - 1] \in R /\ f[b] = g[b - 1]
          BY <3>6, <3>7, <3>9
        <4>2. CASE a = 1
          <5>1. x <= g[b - 1] /\ x # g[b - 1] /\ x \in Nat /\ g[b - 1] \in Nat
            BY <2>2, <3>1, <4>1
          <5>2. f[a] = x
            BY <4>2
          <5> QED BY <4>1, <5>1, <5>2
        <4>3. CASE a # 1
          <5>1. a - 1 \in 1..(n - 1) /\ a - 1 < b - 1
            BY <3>7, <3>9, <4>3
          <5> QED  BY <3>6, <4>1, <4>3, <5>1 DEF InOrder
        <4> QED  BY <4>2, <4>3
      <3>10. InOrder(f)
        BY <3>9 DEF InOrder
      <3> QED  BY <2>2, <3>8, <3>10
    <2> QED  BY <2>3, <2>4
  <1>2. Cardinality(D) \in Nat
    BY FS_CardinalityType
  <1> QED  BY <1>1, <1>2

\* A chain is a sequence of entries that stood in the list, and no longer.
LEMMA LinkedProps ==
    ASSUME NEW S, NEW list \in Seq(S), NEW places \in SUBSET (1..Len(list))
    PROVE  /\ Linked(list, places) \in Seq(S) /\ Len(Linked(list, places)) <= Len(list)
           /\ \A k \in 1..Len(Linked(list, places)) : \E j \in places : Linked(list, places)[k] = list[j]
  <1> DEFINE n == Cardinality(places)
             order == CHOOSE f \in [1..n -> places] : \A a, b \in DOMAIN f : a < b => f[a] < f[b]
  <1>1. Len(list) \in Nat /\ \A j \in 1..Len(list) : list[j] \in S
    BY LenProperties, ElementOfSeq
  <1>2. IsFiniteSet(places) /\ n \in Nat /\ n <= Len(list) /\ places \in SUBSET Nat
    <2>1. IsFiniteSet(1..Len(list)) /\ Cardinality(1..Len(list)) = Len(list)
      <3> DEFINE m == Len(list)
      <3>1. m \in Nat /\ m \in Int /\ 1 \in Int
        BY <1>1
      <3> HIDE DEF m
      <3>2. IsFiniteSet(1..m) /\ Cardinality(1..m) = IF 1 > m THEN 0 ELSE m - 1 + 1
        BY <3>1, FS_Interval
      <3>3. Cardinality(1..m) = m
        BY <3>1, <3>2
      <3> QED  BY <3>2, <3>3 DEF m
    <2>2. IsFiniteSet(places) /\ n <= Cardinality(1..Len(list))
      BY <2>1, FS_Subset
    <2>3. n \in Nat
      BY <2>2, FS_CardinalityType
    <2> QED  BY <1>1, <2>1, <2>2, <2>3
  <1>3. order \in [1..n -> places]
    BY <1>2, OrderExists DEF InOrder
  <1>4. Linked(list, places) = [k \in DOMAIN order |-> list[order[k]]]
    BY DEF Linked
  <1> HIDE DEF order
  <1>5. Linked(list, places) \in [1..n -> S]
    BY <1>1, <1>3, <1>4
  <1>6. Linked(list, places) \in Seq(S) /\ Len(Linked(list, places)) = n
    BY <1>2, <1>5
  <1> QED  BY <1>2, <1>3, <1>4, <1>6
-----------------------------------------------------------------------------
\* What the system shows is true of the stations plugged in, and what the backends
\* make of it is, as far as they know a path or a serial number.
Node  == { r \in [dev : Plugged, path : Paths, serial : Nat, sight : Sights] :
             r.path = at[r.dev] /\ r.serial = Serial[r.dev] }
Entry == { e \in [path : Paths \cup {None}, serial : Nat \cup {None}] :
             \E d \in Plugged : e.path \in {at[d], None} /\ e.serial \in {Serial[d], EmptyStr, None} }

\* No two stations are plugged in at one place.
Placed == /\ at \in [Devices -> Paths \cup {None}]
          /\ \A d, e \in Devices : at[d] # None /\ at[d] = at[e] => d = e

\* Each node the system shows is a station plugged in, and none is shown twice.
LEMMA NodesAreTrue ==
    ASSUME Placed, NEW nodes \in Nodes
    PROVE  nodes \in Seq(Node) /\ Len(nodes) <= cache_max
  <1>1. PICK q \in SetToSeqs(Plugged), v \in [Plugged -> Sights] :
          nodes = [k \in DOMAIN q |-> [dev |-> q[k], path |-> at[q[k]], serial |-> Serial[q[k]], sight |-> v[q[k]]]]
    BY DEF Nodes
  <1>2. /\ IsFiniteSet(Plugged) /\ Cardinality(Plugged) <= Cardinality(Devices)
        /\ Cardinality(Plugged) \in Nat /\ Cardinality(Devices) \in Nat
        /\ cache_max \in Nat /\ Cardinality(Devices) <= cache_max
    BY CacheAssumption, FS_Subset, FS_CardinalityType DEF Plugged
  <1>3. q \in [1..Cardinality(Plugged) -> Plugged]
    BY <1>1 DEF SetToSeqs
  <1>4. \A d \in Plugged : at[d] \in Paths /\ Serial[d] \in Nat
    BY CacheAssumption DEF Plugged, Placed
  <1>5. ASSUME NEW k \in 1..Cardinality(Plugged)
        PROVE  nodes[k] \in Node
    <2>1. q[k] \in Plugged /\ v[q[k]] \in Sights
      BY <1>1, <1>3
    <2>2. nodes[k] = [dev |-> q[k], path |-> at[q[k]], serial |-> Serial[q[k]], sight |-> v[q[k]]]
      BY <1>1, <1>3
    <2> QED  BY <1>4, <2>1, <2>2 DEF Node
  <1>6. nodes \in [1..Cardinality(Plugged) -> Node]
    BY <1>1, <1>3, <1>5
  <1>7. nodes \in Seq(Node) /\ Len(nodes) = Cardinality(Plugged)
    BY <1>2, <1>6
  <1> QED  BY <1>2, <1>7

\* No backend lists a path or a serial number that no station plugged in has.
LEMMA EntriesAreTrue ==
    ASSUME Placed, NEW nodes \in Nodes
    PROVE  HidEnumerate(platform, nodes) \in Seq(Entry) /\ Len(HidEnumerate(platform, nodes)) <= cache_max
  <1> DEFINE seen(shown) == Linked(nodes, { k \in DOMAIN nodes : nodes[k].sight \in shown })
             Made(shown, f) == /\ DOMAIN f = DOMAIN seen(shown)
                               /\ \A k \in DOMAIN f : f[k] \in Entry
  <1>1. nodes \in Seq(Node) /\ Len(nodes) \in Nat /\ Len(nodes) <= cache_max /\ DOMAIN nodes = 1..Len(nodes) /\ cache_max \in Nat
    BY NodesAreTrue, LenProperties, CacheAssumption
  <1>2. ASSUME NEW shown
        PROVE  /\ seen(shown) \in Seq(Node) /\ DOMAIN seen(shown) = 1..Len(seen(shown)) /\ Len(seen(shown)) \in Nat
               /\ Len(seen(shown)) <= cache_max
               /\ \A k \in DOMAIN seen(shown) : seen(shown)[k] \in Node
    <2>1. { k \in DOMAIN nodes : nodes[k].sight \in shown } \in SUBSET (1..Len(nodes))
      BY <1>1
    <2>2. seen(shown) \in Seq(Node) /\ Len(seen(shown)) <= Len(nodes)
      BY <1>1, <2>1, LinkedProps
    <2>3. Len(seen(shown)) \in Nat /\ DOMAIN seen(shown) = 1..Len(seen(shown))
      BY <2>2, LenProperties
    <2> HIDE DEF seen
    <2> QED  BY <1>1, <2>2, <2>3, ElementOfSeq
  <1> HIDE DEF seen
  <1>3. ASSUME NEW shown, NEW f, f = [k \in DOMAIN f |-> f[k]], Made(shown, f)
        PROVE  f \in Seq(Entry) /\ Len(f) <= cache_max
    <2>1. f \in [1..Len(seen(shown)) -> Entry]
      BY <1>2, <1>3
    <2> QED  BY <1>2, <2>1
  <1>4. \A n \in Node : /\ [path |-> make_path(n), serial |-> LibusbString(n)] \in Entry
                        /\ [path |-> MacPath(n), serial |-> PropertyString(n)] \in Entry
                        /\ [path |-> make_path(n), serial |-> PropertyString(n)] \in Entry
                        /\ [path |-> make_path(n), serial |-> WindowsString(n)] \in Entry
    BY DEF Node, Entry, make_path, LibusbString, MacPath, PropertyString, WindowsString, EmptyStr
  <1> HIDE DEF Made
  <1>5. LibusbLists(nodes) \in Seq(Entry) /\ Len(LibusbLists(nodes)) <= cache_max
    <2> DEFINE sh == {"whole", "shut", "nameless"}
    <2>1. LibusbLists(nodes) = [k \in DOMAIN seen(sh) |-> [path |-> make_path(seen(sh)[k]), serial |-> LibusbString(seen(sh)[k])]]
      BY DEF LibusbLists, Entries, seen
    <2> HIDE DEF sh
    <2> QED  BY <1>2, <1>3, <1>4, <2>1 DEF Made
  <1>6. MacLists(nodes) \in Seq(Entry) /\ Len(MacLists(nodes)) <= cache_max
    <2>1. MacLists(nodes) = [k \in DOMAIN seen(Sights) |-> [path |-> MacPath(seen(Sights)[k]), serial |-> PropertyString(seen(Sights)[k])]]
      BY DEF MacLists, Entries, seen
    <2> QED  BY <1>2, <1>3, <1>4, <2>1 DEF Made
  <1>7. LinuxLists(nodes) \in Seq(Entry) /\ Len(LinuxLists(nodes)) <= cache_max
    <2> DEFINE sh == {"whole", "shut", "nameless"}
    <2>1. LinuxLists(nodes) = [k \in DOMAIN seen(sh) |-> [path |-> make_path(seen(sh)[k]), serial |-> PropertyString(seen(sh)[k])]]
      BY DEF LinuxLists, Entries, seen
    <2> HIDE DEF sh
    <2> QED  BY <1>2, <1>3, <1>4, <2>1 DEF Made
  <1>8. WindowsLists(nodes) \in Seq(Entry) /\ Len(WindowsLists(nodes)) <= cache_max
    <2> DEFINE sh == {"whole", "nameless"}
    <2>1. WindowsLists(nodes) = [k \in DOMAIN seen(sh) |-> [path |-> make_path(seen(sh)[k]), serial |-> WindowsString(seen(sh)[k])]]
      BY DEF WindowsLists, Entries, seen
    <2> HIDE DEF sh
    <2> QED  BY <1>2, <1>3, <1>4, <2>1 DEF Made
  <1> QED  BY <1>5, <1>6, <1>7, <1>8 DEF HidEnumerate

\* A search gives the path of an entry that has the serial number.
LEMMA SearchFinds ==
    ASSUME NEW list \in Seq(Entry), NEW s
    PROVE  \/ Search(list, s) \in {"absent", "crash"}
           \/ \E k \in 1..Len(list) : list[k].serial = s /\ s # None /\ Search(list, s) = list[k].path
  <1> DEFINE I == { k \in 1..Len(list) : list[k].serial \in {s, None} }
             j == SelectInSeq(list, LAMBDA e : e.serial \in {s, None})
  <1>1. j = IF I # {} THEN Min(I) ELSE 0
    BY DEF SelectInSeq
  <1>2. I \in SUBSET Nat
    BY LenProperties
  <1>3. I # {} => Min(I) \in I
    BY <1>2, LeastNumber DEF Min
  <1>4. j # 0 => j \in 1..Len(list) /\ list[j].serial \in {s, None}
    BY <1>1, <1>3
  <1>5. Search(list, s) = IF j = 0 THEN "absent" ELSE IF list[j].serial = None THEN "crash" ELSE list[j].path
    BY DEF Search
  <1> QED  BY <1>4, <1>5

\* What is opened by a path is the station that is there; mac opens one it knows
\* no path of by the empty path.
LEMMA OpensWhatIsThere ==
    ASSUME Placed, NEW nodes \in Nodes, NEW p, NEW n \in HidOpenPath(platform, nodes, p)
    PROVE  n \in Node /\ (p # None => at[n.dev] = p) /\ (p = None => platform = "mac")
  <1>1. nodes \in Seq(Node) /\ DOMAIN nodes = 1..Len(nodes) /\ Len(nodes) \in Nat /\ \A k \in 1..Len(nodes) : nodes[k] \in Node
    BY NodesAreTrue, LenProperties, ElementOfSeq
  <1>2. ToSet(nodes) \subseteq Node
    BY <1>1 DEF ToSet
  <1>3. \A m \in Node : m.path = at[m.dev]
    BY DEF Node
  <1>4. CASE n \in LibusbOpens(nodes, p) \/ n \in LinuxOpens(nodes, p) \/ n \in WindowsOpens(nodes, p)
    <2>1. n \in Node /\ n.path = p
      BY <1>2, <1>4 DEF LibusbOpens, LinuxOpens, WindowsOpens
    <2>2. p # None
      BY <2>1, CacheAssumption DEF Node
    <2> QED  BY <1>3, <2>1, <2>2
  <1>5. CASE platform = "mac" /\ n \in MacOpens(nodes, p)
    <2> DEFINE I == { k \in 1..Len(nodes) : MacPath(nodes[k]) = p }
               j == SelectInSeq(nodes, LAMBDA m : MacPath(m) = p)
    <2>1. j = IF I # {} THEN Min(I) ELSE 0
      BY DEF SelectInSeq
    <2>6. I \in SUBSET Nat
      BY <1>1
    <2>2. I # {} => Min(I) \in I
      BY <2>6, LeastNumber DEF Min
    <2>3. MacOpens(nodes, p) = IF j = 0 THEN {} ELSE { m \in {nodes[j]} : m.sight # "shut" }
      BY DEF MacOpens
    <2>4. j # 0 /\ n = nodes[j]
      BY <1>5, <2>3
    <2>5. j \in 1..Len(nodes) /\ MacPath(nodes[j]) = p
      BY <2>1, <2>2, <2>4
    <2> HIDE DEF j
    <2> QED  BY <1>1, <1>3, <1>5, <2>4, <2>5 DEF MacPath
  <1> QED  BY <1>4, <1>5 DEF HidOpenPath
-----------------------------------------------------------------------------
SlotType == [dev : Handles \cup {None}, path : Paths \cup {None}, serial : Nat]

\* A slot that was filled tells of a station plugged in.
Tells(slot) == \E d \in Plugged : slot.path \in {at[d], None} /\ slot.serial \in {Serial[d], EmptyStr}

\* What fills the slots fits in them and tells of stations plugged in.
LEMMA FoundIsTrue ==
    ASSUME Placed, NEW nodes \in Nodes
    PROVE  /\ Len(Found(nodes)) \in 0..cache_max
           /\ \A k \in 1..Len(Found(nodes)) :
                 /\ Found(nodes)[k].path \in Paths \cup {None} /\ Found(nodes)[k].serial \in Nat
                 /\ Tells(Found(nodes)[k])
  <1> DEFINE list == HidEnumerate(platform, nodes)
             places == { k \in DOMAIN list : list[k].serial # None }
             found == Linked(list, places)
  <1>1. list \in Seq(Entry) /\ Len(list) <= cache_max /\ DOMAIN list = 1..Len(list) /\ Len(list) \in Nat
    BY EntriesAreTrue, LenProperties
  <1>2. Found(nodes) = found
    BY DEF Found
  <1> HIDE DEF list
  <1>3. /\ places \in SUBSET (1..Len(list)) /\ cache_max \in Nat
        /\ \A m \in places : list[m].serial # None
    BY <1>1, CacheAssumption
  <1> HIDE DEF places
  <1>4. /\ found \in Seq(Entry) /\ Len(found) <= Len(list)
        /\ \A k \in 1..Len(found) : \E m \in places : found[k] = list[m]
    BY <1>1, <1>3, LinkedProps
  <1> HIDE DEF found
  <1>5. Len(found) \in 0..cache_max /\ \A k \in 1..Len(found) : found[k] \in Entry
    BY <1>1, <1>3, <1>4, LenProperties, ElementOfSeq
  <1>6. \A k \in 1..Len(found) : found[k].serial # None
    BY <1>3, <1>4
  <1>7. ASSUME NEW e \in Entry, e.serial # None
        PROVE  e.path \in Paths \cup {None} /\ e.serial \in Nat /\ Tells(e)
    BY <1>7 DEF Entry, Tells
  <1> QED  BY <1>2, <1>5, <1>6, <1>7

\* The sort moves the slots that were filled among themselves.
LEMMA SortMoves ==
    ASSUME NEW slots, NEW n \in 0..cache_max, NEW s \in Sorted(slots, n)
    PROVE  /\ s = [k \in Slots |-> s[k]]
           /\ \E m \in [Slots -> Slots] :
                 /\ \A k \in Slots : s[k] = slots[m[k]] /\ (k < n => m[k] < n)
                 /\ \A j, k \in Slots : m[j] = m[k] => j = k
  <1>1. cache_max \in Nat /\ n \in Nat /\ n <= cache_max
    BY CacheAssumption
  <1>2. PICK q \in SetToSeqs(0..(n - 1)) : s = [k \in Slots |-> IF k < n THEN slots[q[k + 1]] ELSE slots[k]]
    BY DEF Sorted
  <1>3. Cardinality(0..(n - 1)) = n
    <2>1. 0 \in Int /\ n - 1 \in Int
      BY <1>1
    <2>2. Cardinality(0..(n - 1)) = IF 0 > n - 1 THEN 0 ELSE (n - 1) - 0 + 1
      BY <2>1, FS_Interval
    <2> QED  BY <1>1, <2>2
  <1>4. q \in [1..n -> 0..(n - 1)] /\ \A j, k \in 1..n : j # k => q[j] # q[k]
    BY <1>2, <1>3 DEF SetToSeqs
  <1> DEFINE m == [k \in Slots |-> IF k < n THEN q[k + 1] ELSE k]
  <1>5. \A k \in Slots : k < n => k + 1 \in 1..n /\ q[k + 1] \in 0..(n - 1)
    BY <1>1, <1>4 DEF Slots
  <1>6. m \in [Slots -> Slots]
    BY <1>1, <1>5 DEF Slots
  <1>7. \A k \in Slots : s[k] = slots[m[k]] /\ (k < n => m[k] < n)
    BY <1>1, <1>2, <1>5
  <1>8. ASSUME NEW j \in Slots, NEW k \in Slots, m[j] = m[k]
        PROVE  j = k
    <2>1. CASE j < n /\ k < n
      <3>1. j + 1 = k + 1
        BY <1>4, <1>5, <1>8, <2>1
      <3> QED  BY <3>1 DEF Slots
    <2>2. CASE ~(j < n) /\ ~(k < n)
      BY <1>8, <2>2
    <2>3. CASE j < n /\ ~(k < n)
      BY <1>1, <1>5, <1>8, <2>3 DEF Slots
    <2>4. CASE ~(j < n) /\ k < n
      BY <1>1, <1>5, <1>8, <2>4 DEF Slots
    <2> QED  BY <2>1, <2>2, <2>3, <2>4
  <1> HIDE DEF m
  <1>9. s = [k \in Slots |-> s[k]]
    BY <1>2
  <1> QED  BY <1>6, <1>7, <1>8, <1>9
-----------------------------------------------------------------------------
\* The variables of the cache, without the call that is under way.
CacheTypes == /\ cstbase_infos \in [Slots -> SlotType] /\ cstbase_cached_count \in 0..cache_max
              /\ of \in [Handles -> Devices \cup {None}]
              /\ current \in BOOLEAN /\ listed \subseteq Open

\* What cstbase_enumerate has filled stays true while nothing is plugged.
SlotsFresh == current /\ platform # "hiddata" =>
                 \A k \in 0..(cstbase_cached_count - 1) : Tells(cstbase_infos[k])

ListedOK == \A h \in listed : \A k \in Slots :
               cstbase_infos[k].dev = h => cstbase_infos[k].serial \in {Serial[of[h]], EmptyStr}

CacheInv == CacheTypes /\ Placed /\ NoDanglingHandle /\ SlotsFresh /\ ListedOK

\* The station at the path that hid_open has found, if one is there, is the one asked
\* for, unless it has been plugged in there since.
CallOK == /\ call \in [serial : Nat \cup {None}, path : Paths \cup {None}, undisturbed : BOOLEAN]
          /\ current => call.undisturbed
          /\ call # NoCall => call.serial # EmptyStr
          /\ call.undisturbed /\ call.path # None =>
                \A d \in Plugged : at[d] = call.path => call.serial \in {EmptyStr, Serial[d]}

\* A slot that is searched by path, serial number or handle is one that has it.
LEMMA Indices ==
    /\ None \notin Slots
    /\ \A p : /\ IndexByPath(p) \in Slots \cup {None}
              /\ IndexByPath(p) # None => cstbase_infos[IndexByPath(p)].path = p
    /\ \A s : /\ IndexBySerial(s) \in Slots \cup {None}
              /\ IndexBySerial(s) # None => cstbase_infos[IndexBySerial(s)].serial = s
    /\ \A h : /\ IndexByDev(h) \in Slots \cup {None}
              /\ IndexByDev(h) # None => cstbase_infos[IndexByDev(h)].dev = h
              /\ IndexByDev(h) = None => \A k \in Slots : cstbase_infos[k].dev # h
  <1>1. Slots \in SUBSET Nat /\ None \notin Slots
    BY CacheAssumption DEF Slots
  <1>2. ASSUME NEW p
        PROVE  /\ IndexByPath(p) \in Slots \cup {None}
               /\ IndexByPath(p) # None => cstbase_infos[IndexByPath(p)].path = p
    <2> DEFINE T == { k \in Slots : cstbase_infos[k].path = p }
    <2>1. T \in SUBSET Nat /\ (T # {} => \E x \in T : \A y \in T : x <= y)
      BY <1>1, LeastNumber
    <2>2. IndexByPath(p) = IF \E k \in Slots : cstbase_infos[k].path = p
                           THEN CHOOSE k \in Slots : cstbase_infos[k].path = p /\ \A j \in Slots : cstbase_infos[j].path = p => k <= j
                           ELSE None
      BY DEF IndexByPath, First
    <2> QED  BY <2>1, <2>2
  <1>3. ASSUME NEW s
        PROVE  /\ IndexBySerial(s) \in Slots \cup {None}
               /\ IndexBySerial(s) # None => cstbase_infos[IndexBySerial(s)].serial = s
    <2> DEFINE T == { k \in Slots : cstbase_infos[k].serial = s }
    <2>1. T \in SUBSET Nat /\ (T # {} => \E x \in T : \A y \in T : x <= y)
      BY <1>1, LeastNumber
    <2>2. IndexBySerial(s) = IF \E k \in Slots : cstbase_infos[k].serial = s
                             THEN CHOOSE k \in Slots : cstbase_infos[k].serial = s /\ \A j \in Slots : cstbase_infos[j].serial = s => k <= j
                             ELSE None
      BY DEF IndexBySerial, First
    <2> QED  BY <2>1, <2>2
  <1>4. ASSUME NEW h
        PROVE  /\ IndexByDev(h) \in Slots \cup {None}
               /\ IndexByDev(h) # None => cstbase_infos[IndexByDev(h)].dev = h
               /\ IndexByDev(h) = None => \A k \in Slots : cstbase_infos[k].dev # h
    <2> DEFINE T == { k \in Slots : cstbase_infos[k].dev = h }
    <2>1. T \in SUBSET Nat /\ (T # {} => \E x \in T : \A y \in T : x <= y)
      BY <1>1, LeastNumber
    <2>2. IndexByDev(h) = IF \E k \in Slots : cstbase_infos[k].dev = h
                          THEN CHOOSE k \in Slots : cstbase_infos[k].dev = h /\ \A j \in Slots : cstbase_infos[j].dev = h => k <= j
                          ELSE None
      BY DEF IndexByDev, First
    <2> QED  BY <1>1, <2>1, <2>2
  <1> QED  BY <1>1, <1>2, <1>3, <1>4

\* cstbase_enumerate: the slots are filled, sorted, and keep their handles.
LEMMA EnumerateStep ==
    ASSUME CacheInv, Enumerate
    PROVE  CacheInv'
  <1>1. PICK nodes \in Nodes :
           /\ cstbase_cached_count' = Len(Found(nodes))
           /\ cstbase_infos' \in Sorted(Filled(Found(nodes)), Len(Found(nodes)))
    BY DEF Enumerate
  <1> DEFINE found == Found(nodes)
             n == Len(found)
             slots == Filled(found)
  <1>2. /\ current' = TRUE /\ listed' = {} /\ UNCHANGED <<platform, at, of>>
        /\ Placed /\ of \in [Handles -> Devices \cup {None}]
        /\ cstbase_infos \in [Slots -> SlotType] /\ NoDanglingHandle
    BY DEF Enumerate, system, CacheInv, CacheTypes
  <1>3. /\ n \in 0..cache_max
        /\ \A k \in 1..n : found[k].path \in Paths \cup {None} /\ found[k].serial \in Nat /\ Tells(found[k])
    BY <1>2, FoundIsTrue
  <1>4. PICK m \in [Slots -> Slots] :
           /\ \A k \in Slots : cstbase_infos'[k] = slots[m[k]] /\ (k < n => m[k] < n)
           /\ \A j, k \in Slots : m[j] = m[k] => j = k
    BY <1>1, <1>3, SortMoves
  <1>5. cstbase_infos' = [k \in Slots |-> cstbase_infos'[k]]
    BY <1>1, <1>3, SortMoves
  <1>6. \A k \in Slots : slots[k] = IF k < n THEN [cstbase_infos[k] EXCEPT !.path = found[k + 1].path, !.serial = found[k + 1].serial]
                                             ELSE cstbase_infos[k]
    BY DEF Filled
  <1>7. \A k \in Slots : k < n => k + 1 \in 1..n
    BY <1>3, CacheAssumption DEF Slots
  <1> HIDE DEF found, n, slots
  <1>8. ASSUME NEW k \in Slots
        PROVE  /\ slots[k] \in SlotType /\ slots[k].dev = cstbase_infos[k].dev
               /\ k < n => slots[k].path = found[k + 1].path /\ slots[k].serial = found[k + 1].serial
    BY <1>2, <1>3, <1>6, <1>7 DEF SlotType
  <1>9. ASSUME NEW k \in Slots, k < n PROVE Tells(slots[k])
    BY <1>3, <1>7, <1>8, <1>9 DEF Tells
  <1>10. cstbase_infos' \in [Slots -> SlotType]
    BY <1>4, <1>5, <1>8
  <1>11. CacheTypes'
    BY <1>1, <1>2, <1>3, <1>10 DEF CacheTypes, SlotType, Slots, n, found
  <1>12. Open' = Open
    BY <1>2 DEF Open
  <1>13. NoDanglingHandle'
    <2>1. \A k \in Slots : cstbase_infos'[k].dev = cstbase_infos[m[k]].dev
      BY <1>4, <1>8
    <2>2. \A k \in Slots : m[k] \in Slots
      OBVIOUS
    <2>3. \A k \in Slots : cstbase_infos'[k].dev # None => cstbase_infos'[k].dev \in Open'
      BY <1>2, <1>12, <2>1, <2>2 DEF NoDanglingHandle
    <2>4. ASSUME NEW j \in Slots, NEW k \in Slots, cstbase_infos'[j].dev = cstbase_infos'[k].dev, j # k
          PROVE  cstbase_infos'[j].dev = None
      <3>1. m[j] # m[k]
        BY <1>4, <2>4
      <3> QED  BY <1>2, <2>1, <2>2, <2>4, <3>1 DEF NoDanglingHandle
    <2> QED  BY <2>3, <2>4 DEF NoDanglingHandle
  <1>14. SlotsFresh'
    <2>1. \A k \in 0..(n - 1) : k \in Slots /\ k < n
      BY <1>3, CacheAssumption DEF Slots
    <2>2. \A k \in 0..(n - 1) : Tells(cstbase_infos'[k])
      BY <1>4, <1>9, <2>1
    <2>3. cstbase_cached_count' = n
      BY <1>1 DEF n, found
    <2>4. \A slot : Tells(slot)' <=> Tells(slot)
      BY <1>2 DEF Tells, Plugged
    <2> QED  BY <2>2, <2>3, <2>4 DEF SlotsFresh, Tells, Plugged
  <1>15. Placed' /\ ListedOK'
    BY <1>2 DEF Placed, ListedOK
  <1> QED  BY <1>11, <1>13, <1>14, <1>15 DEF CacheInv

\* An open changes no more of the open handles than this.
Grows == Open' = Open \/ \E h \in Handles \ Open : Open' = Open \cup {h}

\* Opening by a path, if slot and call tell of the station that is there.
LEMMA OpenStep ==
    ASSUME CacheInv, NEW p \in Paths \cup {None}, NEW k \in Slots \cup {None},
           Opens(p, k) \/ Fails(k), UNCHANGED <<system, cstbase_cached_count>>,
           k # None /\ p # None /\ current /\ k < cstbase_cached_count =>
               \A d \in Plugged : at[d] = p => cstbase_infos[k].serial \in {Serial[d], EmptyStr}
    PROVE  CacheInv' /\ (current' => current) /\ Grows
  <1>1. /\ UNCHANGED <<platform, at, cstbase_cached_count>>
        /\ cstbase_infos \in [Slots -> SlotType] /\ of \in [Handles -> Devices \cup {None}]
        /\ listed \subseteq Open /\ None \notin Handles /\ None \notin Devices /\ None \notin Slots
        /\ current \in BOOLEAN /\ Slots = 0..(cstbase_cached_count - 1) \cup cstbase_cached_count..(cache_max - 1)
    <2>1. cache_max \in Nat /\ cstbase_cached_count \in Nat /\ cstbase_cached_count <= cache_max
      BY CacheAssumption DEF CacheInv, CacheTypes
    <2>2. Slots = 0..(cstbase_cached_count - 1) \cup cstbase_cached_count..(cache_max - 1)
      BY <2>1 DEF Slots
    <2>3. current \in BOOLEAN
      BY DEF CacheInv, CacheTypes
    <2> QED  BY <2>2, <2>3, Indices, CacheAssumption DEF system, CacheInv, CacheTypes
  <1> DEFINE Kept(h) == /\ \A j \in Slots : /\ cstbase_infos'[j].path = cstbase_infos[j].path
                                            /\ cstbase_infos'[j].serial = cstbase_infos[j].serial
                                            /\ cstbase_infos'[j].dev = IF j = k THEN h ELSE cstbase_infos[j].dev
                        /\ cstbase_infos' \in [Slots -> SlotType]
  <1>2. ASSUME NEW h \in Handles \cup {None}, Remembers(k, h) PROVE Kept(h)
    <2>1. CASE k = None
      BY <1>1, <1>2, <2>1 DEF Remembers
    <2>2. CASE k \in Slots
      <3>1. cstbase_infos' = [cstbase_infos EXCEPT ![k].dev = h]
        BY <1>1, <1>2, <2>2 DEF Remembers
      <3> QED  BY <1>1, <2>2, <3>1 DEF SlotType
    <2> QED  BY <2>1, <2>2
  <1> HIDE DEF Kept
  <1>3. Placed' /\ Plugged' = Plugged
    BY <1>1 DEF CacheInv, Placed, Plugged
  <1>4. ASSUME NEW h \in Handles \cup {None}, Kept(h), current' => current PROVE SlotsFresh'
    BY <1>1, <1>3, <1>4 DEF CacheInv, SlotsFresh, Tells, Kept
  <1>5. CASE Fails(k)
    <2>1. Kept(None) /\ UNCHANGED <<of, current, listed>>
      BY <1>2, <1>5 DEF Fails
    <2>2. Open' = Open
      BY <2>1 DEF Open
    <2>3. CacheTypes'
      BY <1>1, <2>1, <2>2 DEF CacheTypes, CacheInv, Kept
    <2>4. NoDanglingHandle'
      BY <1>1, <2>1, <2>2 DEF CacheInv, NoDanglingHandle, Kept
    <2>5. ListedOK'
      <3>1. \A h \in listed : h # None
        BY <1>1 DEF Open
      <3> QED  BY <1>1, <2>1, <3>1 DEF CacheInv, ListedOK, Kept
    <2> QED  BY <1>1, <1>3, <1>4, <2>1, <2>2, <2>3, <2>4, <2>5 DEF CacheInv, Grows
  <1>6. CASE Opens(p, k)
    <2>1. PICK nodes \in Nodes, h \in Handles \ Open : \E n \in HidOpenPath(platform, nodes, p) :
            /\ of' = [of EXCEPT ![h] = n.dev]
            /\ Remembers(k, h)
            /\ current' = (current /\ p # None)
            /\ listed' = IF current' /\ k \in 0..(cstbase_cached_count - 1) THEN listed \cup {h} ELSE listed
      BY <1>6 DEF Opens
    <2>2. PICK n \in HidOpenPath(platform, nodes, p) :
            /\ of' = [of EXCEPT ![h] = n.dev]
            /\ Remembers(k, h)
            /\ current' = (current /\ p # None)
            /\ listed' = IF current' /\ k \in 0..(cstbase_cached_count - 1) THEN listed \cup {h} ELSE listed
      BY <2>1
    <2>3. n \in Node /\ (p # None => at[n.dev] = p)
      BY OpensWhatIsThere DEF CacheInv
    <2>4. n.dev \in Plugged /\ n.dev \in Devices /\ n.serial = Serial[n.dev]
      BY <2>3 DEF Node, Plugged
    <2>5. Kept(h)
      BY <1>2, <2>2
    <2>6. /\ of' \in [Handles -> Devices \cup {None}] /\ of'[h] = n.dev
          /\ \A g \in Handles : g # h => of'[g] = of[g]
          /\ Open' = Open \cup {h} /\ h \notin Open /\ h # None
      BY <1>1, <2>2, <2>4 DEF Open
    <2>7. current' \in BOOLEAN /\ (current' => current)
      BY <1>1, <2>2
    <2>8. CacheTypes'
      <3>1. listed' \subseteq Open'
        BY <1>1, <2>2, <2>6
      <3> QED  BY <1>1, <2>5, <2>6, <2>7, <3>1 DEF CacheTypes, CacheInv, Kept
    <2>9. NoDanglingHandle'
      <3>1. \A j \in Slots : cstbase_infos[j].dev # h
        BY <2>6 DEF CacheInv, NoDanglingHandle
      <3> QED  BY <2>5, <2>6, <3>1 DEF CacheInv, NoDanglingHandle, Kept
    <2>10. ListedOK'
      <3>1. ASSUME NEW g \in listed', NEW j \in Slots, cstbase_infos'[j].dev = g
            PROVE  cstbase_infos'[j].serial \in {Serial[of'[g]], EmptyStr}
        <4>1. CASE g = h
          <5>1. j = k
            BY <2>5, <2>6, <3>1, <4>1 DEF CacheInv, NoDanglingHandle, Kept
          <5>2. h \notin listed
            BY <1>1, <2>6
          <5>3. current /\ p # None /\ k < cstbase_cached_count
            <6>1. current' /\ k \in 0..(cstbase_cached_count - 1)
              BY <2>2, <4>1, <5>2
            <6>2. cstbase_cached_count \in Nat
              BY CacheAssumption DEF CacheInv, CacheTypes
            <6>3. current /\ p # None
              BY <2>2, <6>1, Zenon
            <6> QED  BY <6>1, <6>2, <6>3
          <5>4. cstbase_infos[k].serial \in {Serial[n.dev], EmptyStr}
            BY <1>1, <2>3, <2>4, <5>1, <5>3
          <5> QED  BY <2>5, <2>6, <4>1, <5>1, <5>4 DEF Kept
        <4>2. CASE g # h
          <5>1. g \in listed /\ g \in Handles
            BY <1>1, <2>2, <4>2 DEF Open
          <5>2. cstbase_infos[j].dev = g
            BY <2>5, <3>1, <4>2 DEF Kept
          <5>3. cstbase_infos[j].serial \in {Serial[of[g]], EmptyStr}
            BY <5>1, <5>2 DEF CacheInv, ListedOK
          <5> QED  BY <2>5, <2>6, <4>2, <5>1, <5>3 DEF Kept
        <4> QED  BY <4>1, <4>2
      <3> QED  BY <3>1 DEF ListedOK
    <2> QED  BY <1>3, <1>4, <2>5, <2>6, <2>7, <2>8, <2>9, <2>10 DEF CacheInv, Grows
  <1> QED  BY <1>5, <1>6

\* cstbase_close: the slot forgets the handle.
LEMMA CloseStep ==
    ASSUME CacheInv, NEW h \in Handles \cup {None}, Close(h)
    PROVE  CacheInv' /\ Open' = Open \ {h} /\ UNCHANGED <<system, alive, call, current, cstbase_cached_count>>
  <1> DEFINE k == IndexByDev(h)
  <1>1. /\ of' = [g \in Handles |-> IF g = h THEN None ELSE of[g]]
        /\ listed' = listed \ {h}
        /\ UNCHANGED <<system, alive, cstbase_cached_count, call, current>>
        /\ IF h = None THEN UNCHANGED cstbase_infos ELSE Remembers(k, None)
    BY DEF Close
  <1>2. /\ cstbase_infos \in [Slots -> SlotType] /\ of \in [Handles -> Devices \cup {None}]
        /\ listed \subseteq Open /\ None \notin Handles /\ None \notin Devices
        /\ NoDanglingHandle /\ ListedOK
    BY CacheAssumption DEF CacheInv, CacheTypes
  <1>3. /\ k \in Slots \cup {None} /\ None \notin Slots
        /\ k # None => cstbase_infos[k].dev = h
        /\ k = None => \A j \in Slots : cstbase_infos[j].dev # h
    BY Indices
  <1> HIDE DEF k
  <1>4. Open' = Open \ {h} /\ of' \in [Handles -> Devices \cup {None}]
    BY <1>1, <1>2 DEF Open
  <1>5. /\ cstbase_infos' \in [Slots -> SlotType]
        /\ \A j \in Slots : /\ cstbase_infos'[j].path = cstbase_infos[j].path
                            /\ cstbase_infos'[j].serial = cstbase_infos[j].serial
                            /\ cstbase_infos'[j].dev = IF cstbase_infos[j].dev = h THEN None ELSE cstbase_infos[j].dev
    <2>1. CASE h = None \/ k = None
      BY <1>1, <1>2, <1>3, <2>1 DEF Remembers
    <2>2. CASE h # None /\ k \in Slots
      <3>1. cstbase_infos' = [cstbase_infos EXCEPT ![k].dev = None]
        BY <1>1, <1>3, <2>2 DEF Remembers
      <3>2. \A j \in Slots : j # k => cstbase_infos[j].dev # h
        BY <1>2, <1>3, <2>2 DEF NoDanglingHandle
      <3> QED  BY <1>2, <1>3, <2>2, <3>1, <3>2 DEF SlotType
    <2> QED  BY <1>3, <2>1, <2>2
  <1>6. CacheTypes'
    <2>1. listed' \subseteq Open'
      BY <1>1, <1>2, <1>4
    <2>2. current' \in BOOLEAN /\ cstbase_cached_count' \in 0..cache_max
      BY <1>1 DEF CacheInv, CacheTypes
    <2> QED  BY <1>4, <1>5, <2>1, <2>2 DEF CacheTypes
  <1>7. NoDanglingHandle'
    BY <1>2, <1>4, <1>5 DEF NoDanglingHandle
  <1>8. ListedOK'
    <2>1. \A g \in listed' : g \in listed /\ g # h /\ g # None /\ of'[g] = of[g]
      BY <1>1, <1>2 DEF Open
    <2> QED  BY <1>2, <1>5, <2>1 DEF ListedOK
  <1>9. Placed' /\ SlotsFresh'
    <2>1. 0..(cstbase_cached_count - 1) \subseteq Slots
      BY CacheAssumption DEF CacheInv, CacheTypes, Slots
    <2>2. Placed' /\ Plugged' = Plugged /\ at' = at /\ platform' = platform
      BY <1>1 DEF CacheInv, Placed, Plugged, system
    <2> QED  BY <1>1, <1>2, <1>5, <2>1, <2>2 DEF CacheInv, SlotsFresh, Tells
  <1> QED  BY <1>1, <1>4, <1>6, <1>7, <1>8, <1>9 DEF CacheInv
-----------------------------------------------------------------------------
\* The library with one backend or the other
LibInv == /\ CacheInv /\ CallOK /\ platform \in Platforms \cup {"hiddata"} /\ alive \in BOOLEAN
          /\ platform = "hiddata" => /\ call = NoCall /\ listed = {}
                                     /\ \A k \in Slots : cstbase_infos[k].dev = None

\* A station that comes or goes leaves the library as it is, but what was known is no longer current.
LEMMA StationsStep ==
    ASSUME LibInv, Stations
    PROVE  LibInv' /\ Open' = Open /\ (call = NoCall => call' = NoCall) /\ UNCHANGED <<platform, alive, cache, of>>
  <1>1. PICK d \in Devices, p \in Paths \cup {None} :
           /\ Replugs(d, p)
           /\ p # None => \A e \in Devices : at[e] # p
    BY CacheAssumption DEF Stations, Plug, Unplug
  <1>2. /\ at' = [at EXCEPT ![d] = p] /\ current' = FALSE
        /\ call' = [call EXCEPT !.undisturbed = @ /\ (call = NoCall \/ p # call.path)]
        /\ UNCHANGED <<platform, alive, cstbase_infos, cstbase_cached_count, of, listed>>
    BY <1>1 DEF Replugs, cache
  <1>3. Placed'
    BY <1>1, <1>2 DEF LibInv, CacheInv, Placed
  <1>4. Open' = Open
    BY <1>2 DEF Open
  <1>5. CacheTypes'
    BY <1>2, <1>4 DEF LibInv, CacheInv, CacheTypes
  <1>6. NoDanglingHandle' /\ SlotsFresh' /\ ListedOK'
    BY <1>2, <1>4 DEF LibInv, CacheInv, NoDanglingHandle, SlotsFresh, ListedOK
  <1>7. CASE call = NoCall
    <2>1. call' = NoCall
      BY <1>2, <1>7 DEF NoCall
    <2>2. current' = FALSE
      BY <1>2
    <2>3. CallOK'
      BY <2>1, <2>2 DEF CallOK, NoCall, EmptyStr
    <2> QED  BY <1>2, <1>3, <1>4, <1>5, <1>6, <1>7, <2>1, <2>3 DEF LibInv, CacheInv, cache
  <1>8. CASE call # NoCall
    <2>1. CallOK /\ Placed /\ call' = [call EXCEPT !.undisturbed = @ /\ p # call.path]
      BY <1>2, <1>8 DEF LibInv, CacheInv
    <2>2. /\ call' \in [serial : Nat \cup {None}, path : Paths \cup {None}, undisturbed : BOOLEAN]
          /\ call'.serial = call.serial /\ call'.path = call.path /\ call.serial # EmptyStr
          /\ call'.undisturbed => call.undisturbed /\ p # call.path
      BY <1>8, <2>1, Zenon DEF CallOK
    <2>4. ASSUME call'.undisturbed, call.path # None, NEW e \in Plugged', at'[e] = call.path
          PROVE  call.serial \in {EmptyStr, Serial[e]}
      <3>1. e # d /\ at'[e] = at[e] /\ e \in Plugged
        BY <1>2, <2>1, <2>2, <2>4, CacheAssumption DEF Plugged, Placed
      <3> QED  BY <2>1, <2>2, <2>4, <3>1 DEF CallOK
    <2>5. CallOK'
      BY <1>2, <2>2, <2>4 DEF CallOK
    <2>3. platform # "hiddata"
      BY <1>8 DEF LibInv
    <2> QED  BY <1>2, <1>3, <1>4, <1>5, <1>6, <1>8, <2>3, <2>5 DEF LibInv, CacheInv, cache
  <1> QED  BY <1>7, <1>8

\* A process that starts has nothing open.
LEMMA StartState ==
    ASSUME Start
    PROVE  CacheTypes /\ NoDanglingHandle /\ SlotsFresh /\ ListedOK /\ CallOK /\ Placed
           /\ call = NoCall /\ Open = {} /\ listed = {} /\ alive = TRUE
           /\ \A k \in Slots : cstbase_infos[k].dev = None
  <1> USE CacheAssumption DEF Start, Unfilled, EmptyStr
  <1>1. Open = {} /\ cstbase_infos \in [Slots -> SlotType] /\ cstbase_cached_count \in 0..cache_max
    BY DEF Open, SlotType
  <1>2. CacheTypes /\ NoDanglingHandle /\ ListedOK /\ SlotsFresh /\ Placed
    BY <1>1 DEF CacheTypes, NoDanglingHandle, ListedOK, SlotsFresh, Placed
  <1>3. CallOK
    BY DEF CallOK, NoCall
  <1> QED  BY <1>1, <1>2, <1>3

\* ... and so it does again.
LEMMA RestartStep ==
    ASSUME LibInv, Restart
    PROVE  LibInv' /\ Open' = {} /\ call' = NoCall /\ UNCHANGED platform
  <1> USE CacheAssumption DEF Restart, Unfilled, EmptyStr, system
  <1>1. Open' = {} /\ cstbase_infos' \in [Slots -> SlotType] /\ cstbase_cached_count' \in 0..cache_max
    BY DEF Open, SlotType
  <1>2. CacheTypes' /\ NoDanglingHandle' /\ ListedOK' /\ SlotsFresh'
    BY <1>1 DEF CacheTypes, NoDanglingHandle, ListedOK, SlotsFresh
  <1>3. CallOK'
    BY DEF CallOK, NoCall
  <1>4. Placed'
    BY DEF LibInv, CacheInv, Placed
  <1> QED  BY <1>1, <1>2, <1>3, <1>4 DEF LibInv, CacheInv

\* cstbase_openBySerial, up to where hid_open has searched
LEMMA SearchStep ==
    ASSUME LibInv, platform # "hiddata", NEW s \in Nat \cup {None}, s # EmptyStr, SearchesBySerial(s)
    PROVE  LibInv' /\ Open' = Open /\ UNCHANGED <<platform, cstbase_cached_count>>
  <1> DEFINE list(nodes) == HidEnumerate(platform, nodes)
             found(nodes) == Search(list(nodes), s)
             k == IndexBySerial(s)
  <1>1. PICK nodes \in Nodes :
           /\ alive' = (found(nodes) # "crash")
           /\ IF found(nodes) \in {"absent", "crash"}
              THEN Fails(k) /\ UNCHANGED call
              ELSE /\ call' = [serial |-> s, path |-> found(nodes), undisturbed |-> TRUE]
                   /\ UNCHANGED <<cstbase_infos, of, current, listed>>
    BY DEF SearchesBySerial
  <1>2. CacheInv /\ CallOK /\ Placed /\ UNCHANGED <<system, platform, at, cstbase_cached_count>>
    BY DEF LibInv, CacheInv, SearchesBySerial, system
  <1>3. list(nodes) \in Seq(Entry)
    BY <1>2, EntriesAreTrue
  <1>4. alive' \in BOOLEAN
    BY <1>1, Zenon
  <1>5. Plugged' = Plugged
    BY <1>2 DEF Plugged
  <1>6. CASE found(nodes) \in {"absent", "crash"}
    <2>1. Fails(k) /\ call' = call /\ k \in Slots \cup {None}
      BY <1>1, <1>6, Indices
    <2>2. UNCHANGED <<of, current>>
      BY <2>1 DEF Fails
    <2>3. CacheInv'
      <3> HIDE DEF k
      <3> QED  BY <1>2, <2>1, OpenStep
    <2>4. CallOK'
      BY <1>2, <1>5, <2>1, <2>2 DEF CallOK
    <2> QED  BY <1>2, <1>4, <2>2, <2>3, <2>4 DEF LibInv, Open
  <1>7. CASE found(nodes) \notin {"absent", "crash"}
    <2>1. /\ call' = [serial |-> s, path |-> found(nodes), undisturbed |-> TRUE]
          /\ UNCHANGED <<cstbase_infos, of, current, listed>>
      BY <1>1, <1>7
    <2>2. PICK j \in 1..Len(list(nodes)) :
             list(nodes)[j].serial = s /\ s # None /\ found(nodes) = list(nodes)[j].path
      BY <1>3, <1>7, SearchFinds
    <2>3. list(nodes)[j] \in Entry
      BY <1>3, <2>2, ElementOfSeq
    <2>4. /\ found(nodes) \in Paths \cup {None}
          /\ found(nodes) # None =>
               \A d \in Plugged : at[d] = found(nodes) => s \in {Serial[d], EmptyStr}
      BY <1>2, <2>2, <2>3 DEF Entry, Placed, Plugged
    <2> HIDE DEF found, list
    <2>5. CallOK'
      BY <1>2, <1>5, <2>1, <2>4 DEF CallOK
    <2>6. Open' = Open
      BY <2>1 DEF Open
    <2>7. CacheInv'
      BY <1>2, <1>5, <2>1, <2>6 DEF CacheInv, CacheTypes, Placed, NoDanglingHandle, SlotsFresh, Tells, ListedOK
    <2> QED  BY <1>2, <1>4, <2>1, <2>5, <2>6, <2>7 DEF LibInv
  <1> QED  BY <1>6, <1>7

\* ... and from there
LEMMA OpensBySerialStep ==
    ASSUME LibInv, OpensBySerial
    PROVE  LibInv' /\ Grows /\ call' = NoCall /\ platform # "hiddata" /\ UNCHANGED <<platform, alive, cstbase_cached_count>>
  <1> DEFINE k == IndexBySerial(call.serial)
  <1>1. /\ call # NoCall /\ call' = NoCall /\ platform # "hiddata"
        /\ Opens(call.path, k) \/ Fails(k)
        /\ UNCHANGED <<system, alive, cstbase_cached_count>>
    BY DEF OpensBySerial, LibInv
  <1>2. CacheInv /\ CallOK /\ Placed /\ call.path \in Paths \cup {None} /\ k \in Slots \cup {None} /\ at' = at /\ platform' = platform
        /\ (k # None => cstbase_infos[k].serial = call.serial)
    BY <1>1, Indices DEF LibInv, CacheInv, CallOK, system
  <1> HIDE DEF k
  <1>4. k # None /\ call.path # None /\ current /\ k < cstbase_cached_count =>
           \A d \in Plugged : at[d] = call.path => cstbase_infos[k].serial \in {Serial[d], EmptyStr}
    BY <1>2 DEF CallOK
  <1>5. CacheInv' /\ Grows
    BY <1>1, <1>2, <1>4, OpenStep
  <1>6. CallOK'
    BY <1>1 DEF CallOK, NoCall, EmptyStr
  <1> QED  BY <1>1, <1>2, <1>5, <1>6 DEF LibInv

\* cstbase_openByPath, with the path of a slot or what is behind the slots
LEMMA OpenByPathStep ==
    ASSUME LibInv, platform # "hiddata", call = NoCall, NEW p \in Paths \cup {None}, OpenByPath(p)
    PROVE  LibInv' /\ Grows /\ UNCHANGED <<platform, call, alive, cstbase_cached_count>>
  <1> DEFINE k == IndexByPath(p)
  <1>1. CacheInv /\ CallOK /\ Placed /\ UNCHANGED <<system, platform, at, alive, call>>
    BY DEF LibInv, CacheInv, OpenByPath, system
  <1>2. call.path = None /\ call.serial = EmptyStr /\ call.undisturbed = TRUE
    BY DEF NoCall
  <1>3. CASE p = None
    <2>1. UNCHANGED <<cstbase_infos, cstbase_cached_count, of, current, listed>>
      BY <1>3 DEF OpenByPath, cache
    <2>2. Open' = Open /\ Plugged' = Plugged
      BY <1>1, <2>1 DEF Open, Plugged
    <2>3. CacheInv' /\ CallOK'
      BY <1>1, <2>1, <2>2 DEF CacheInv, CacheTypes, Placed, NoDanglingHandle, SlotsFresh, Tells, ListedOK, CallOK
    <2> QED  BY <1>1, <2>1, <2>2, <2>3 DEF LibInv, Grows
  <1>4. CASE p # None
    <2>1. (Opens(p, k) \/ Fails(k)) /\ UNCHANGED cstbase_cached_count
      BY <1>4 DEF OpenByPath
    <2>2. k \in Slots \cup {None} /\ (k # None => cstbase_infos[k].path = p) /\ None \notin Slots
      BY Indices
    <2> HIDE DEF k
    <2>3. ASSUME k # None, current, k < cstbase_cached_count, NEW d \in Plugged, at[d] = p
          PROVE  cstbase_infos[k].serial \in {Serial[d], EmptyStr}
      <3>1. k \in 0..(cstbase_cached_count - 1)
        BY <2>2, <2>3, CacheAssumption DEF Slots, CacheInv, CacheTypes, LibInv
      <3>2. Tells(cstbase_infos[k])
        BY <2>3, <3>1 DEF LibInv, CacheInv, SlotsFresh
      <3>3. PICK e \in Plugged : p \in {at[e], None} /\ cstbase_infos[k].serial \in {Serial[e], EmptyStr}
        BY <2>2, <2>3, <3>2 DEF Tells
      <3>4. e = d
        BY <1>1, <1>4, <2>3, <3>3 DEF Placed, Plugged
      <3> QED  BY <3>3, <3>4
    <2>4. CacheInv' /\ Grows /\ (current' => current)
      BY <1>1, <1>2, <2>1, <2>2, <2>3, OpenStep
    <2>5. CallOK'
      BY <1>1, <1>2 DEF CallOK, NoCall, EmptyStr
    <2> QED  BY <1>1, <2>1, <2>4, <2>5 DEF LibInv
  <1> QED  BY <1>3, <1>4

\* cstbase_openById, either way
LEMMA OpenByIdStep ==
    ASSUME LibInv, platform # "hiddata", call = NoCall, NEW n \in Nat, OpenById(n)
    PROVE  /\ LibInv' /\ UNCHANGED <<platform, cstbase_cached_count>>
           /\ Open' = Open \/ (call' = NoCall /\ Grows)
  <1>1. CASE n > cache_max
    <2>1. Hexadecimal(n) \in Nat \cup {None} /\ Hexadecimal(n) # EmptyStr
      BY <1>1, CacheAssumption DEF Hexadecimal, EmptyStr
    <2>2. SearchesBySerial(Hexadecimal(n))
      BY <1>1 DEF OpenById
    <2> QED  BY <2>1, <2>2, SearchStep
  <1>2. CASE ~(n > cache_max)
    <2>1. PICK p \in CachedPath(n) : OpenByPath(p)
      BY <1>2 DEF OpenById
    <2>2. CachedPath(n) \subseteq Paths \cup {None}
      BY DEF CachedPath, LibInv, CacheInv, CacheTypes, SlotType
    <2> QED  BY <2>1, <2>2, OpenByPathStep
  <1> QED  BY <1>1, <1>2

\* cstbase_enumerate in the library
LEMMA LibEnumerateStep ==
    ASSUME LibInv, Enumerate, call = NoCall, platform # "hiddata"
    PROVE  LibInv' /\ Open' = Open /\ call' = NoCall /\ UNCHANGED <<platform, alive>>
  <1>1. UNCHANGED <<platform, at, alive, call, of>>
    BY DEF Enumerate, system
  <1>2. CacheInv'
    BY EnumerateStep DEF LibInv
  <1>3. CallOK' /\ Open' = Open
    BY <1>1 DEF CallOK, NoCall, EmptyStr, Open
  <1> QED  BY <1>1, <1>2, <1>3 DEF LibInv

\* cstbase_close in the library
LEMMA LibCloseStep ==
    ASSUME LibInv, NEW h \in Handles \cup {None}, Close(h), platform # "hiddata"
    PROVE  LibInv' /\ Open' = Open \ {h} /\ UNCHANGED <<platform, call, alive, cstbase_cached_count>>
  <1>1. CacheInv' /\ Open' = Open \ {h} /\ UNCHANGED <<platform, at, alive, call, current, cstbase_cached_count>>
    BY CloseStep DEF LibInv, system
  <1>2. CallOK'
    BY <1>1 DEF LibInv, CallOK, Plugged
  <1> QED  BY <1>1, <1>2 DEF LibInv
-----------------------------------------------------------------------------
\* Over hiddata no slot is filled.
LEMMA HiddataOpensStep ==
    ASSUME LibInv, platform = "hiddata", static_dev \in Handles \cup {None}, HiddataOpens
    PROVE  /\ LibInv' /\ call' = NoCall /\ UNCHANGED <<platform, cstbase_cached_count>>
           /\ \/ Open' = Open /\ static_dev' = static_dev
              \/ static_dev' \in Handles \ Open /\ Open' = Open \cup {static_dev'}
  <1>1. /\ UNCHANGED <<platform, at, alive, cstbase_infos, cstbase_cached_count, call, current, listed>>
        /\ UsbhidOpens
    BY DEF HiddataOpens, system, cache
  <1>2. /\ of \in [Handles -> Devices \cup {None}] /\ None \notin Devices /\ Plugged \subseteq Devices
        /\ call = NoCall /\ listed = {} /\ \A k \in Slots : cstbase_infos[k].dev = None
    BY CacheAssumption DEF LibInv, CacheInv, CacheTypes, Plugged
  <1>3. /\ of' \in [Handles -> Devices \cup {None}]
        /\ \/ Open' = Open /\ static_dev' = static_dev
           \/ static_dev' \in Handles \ Open /\ Open' = Open \cup {static_dev'}
    BY <1>1, <1>2 DEF UsbhidOpens, Open
  <1>4. CallOK'
    BY <1>1 DEF LibInv, CallOK, Plugged
  <1>5. CacheInv'
    <2>1. Placed' /\ SlotsFresh'
      BY <1>1 DEF LibInv, CacheInv, Placed, SlotsFresh, Tells, Plugged
    <2>2. NoDanglingHandle' /\ ListedOK'
      BY <1>1, <1>2 DEF NoDanglingHandle, ListedOK
    <2>3. CacheTypes'
      BY <1>1, <1>2, <1>3 DEF LibInv, CacheInv, CacheTypes
    <2> QED  BY <1>1, <1>2, <2>1, <2>2, <2>3 DEF CacheInv
  <1> QED  BY <1>1, <1>2, <1>3, <1>4, <1>5 DEF LibInv

\* usbhidCloseDevice takes that handle only.
LEMMA HiddataClosesStep ==
    ASSUME LibInv, platform = "hiddata", NEW h \in Handles \cup {None}, HiddataCloses(h)
    PROVE  LibInv' /\ Open' = Open \ {h} /\ call' = NoCall /\ UNCHANGED <<platform, cstbase_cached_count, static_dev>>
  <1>1. /\ UNCHANGED <<platform, at, cstbase_infos, cstbase_cached_count, call, current, listed, static_dev>>
        /\ of' = [g \in Handles |-> IF g = h THEN None ELSE of[g]] /\ alive' \in BOOLEAN
    BY DEF HiddataCloses, Closing, system, cache
  <1>2. /\ of \in [Handles -> Devices \cup {None}] /\ None \notin Devices
        /\ call = NoCall /\ listed = {} /\ \A k \in Slots : cstbase_infos[k].dev = None
    BY CacheAssumption DEF LibInv, CacheInv, CacheTypes
  <1>3. of' \in [Handles -> Devices \cup {None}] /\ Open' = Open \ {h}
    BY <1>1, <1>2 DEF Open
  <1>4. CallOK'
    BY <1>1 DEF LibInv, CallOK, Plugged
  <1>5. CacheInv'
    <2>1. Placed' /\ SlotsFresh'
      BY <1>1 DEF LibInv, CacheInv, Placed, SlotsFresh, Tells, Plugged
    <2>2. NoDanglingHandle' /\ ListedOK'
      BY <1>1, <1>2 DEF NoDanglingHandle, ListedOK
    <2>3. CacheTypes'
      BY <1>1, <1>2, <1>3 DEF LibInv, CacheInv, CacheTypes
    <2> QED  BY <1>1, <1>2, <2>1, <2>2, <2>3 DEF CacheInv
  <1> QED  BY <1>1, <1>2, <1>3, <1>4, <1>5 DEF LibInv

\* The enumeration looks for the station by opening it, and closes it again.
LEMMA HiddataEnumeratesStep ==
    ASSUME LibInv, platform = "hiddata", static_dev \in Handles \cup {None}, HiddataEnumerates
    PROVE  LibInv' /\ Open' = Open /\ call' = NoCall /\ static_dev' \in Handles \cup {None} /\ UNCHANGED platform
  <1>1. /\ UNCHANGED <<platform, at, cstbase_infos, call, of, listed>>
        /\ alive' \in BOOLEAN /\ static_dev' \in Handles \cup {None} /\ current' = TRUE
        /\ cstbase_cached_count' \in {0, 1}
    BY DEF HiddataEnumerates, Closing, system
  <1>2. /\ call = NoCall /\ listed = {} /\ \A k \in Slots : cstbase_infos[k].dev = None
        /\ cache_max \in Nat \ {0}
    BY CacheAssumption DEF LibInv, CacheInv
  <1>3. Open' = Open
    BY <1>1 DEF Open
  <1>4. CallOK'
    BY <1>1, <1>2 DEF CallOK, NoCall, EmptyStr
  <1>5. CacheInv'
    <2>1. Placed' /\ SlotsFresh'
      BY <1>1 DEF LibInv, CacheInv, Placed, SlotsFresh
    <2>2. NoDanglingHandle' /\ ListedOK'
      BY <1>1, <1>2 DEF NoDanglingHandle, ListedOK
    <2>3. CacheTypes'
      BY <1>1, <1>2, <1>3 DEF LibInv, CacheInv, CacheTypes
    <2> QED  BY <1>1, <1>2, <2>1, <2>2, <2>3 DEF CacheInv
  <1> QED  BY <1>1, <1>2, <1>3, <1>4, <1>5 DEF LibInv
-----------------------------------------------------------------------------
\* What a program sees of an enumeration, an open and a close, if it has no other
\* handle: there is never one that a hid_exit could take its library from.
LEMMA EnumerateEffect ==
    ASSUME LibInv, call = NoCall, Open = {}, orphans = {}, static_dev \in Handles \cup {None}, LibEnumerate
    PROVE  LibInv' /\ Open' = {} /\ orphans' = {} /\ call' = NoCall /\ static_dev' \in Handles \cup {None} /\ UNCHANGED platform
  <1>1. CASE platform = "hiddata"
    BY <1>1, HiddataEnumeratesStep DEF LibEnumerate
  <1>2. CASE platform # "hiddata"
    BY <1>2, LibEnumerateStep DEF LibEnumerate, HidInit
  <1> QED  BY <1>1, <1>2

\* ... an open leaves the handle it returns, or what hiddata returned before, ...
LEMMA OpenEffect ==
    ASSUME LibInv, Open = {}, orphans = {}, static_dev \in Handles \cup {None}, NEW n \in Nat,
           (call = NoCall /\ LibOpenById(n)) \/ LibOpensBySerial
    PROVE  /\ LibInv' /\ orphans' = {} /\ UNCHANGED <<platform, cstbase_cached_count>>
           /\ static_dev' \in Handles \cup {None}
           /\ call' # NoCall => Open' = {}
           /\ call' = NoCall => /\ Returned \in Handles \cup {None} /\ Open' \subseteq {Returned}
                                /\ Returned # None /\ ~(platform = "hiddata" /\ Open' = Open) => Returned \in Open'
  <1>1. CASE platform = "hiddata"
    <2>1. HiddataOpens /\ UNCHANGED orphans
      BY <1>1, OpensBySerialStep DEF LibOpenById, LibOpensBySerial
    <2>2. /\ LibInv' /\ call' = NoCall /\ UNCHANGED <<platform, cstbase_cached_count>>
          /\ \/ Open' = Open /\ static_dev' = static_dev
             \/ static_dev' \in Handles \ Open /\ Open' = Open \cup {static_dev'}
      BY <1>1, <2>1, HiddataOpensStep
    <2> QED  BY <1>1, <2>1, <2>2 DEF Returned
  <1>2. CASE platform # "hiddata"
    <2>1. /\ LibInv' /\ UNCHANGED <<platform, cstbase_cached_count, static_dev>>
          /\ Open' = Open \/ (call' = NoCall /\ Grows)
      <3>1. CASE call = NoCall /\ LibOpenById(n)
        BY <1>2, <3>1, OpenByIdStep DEF LibOpenById
      <3>2. CASE LibOpensBySerial
        BY <1>2, <3>2, OpensBySerialStep DEF LibOpensBySerial
      <3> QED  BY <3>1, <3>2
    <2>2. orphans' = {}
      BY <1>2 DEF LibOpenById, LibOpensBySerial, HidInit
    <2>3. CASE Open' = Open
      BY <1>2, <2>1, <2>2, <2>3 DEF Returned
    <2>4. CASE Open' # Open
      <3>1. call' = NoCall /\ \E h \in Handles : Open' = {h}
        BY <2>1, <2>4 DEF Grows
      <3>2. PICK h \in Handles : Open' = {h}
        BY <3>1
      <3>3. Returned = h
        BY <1>2, <2>4, <3>2 DEF Returned
      <3> QED  BY <2>1, <2>2, <3>1, <3>2, <3>3
    <2> QED  BY <2>3, <2>4
  <1> QED  BY <1>1, <1>2

\* ... and a close none.
LEMMA CloseEffect ==
    ASSUME LibInv, call = NoCall, NEW h \in Handles \cup {None}, Open \subseteq {h}, LibClose(h)
    PROVE  LibInv' /\ Open' = {} /\ orphans' = {} /\ call' = NoCall /\ UNCHANGED <<static_dev, platform, cstbase_cached_count>>
  <1>1. CASE platform = "hiddata"
    BY <1>1, HiddataClosesStep DEF LibClose, HidExit
  <1>2. CASE platform # "hiddata"
    BY <1>2, LibCloseStep DEF LibClose, HidExit
  <1> QED  BY <1>1, <1>2

\* The numbers of main: no index beyond the slots, whatever strtol and hexread make of the option.
LEMMA Numbers ==
    ASSUME ids \in Options, cstbase_cached_count \in 0..cache_max
    PROVE  /\ NumDevicesToUse \in Nat /\ NumDevicesToUse <= cache_max
           /\ \A k \in Nat : DeviceId(k) \in Nat
  <1>1. cache_max \in Nat \ {0} /\ LongMax \in Nat /\ \A d \in Devices : Serial[d] \in Nat
    BY CacheAssumption, ProgramAssumption
  <1>2. CASE ids \in [kind : {"none", "all"}]
    BY <1>1, <1>2 DEF NumDevicesToUse, DeviceId
  <1>3. CASE ids \in [kind : {"serial"}, serial : { Serial[d] : d \in Devices }]
    BY <1>1, <1>3 DEF NumDevicesToUse, DeviceId, Strtol
  <1>4. CASE ids \in [kind : {"list"}, list : IdLists]
    <2>1. /\ ids.kind = "list" /\ ids.list \in Seq(0..255) /\ Len(ids.list) \in Nat /\ Len(ids.list) <= cache_max
          /\ \A k \in 1..Len(ids.list) : ids.list[k] \in Nat
      <3>1. ids.kind = "list" /\ ids.list \in Seq(0..255) /\ Len(ids.list) <= cache_max
        <4>1. ids.kind = "list" /\ ids.list \in IdLists
          BY <1>4
        <4>2. \A l \in IdLists : l \in Seq(0..255) /\ Len(l) <= cache_max
          BY ProgramAssumption, Zenon
        <4> QED  BY <4>1, <4>2
      <3>2. Len(ids.list) \in Nat /\ \A k \in 1..Len(ids.list) : ids.list[k] \in 0..255
        <4>1. \A l \in Seq(0..255) : Len(l) \in Nat /\ \A k \in 1..Len(l) : l[k] \in 0..255
          BY LenProperties, ElementOfSeq, Zenon
        <4> QED  BY <3>1, <4>1, Zenon
      <3>3. 0..255 \subseteq Nat
        OBVIOUS
      <3> QED  BY <3>1, <3>2, <3>3, Zenon
    <2>2. \A k \in Nat : Byte(ids.list, k) \in Nat
      BY <2>1 DEF Byte
    <2>3. ASSUME NEW k \in Nat PROVE Word(ids.list, k) \in Nat
      <3>1. 4*k \in Nat /\ 4*k + 1 \in Nat /\ 4*k + 2 \in Nat /\ 4*k + 3 \in Nat
        OBVIOUS
      <3>2. /\ Byte(ids.list, 4*k) \in Nat /\ Byte(ids.list, 4*k + 1) \in Nat
            /\ Byte(ids.list, 4*k + 2) \in Nat /\ Byte(ids.list, 4*k + 3) \in Nat
        BY <2>2, <3>1
      <3> QED  BY <3>2 DEF Word
    <2> QED  BY <2>1, <2>3 DEF NumDevicesToUse, DeviceId
  <1> QED  BY <1>2, <1>3, <1>4 DEF Options
-----------------------------------------------------------------------------
\* What a program has done when it is at a place: it never holds two handles.
Holds == /\ orphans = {} /\ static_dev \in Handles \cup {None} /\ dev \in Handles \cup {None}
         /\ cmd = "library" => platform # "hiddata" /\ pc = "enumerates" /\ dev = None
         /\ cmd # "library" =>
              /\ Open \subseteq {dev}
              /\ pc \in {"enumerates", "opens", "opening", "reopens", "reopening"} => Open = {}
              /\ pc \notin {"opening", "reopening"} => call = NoCall
              /\ pc \in {"asks", "sets", "closes", "recloses"} /\ dev # None =>
                    dev \in Open \/ (platform = "hiddata" /\ refused)

Loops == /\ i \in 0..cache_max
         /\ pc \in {"reopens", "reopening"} => cmd = "settime"
         /\ pc \in {"reopens", "reopening", "sets", "recloses"} /\ cmd = "settime" => i < NumDevicesToUse

IInv == /\ LibInv /\ Holds /\ Loops
        /\ cmd \in Commands \cup {"library"} /\ ids \in Options /\ pc \in Places
        /\ done \subseteq Devices /\ refused \in BOOLEAN

\* A program starts with nothing open.
LEMMA Starts == ProgramInit => IInv
  <1> SUFFICES ASSUME ProgramInit PROVE IInv
    OBVIOUS
  <1>1. LibInv /\ Open = {} /\ call = NoCall
    BY StartState DEF ProgramInit, LibInv, CacheInv
  <1>2. Holds
    BY <1>1 DEF ProgramInit, Holds
  <1>3. Loops
    BY CacheAssumption DEF ProgramInit, Loops
  <1>4. refused \in BOOLEAN /\ pc \in Places
    BY DEF ProgramInit, Places
  <1> QED  BY <1>1, <1>2, <1>3, <1>4 DEF ProgramInit, IInv

\* A step that leaves the library alone
LEMMA SameLibrary ==
    ASSUME LibInv, UNCHANGED <<cache, system, alive, call, of, current, listed>>
    PROVE  LibInv' /\ Open' = Open /\ UNCHANGED <<platform, cstbase_cached_count, call>>
  <1>1. /\ UNCHANGED <<platform, at, cstbase_infos, cstbase_cached_count, alive, call, of, current, listed>>
        /\ Open' = Open /\ Plugged' = Plugged
    BY DEF cache, system, Open, Plugged
  <1>2. CacheInv'
    BY <1>1 DEF LibInv, CacheInv, CacheTypes, Placed, NoDanglingHandle, SlotsFresh, Tells, ListedOK
  <1>3. CallOK'
    BY <1>1 DEF LibInv, CallOK
  <1> QED  BY <1>1, <1>2, <1>3 DEF LibInv

\* The loop of main has as many devices to go as long as the option and the count stay.
LEMMA SameNumber == UNCHANGED <<ids, cstbase_cached_count>> => NumDevicesToUse' = NumDevicesToUse
  BY DEF NumDevicesToUse

\* main goes on to the next device to use.
LEMMA GoesStep ==
    ASSUME IInv, LibInv', Open' = {}, orphans' = {}, call' = NoCall, cmd = "settime",
           UNCHANGED <<program, platform, cstbase_cached_count, done>>,
           static_dev' \in Handles \cup {None}, dev' \in Handles \cup {None}, refused' \in BOOLEAN,
           NEW k \in 0..cache_max, Goes(k)
    PROVE  IInv'
  <1>1. /\ i' = k /\ pc' = IF k < NumDevicesToUse THEN "reopens" ELSE "ended"
        /\ UNCHANGED <<cmd, ids>> /\ NumDevicesToUse' = NumDevicesToUse
    BY SameNumber DEF Goes, program
  <1>2. Loops'
    BY <1>1 DEF Loops
  <1>3. Holds'
    BY <1>1 DEF Holds
  <1>4. pc' \in Places /\ cmd' \in Commands \cup {"library"} /\ ids' \in Options /\ done' \subseteq Devices
    BY <1>1 DEF IInv, Places
  <1> QED  BY <1>2, <1>3, <1>4 DEF IInv

\* The program enumerates.
LEMMA EnumeratesStep == ASSUME IInv, cmd # "library", Enumerates PROVE IInv'
  <1>1. /\ pc = "enumerates" /\ LibEnumerate /\ pc' \in {"ended", "opens"}
        /\ UNCHANGED <<cmd, ids, dev, i, done, refused>>
    BY DEF Enumerates, program
  <1>2. LibInv /\ call = NoCall /\ Open = {} /\ orphans = {} /\ static_dev \in Handles \cup {None}
    BY <1>1 DEF IInv, Holds
  <1>3. LibInv' /\ Open' = {} /\ orphans' = {} /\ call' = NoCall /\ static_dev' \in Handles \cup {None} /\ UNCHANGED platform
    BY <1>1, <1>2, EnumerateEffect
  <1>4. Holds'
    BY <1>1, <1>3 DEF IInv, Holds
  <1>5. Loops'
    BY <1>1 DEF IInv, Loops
  <1>6. pc' \in Places
    BY <1>1 DEF Places
  <1> QED  BY <1>1, <1>3, <1>4, <1>5, <1>6 DEF IInv

\* An open that has ended: a handle the program has is open, or hiddata has failed.
LEMMA OpenEnded ==
    ASSUME IInv, cmd # "library", pc \in {"opens", "opening", "reopens", "reopening"},
           NEW n \in Nat, (pc \in {"opens", "reopens"} /\ LibOpenById(n)) \/ LibOpensBySerial
    PROVE  /\ LibInv' /\ orphans' = {} /\ UNCHANGED <<platform, cstbase_cached_count>>
           /\ static_dev' \in Handles \cup {None}
           /\ call' # NoCall => Open' = {}
           /\ call' = NoCall /\ dev' = Returned /\ refused' = (refused \/ Open' = Open) =>
                /\ dev' \in Handles \cup {None} /\ refused' \in BOOLEAN
                /\ Open' \subseteq {dev'} /\ (dev' = None => Open' = {})
                /\ dev' # None => dev' \in Open' \/ (platform = "hiddata" /\ refused')
  <1>1. LibInv /\ Open = {} /\ orphans = {} /\ static_dev \in Handles \cup {None}
        /\ (pc \in {"opens", "reopens"} => call = NoCall)
    BY DEF IInv, Holds
  <1>2. (call = NoCall /\ LibOpenById(n)) \/ LibOpensBySerial
    BY <1>1
  <1>3. /\ LibInv' /\ orphans' = {} /\ UNCHANGED <<platform, cstbase_cached_count>>
        /\ static_dev' \in Handles \cup {None}
        /\ call' # NoCall => Open' = {}
        /\ call' = NoCall => /\ Returned \in Handles \cup {None} /\ Open' \subseteq {Returned}
                             /\ Returned # None /\ ~(platform = "hiddata" /\ Open' = Open) => Returned \in Open'
    BY <1>1, <1>2, OpenEffect
  <1>4. Open' \subseteq Handles /\ None \notin Handles
    BY CacheAssumption DEF Open
  <1>5. ASSUME call' = NoCall, dev' = Returned, refused' = (refused \/ Open' = Open)
        PROVE  /\ dev' \in Handles \cup {None} /\ refused' \in BOOLEAN
               /\ Open' \subseteq {dev'} /\ (dev' = None => Open' = {})
               /\ dev' # None => dev' \in Open' \/ (platform = "hiddata" /\ refused')
    <2>1. dev' \in Handles \cup {None} /\ Open' \subseteq {dev'} /\ (dev' = None => Open' = {})
      BY <1>3, <1>4, <1>5
    <2>2. refused' \in BOOLEAN /\ (Open' = Open => refused')
      BY <1>5, Zenon
    <2>3. dev' # None => dev' \in Open' \/ (platform = "hiddata" /\ Open' = Open)
      BY <1>3, <1>5
    <2> QED  BY <2>1, <2>2, <2>3, Zenon
  <1> QED  BY <1>3, <1>5

\* The program opens the first device.
LEMMA OpensFirstStep == ASSUME IInv, cmd # "library", OpensFirst PROVE IInv'
  <1>1. DeviceId(0) \in Nat
    BY Numbers, CacheAssumption DEF IInv, LibInv, CacheInv, CacheTypes, Options
  <1>2. /\ pc \in {"opens", "opening"} /\ UNCHANGED <<cmd, ids, i, done>>
        /\ OpenEnds("opening", Opened)
        /\ (pc \in {"opens", "reopens"} /\ LibOpenById(DeviceId(0))) \/ LibOpensBySerial
    BY DEF OpensFirst, program
  <1> HIDE DEF DeviceId
  <1>3. /\ LibInv' /\ orphans' = {} /\ UNCHANGED <<platform, cstbase_cached_count>>
        /\ static_dev' \in Handles \cup {None}
        /\ call' # NoCall => Open' = {}
        /\ call' = NoCall /\ dev' = Returned /\ refused' = (refused \/ Open' = Open) =>
             /\ dev' \in Handles \cup {None} /\ refused' \in BOOLEAN
             /\ Open' \subseteq {dev'} /\ (dev' = None => Open' = {})
             /\ dev' # None => dev' \in Open' \/ (platform = "hiddata" /\ refused')
    BY <1>1, <1>2, OpenEnded
  <1>4. CASE call' # NoCall
    <2>1. pc' = "opening" /\ UNCHANGED <<dev, refused>>
      BY <1>2, <1>4 DEF OpenEnds
    <2>2. Holds'
      BY <1>2, <1>3, <1>4, <2>1 DEF IInv, Holds
    <2>3. Loops' /\ pc' \in Places
      BY <1>2, <2>1 DEF IInv, Loops, Places
    <2> QED  BY <1>2, <1>3, <2>1, <2>2, <2>3 DEF IInv
  <1>5. CASE call' = NoCall
    <2>1. dev' = Returned /\ pc' = Opened /\ refused' = (refused \/ Open' = Open)
      BY <1>2, <1>5 DEF OpenEnds
    <2>2. pc' \in {"asks", "ended", "closes", "sets"} /\ (pc' = "sets" => cmd # "settime")
      BY <2>1 DEF Opened
    <2>3. /\ dev' \in Handles \cup {None} /\ refused' \in BOOLEAN
          /\ Open' \subseteq {dev'}
          /\ dev' # None => dev' \in Open' \/ (platform = "hiddata" /\ refused')
      BY <1>3, <1>5, <2>1
    <2>4. Holds'
      BY <1>2, <1>3, <1>5, <2>2, <2>3 DEF Holds
    <2>5. Loops' /\ pc' \in Places
      BY <1>2, <2>2 DEF IInv, Loops, Places
    <2> QED  BY <1>2, <1>3, <2>3, <2>4, <2>5 DEF IInv
  <1> QED  BY <1>4, <1>5

\* The loop opens the next device.
LEMMA ReopensStep == ASSUME IInv, cmd # "library", Reopens PROVE IInv'
  <1>1. /\ pc \in {"reopens", "reopening"} /\ cmd = "settime" /\ UNCHANGED <<cmd, ids, done>>
        /\ i \in 0..cache_max /\ i < NumDevicesToUse
    BY DEF Reopens, IInv, Loops, program
  <1>2. cache_max \in Nat /\ NumDevicesToUse \in Nat /\ NumDevicesToUse <= cache_max /\ \A k \in Nat : DeviceId(k) \in Nat
    BY Numbers, CacheAssumption DEF IInv, LibInv, CacheInv, CacheTypes
  <1>3. i + 1 \in 0..cache_max /\ DeviceId(i) \in Nat
    BY <1>1, <1>2
  <1>4. /\ (pc \in {"opens", "reopens"} /\ LibOpenById(DeviceId(i))) \/ LibOpensBySerial
        /\ IF call' # NoCall THEN pc' = "reopening" /\ UNCHANGED <<dev, i, refused>>
           ELSE /\ dev' = Returned /\ refused' = (refused \/ Open' = Open)
                /\ IF dev' = None THEN Goes(i + 1) ELSE pc' = "sets" /\ UNCHANGED i
    BY DEF Reopens
  <1>5. /\ LibInv' /\ orphans' = {} /\ UNCHANGED <<platform, cstbase_cached_count>>
        /\ static_dev' \in Handles \cup {None}
        /\ call' # NoCall => Open' = {}
        /\ call' = NoCall /\ dev' = Returned /\ refused' = (refused \/ Open' = Open) =>
             /\ dev' \in Handles \cup {None} /\ refused' \in BOOLEAN
             /\ Open' \subseteq {dev'} /\ (dev' = None => Open' = {})
             /\ dev' # None => dev' \in Open' \/ (platform = "hiddata" /\ refused')
    BY <1>1, <1>3, <1>4, OpenEnded
  <1>6. NumDevicesToUse' = NumDevicesToUse
    BY <1>1, <1>5, SameNumber
  <1>7. CASE call' # NoCall
    <2>1. pc' = "reopening" /\ UNCHANGED <<dev, i, refused>>
      BY <1>4, <1>7
    <2>2. Holds'
      BY <1>1, <1>5, <1>7, <2>1 DEF IInv, Holds
    <2>3. Loops' /\ pc' \in Places
      BY <1>1, <1>6, <2>1 DEF Loops, Places
    <2> QED  BY <1>1, <1>5, <2>1, <2>2, <2>3 DEF IInv
  <1>8. CASE call' = NoCall
    <2>1. /\ dev' = Returned /\ refused' = (refused \/ Open' = Open)
          /\ IF dev' = None THEN Goes(i + 1) ELSE pc' = "sets" /\ UNCHANGED i
      BY <1>4, <1>8
    <2>2. /\ dev' \in Handles \cup {None} /\ refused' \in BOOLEAN
          /\ Open' \subseteq {dev'} /\ (dev' = None => Open' = {})
          /\ dev' # None => dev' \in Open' \/ (platform = "hiddata" /\ refused')
      BY <1>5, <1>8, <2>1
    <2>3. CASE dev' = None
      BY <1>1, <1>3, <1>5, <1>8, <2>1, <2>2, <2>3, GoesStep DEF program
    <2>4. CASE dev' # None
      <3>1. pc' = "sets" /\ UNCHANGED i
        BY <2>1, <2>4
      <3>2. Holds'
        BY <1>1, <1>5, <1>8, <2>2, <3>1 DEF Holds
      <3>3. Loops' /\ pc' \in Places
        BY <1>1, <1>6, <3>1 DEF Loops, Places
      <3> QED  BY <1>1, <1>5, <2>2, <3>2, <3>3 DEF IInv
    <2> QED  BY <2>3, <2>4
  <1> QED  BY <1>7, <1>8

\* The program closes, before the loop or in it.
LEMMA ClosesStep == ASSUME IInv, cmd # "library", Closes \/ Recloses PROVE IInv'
  <1>1. /\ pc \in {"closes", "recloses"} /\ LibClose(dev) /\ UNCHANGED <<cmd, ids, program, dev, done, refused>>
        /\ IF cmd = "settime" THEN Goes(0) \/ (pc = "recloses" /\ Goes(i + 1)) ELSE pc' = "ended" /\ UNCHANGED i
    BY DEF Closes, Recloses, program
  <1>2. LibInv /\ call = NoCall /\ Open \subseteq {dev} /\ dev \in Handles \cup {None}
    BY <1>1 DEF IInv, Holds
  <1>3. LibInv' /\ Open' = {} /\ orphans' = {} /\ call' = NoCall /\ UNCHANGED <<static_dev, platform, cstbase_cached_count>>
    BY <1>1, <1>2, CloseEffect
  <1>4. CASE cmd = "settime"
    <2>1. cache_max \in Nat /\ 0 \in 0..cache_max
      BY CacheAssumption
    <2>2. pc = "recloses" => i + 1 \in 0..cache_max
      <3>1. NumDevicesToUse \in Nat /\ NumDevicesToUse <= cache_max
        BY Numbers DEF IInv, LibInv, CacheInv, CacheTypes
      <3> QED  BY <1>4, <2>1, <3>1 DEF IInv, Loops
    <2>3. PICK k \in 0..cache_max : Goes(k)
      BY <1>1, <1>4, <2>1, <2>2
    <2>4. static_dev' \in Handles \cup {None} /\ dev' \in Handles \cup {None} /\ refused' \in BOOLEAN
      BY <1>1, <1>3 DEF IInv, Holds
    <2> QED  BY <1>1, <1>3, <1>4, <2>3, <2>4, GoesStep
  <1>5. CASE cmd # "settime"
    <2>1. pc' = "ended" /\ UNCHANGED i
      BY <1>1, <1>5
    <2>2. Holds'
      BY <1>1, <1>3, <1>5, <2>1 DEF IInv, Holds
    <2>3. Loops' /\ pc' \in Places
      BY <1>1, <2>1 DEF IInv, Loops, Places
    <2> QED  BY <1>1, <1>3, <2>2, <2>3 DEF IInv
  <1> QED  BY <1>4, <1>5

\* A command writes, or reads; nothing is opened or closed.
LEMMA UsesStep == ASSUME IInv, cmd # "library", Asks \/ Sets PROVE IInv'
  <1>1. UNCHANGED <<cache, system, alive, call, of, current, listed, static_dev, cmd, ids, dev, i, orphans, refused>>
    BY DEF Asks, Sets, vars, program
  <1>2. \/ pc = "asks" /\ pc' \in {"closes", "ended"} /\ done' = done
        \/ pc = "sets" /\ pc' = "recloses" /\ done' = IF current /\ dev \in Open THEN done \cup {of[dev]} ELSE done
    BY DEF Asks, Sets
  <1>3. LibInv' /\ Open' = Open /\ UNCHANGED <<platform, cstbase_cached_count>>
    BY <1>1, SameLibrary DEF IInv
  <1>4. Holds'
    BY <1>1, <1>2, <1>3 DEF IInv, Holds
  <1>5. Loops'
    <2>1. NumDevicesToUse' = NumDevicesToUse
      BY <1>1, <1>3, SameNumber
    <2> QED  BY <1>1, <1>2, <2>1 DEF IInv, Loops
  <1>6. pc' \in Places /\ cmd' \in Commands \cup {"library"} /\ ids' \in Options /\ refused' \in BOOLEAN
    BY <1>1, <1>2 DEF IInv, Places
  <1>7. done' \subseteq Devices
    <2>1. \A h \in Open : of[h] \in Devices
      BY DEF IInv, LibInv, CacheInv, CacheTypes, Open
    <2> QED  BY <1>2, <2>1 DEF IInv
  <1> QED  BY <1>3, <1>4, <1>5, <1>6, <1>7 DEF IInv

\* The next program
LEMMA RunsStep == ASSUME IInv, cmd # "library", Runs PROVE IInv'
  <1>1. LibInv' /\ Open' = {} /\ call' = NoCall /\ UNCHANGED platform
    BY RestartStep DEF Runs, IInv
  <1>2. /\ cmd' \in Commands /\ ids' \in Options /\ pc' = "enumerates" /\ dev' = None /\ i' = 0
        /\ static_dev' = None /\ orphans' = {} /\ done' = {} /\ refused' = FALSE
    BY DEF Runs
  <1>3. Holds'
    <2>1. cmd' # "library"
      BY <1>2 DEF Commands
    <2> QED  BY <1>1, <1>2, <2>1 DEF Holds
  <1>4. Loops'
    BY <1>2, CacheAssumption DEF Loops
  <1> QED  BY <1>1, <1>2, <1>3, <1>4 DEF IInv, Places

\* Any program over the library
LEMMA LibraryStep ==
    ASSUME IInv, cmd = "library", Client \/ (~alive /\ Restart),
           UNCHANGED <<static_dev, program, pc, dev, i, orphans, done, refused>>
    PROVE  IInv'
  <1>1. LibInv /\ platform # "hiddata" /\ CacheInv
    BY DEF IInv, Holds, LibInv
  <1>2. LibInv' /\ UNCHANGED platform
    <2>1. CASE Restart
      BY <1>1, <2>1, RestartStep
    <2>2. CASE OpensBySerial
      BY <1>1, <2>2, OpensBySerialStep
    <2>3. CASE call = NoCall /\ Enumerate
      BY <1>1, <2>3, LibEnumerateStep
    <2>4. CASE call = NoCall /\ \E k \in 0..cache_max : OpenById(k)
      <3>1. PICK k \in 0..cache_max : OpenById(k)
        BY <2>4
      <3>2. k \in Nat
        BY CacheAssumption
      <3> QED  BY <1>1, <2>4, <3>1, <3>2, OpenByIdStep
    <2>5. CASE call = NoCall /\ \E d \in Devices : OpenById(Serial[d])
      <3>1. PICK d \in Devices : OpenById(Serial[d])
        BY <2>5
      <3>2. Serial[d] \in Nat
        BY CacheAssumption
      <3> QED  BY <1>1, <2>5, <3>1, <3>2, OpenByIdStep
    <2>6. CASE call = NoCall /\ \E h \in Open \cup {None} : Close(h)
      <3>1. PICK h \in Handles \cup {None} : Close(h)
        BY <2>6 DEF Open
      <3> QED  BY <1>1, <3>1, LibCloseStep
    <2> QED  BY <2>1, <2>2, <2>3, <2>4, <2>5, <2>6 DEF Client
  <1>3. Holds' /\ Loops'
    BY <1>2 DEF IInv, Holds, Loops, program
  <1> QED  BY <1>2, <1>3 DEF IInv, program

\* Stations are plugged in and out, and the program goes on later.
LEMMA SystemStep ==
    ASSUME IInv, \/ Stations /\ UNCHANGED <<static_dev, program, pc, dev, i, orphans, done, refused>>
                 \/ UNCHANGED allVars
    PROVE  IInv'
  <1>1. UNCHANGED <<static_dev, cmd, ids, pc, dev, i, orphans, done, refused>>
    BY DEF allVars, program
  <1>2. LibInv' /\ Open' = Open /\ (call = NoCall => call' = NoCall) /\ UNCHANGED <<platform, cstbase_cached_count>>
    <2>1. CASE Stations
      BY <2>1, StationsStep DEF IInv, cache
    <2>2. CASE UNCHANGED allVars
      <3>1. UNCHANGED <<cache, system, alive, call, of, current, listed>>
        BY <2>2 DEF allVars, vars
      <3> QED  BY <3>1, SameLibrary DEF IInv
    <2> QED  BY <2>1, <2>2
  <1>3. Holds'
    BY <1>1, <1>2 DEF IInv, Holds
  <1>4. Loops'
    <2>1. NumDevicesToUse' = NumDevicesToUse
      BY <1>1, <1>2, SameNumber
    <2> QED  BY <1>1, <2>1 DEF IInv, Loops
  <1> QED  BY <1>1, <1>2, <1>3, <1>4 DEF IInv

\* Every step of the programs, of their library and of the stations
LEMMA Step == IInv /\ [ProgramNext]_allVars => IInv'
  <1> SUFFICES ASSUME IInv, [ProgramNext]_allVars PROVE IInv'
    OBVIOUS
  <1>1. CASE \/ Stations /\ UNCHANGED <<static_dev, program, pc, dev, i, orphans, done, refused>>
             \/ UNCHANGED allVars
    BY <1>1, SystemStep
  <1>2. CASE /\ cmd = "library" /\ (Client \/ (~alive /\ Restart))
             /\ UNCHANGED <<static_dev, program, pc, dev, i, orphans, done, refused>>
    BY <1>2, LibraryStep
  <1>3. CASE cmd # "library" /\ (Program \/ Runs)
    BY <1>3, EnumeratesStep, OpensFirstStep, UsesStep, ClosesStep, ReopensStep, RunsStep DEF Program
  <1> QED  BY <1>1, <1>2, <1>3 DEF ProgramNext

\* The invariant holds for any stations, paths, handles, slots, --id lists and backends.
THEOREM Invariance == ProgramSpec => []IInv
  <1> QED  BY Starts, Step, PTL DEF ProgramSpec

\* Type correctness of the library and the programs over it.
THEOREM TypeCorrect == ProgramSpec => []ProgramTypeOK
  <1>1. IInv => ProgramTypeOK
    <2>1. IInv => TypeOK
      BY DEF IInv, LibInv, CacheInv, CacheTypes, SlotType, CallOK, Placed, TypeOK
    <2>2. IInv => orphans \subseteq Open
      BY DEF IInv, Holds
    <2> QED  BY <2>1, <2>2 DEF IInv, Holds, Loops, ProgramTypeOK
  <1> QED  BY <1>1, Invariance, PTL

\* The cache never points at freed memory, and at no handle twice.
THEOREM CachePointsAtOpenHandles == ProgramSpec => []NoDanglingHandle
  <1>1. IInv => NoDanglingHandle
    BY DEF IInv, LibInv, CacheInv
  <1> QED  BY <1>1, Invariance, PTL

\* cstbase_getSerialForDev gives the serial number of the station the handle was opened on.
THEOREM SerialOfTheStation == ProgramSpec => []SerialForDevRight
  <1>1. ASSUME IInv PROVE SerialForDevRight
    <2>1. ListedOK /\ listed \subseteq Handles
      BY <1>1 DEF IInv, LibInv, CacheInv, CacheTypes, Open
    <2>2. ASSUME NEW h \in listed, IndexByDev(h) # None
          PROVE  cstbase_infos[IndexByDev(h)].serial \in {Serial[of[h]], EmptyStr}
      <3>1. IndexByDev(h) \in Slots /\ cstbase_infos[IndexByDev(h)].dev = h
        BY <2>2, Indices
      <3> QED  BY <2>1, <3>1 DEF ListedOK
    <2> QED  BY <2>2 DEF SerialForDevRight
  <1> QED  BY <1>1, Invariance, PTL

\* The programs write, read and close only handles that are open and have a library.
THEOREM HandlesLive == ProgramSpec => []UsesLiveHandle
  <1>1. IInv => UsesLiveHandle
    BY DEF IInv, Holds, UsesLiveHandle
  <1> QED  BY <1>1, Invariance, PTL
-----------------------------------------------------------------------------
\* The stations a number names: at the path of a slot, or with a serial number
InSlot(n) == { d \in Plugged : n < cstbase_cached_count /\ at[d] = cstbase_infos[n].path }
Meant(n)  == IF n > cache_max THEN { d \in Plugged : Serial[d] = Hexadecimal(n) } ELSE InSlot(n)
Aimed(k)  == Meant(DeviceId(k))

SamePaths == \A k \in Slots : cstbase_infos'[k].path = cstbase_infos[k].path

\* hexread and strtol, which decide what number main opens by

\* A word smaller than 256 is its first byte.
LEMMA WordBytes ==
    ASSUME NEW l \in IdLists, NEW k \in Nat
    PROVE  /\ Len(l) \in Nat \ {0} /\ l \in [1..Len(l) -> 0..255]
           /\ Word(l, k) \in Nat /\ Byte(l, 4*k) \in 0..255
           /\ Word(l, k) < 256 => /\ Word(l, k) = Byte(l, 4*k)
                                  /\ Byte(l, 4*k + 1) = 0 /\ Byte(l, 4*k + 2) = 0 /\ Byte(l, 4*k + 3) = 0
  <1>1. l \in Seq(0..255) /\ l # <<>>
    BY ProgramAssumption, Zenon
  <1>2. Len(l) \in Nat \ {0} /\ l \in [1..Len(l) -> 0..255]
    <2>1. Len(l) \in Nat /\ l \in [1..Len(l) -> 0..255]
      BY <1>1, LenProperties
    <2>2. Len(l) # 0
      BY <1>1, EmptySeq
    <2> QED  BY <2>1, <2>2
  <1>3. ASSUME NEW n \in Nat PROVE Byte(l, n) \in 0..255
    <2>1. CASE n < Len(l)
      <3>1. n + 1 \in 1..Len(l)
        BY <1>2, <2>1
      <3> QED  BY <1>2, <2>1, <3>1 DEF Byte
    <2>2. CASE ~(n < Len(l))
      BY <2>2 DEF Byte
    <2> QED  BY <2>1, <2>2
  <1>4. 4*k \in Nat /\ 4*k + 1 \in Nat /\ 4*k + 2 \in Nat /\ 4*k + 3 \in Nat
    OBVIOUS
  <1>5. PICK a \in 0..255, b \in 0..255, c \in 0..255, d \in 0..255 :
           a = Byte(l, 4*k) /\ b = Byte(l, 4*k + 1) /\ c = Byte(l, 4*k + 2) /\ d = Byte(l, 4*k + 3)
    BY <1>3, <1>4
  <1>6. Word(l, k) = a + 256 * (b + 256 * (c + 256 * d))
    BY <1>5 DEF Word
  <1>7. ASSUME NEW w, w = a + 256 * (b + 256 * (c + 256 * d))
        PROVE  w \in Nat /\ (w < 256 => w = a /\ b = 0 /\ c = 0 /\ d = 0)
    BY ONLY <1>7, a \in 0..255, b \in 0..255, c \in 0..255, d \in 0..255
  <1> QED  BY <1>2, <1>5, <1>6, <1>7

\* The list of --id has no index of the slot after the last, which is not a station's.
InSlots == ids.kind = "list" => \A k \in DOMAIN ids.list : ids.list[k] # cache_max

\* The option is of one of four kinds.
LEMMA Kinds ==
    ASSUME ids \in Options
    PROVE  \/ ids.kind = "none" \/ ids.kind = "all"
           \/ ids.kind = "serial" /\ \E d \in Devices : ids.serial = Serial[d]
           \/ ids.kind = "list" /\ ids.list \in IdLists
  BY DEF Options

\* Nothing is opened by the index after the last.
LEMMA Apt ==
    ASSUME NumbersApart, ids \in Options, InSlots, cstbase_cached_count \in 0..cache_max,
           NEW k \in Nat, k = 0 \/ k < NumDevicesToUse
    PROVE  DeviceId(k) # cache_max
  <1>1. cache_max \in Nat \ {0} /\ cache_max < 256 /\ LongMax \in Nat /\ LongMax > cache_max
    BY CacheAssumption, ProgramAssumption DEF NumbersApart
  <1>2. CASE ids.kind = "none"
    BY <1>1, <1>2 DEF DeviceId
  <1>3. CASE ids.kind = "all"
    BY <1>1, <1>3 DEF DeviceId, NumDevicesToUse
  <1>4. CASE ids.kind = "serial" /\ \E d \in Devices : ids.serial = Serial[d]
    <2>1. ids.serial > cache_max
      BY <1>4 DEF NumbersApart
    <2> QED  BY <1>1, <1>4, <2>1 DEF DeviceId, Strtol
  <1>5. CASE ids.kind = "list" /\ ids.list \in IdLists
    <2>1. DeviceId(k) = Word(ids.list, k)
      BY <1>5 DEF DeviceId
    <2>2. ASSUME Word(ids.list, k) = cache_max PROVE FALSE
      <3>1. Byte(ids.list, 4*k) = cache_max /\ ids.list \in [1..Len(ids.list) -> 0..255] /\ Len(ids.list) \in Nat
        BY <1>1, <1>5, <2>2, WordBytes
      <3>2. 4*k < Len(ids.list) /\ ids.list[4*k + 1] = cache_max
        BY <1>1, <3>1 DEF Byte
      <3>3. 4*k + 1 \in DOMAIN ids.list
        BY <3>1, <3>2
      <3> QED  BY <1>5, <3>2, <3>3 DEF InSlots
    <2> QED  BY <2>1, <2>2
  <1> QED  BY <1>2, <1>3, <1>4, <1>5, Kinds

\* No two stations are meant by one number.
LEMMA SingleAim ==
    ASSUME NumbersApart, Placed, NEW n, NEW d \in Meant(n), NEW e \in Meant(n)
    PROVE  d = e
  BY DEF Meant, InSlot, NumbersApart, Placed, Plugged

\* Every number main opens by names what the user named, if it could open the first.
LEMMA AimedAreNamed ==
    ASSUME NumbersApart, ids \in Options, InSlots, cstbase_cached_count \in 0..cache_max,
           Aimed(0) # {}, NEW k \in Nat, k < NumDevicesToUse
    PROVE  Aimed(k) \subseteq Named
  <1>1. cache_max \in Nat \ {0} /\ cache_max < 256 /\ LongMax \in Nat /\ LongMax > cache_max
    BY CacheAssumption, ProgramAssumption DEF NumbersApart
  <1>2. CASE ids.kind = "none"
    <2>1. k = 0 /\ Named = InSlot(0) /\ DeviceId(k) = 0
      BY <1>2 DEF NumDevicesToUse, Named, InSlot, DeviceId
    <2> QED  BY <1>1, <2>1 DEF Aimed, Meant
  <1>3. CASE ids.kind = "all"
    <2>1. k \in 0..(cstbase_cached_count - 1) /\ DeviceId(k) = k /\ ~(k > cache_max)
      BY <1>1, <1>3 DEF NumDevicesToUse, DeviceId
    <2>2. Named = UNION { InSlot(m) : m \in 0..(cstbase_cached_count - 1) }
      BY <1>3 DEF Named, InSlot
    <2> QED  BY <2>1, <2>2 DEF Aimed, Meant
  <1>4. CASE ids.kind = "serial" /\ \E d \in Devices : ids.serial = Serial[d]
    <2>1. PICK d \in Devices : ids.serial = Serial[d]
      BY <1>4
    <2>2. k = 0 /\ DeviceId(k) = Strtol(Serial[d]) /\ Named = { e \in Plugged : Serial[e] = Serial[d] }
      BY <1>4, <2>1 DEF NumDevicesToUse, DeviceId, Named
    <2>3. Serial[d] \in Nat /\ Strtol(Serial[d]) > cache_max
      BY <1>1, CacheAssumption DEF NumbersApart, Strtol
    <2>4. Aimed(k) = { e \in Plugged : Serial[e] = Hexadecimal(Strtol(Serial[d])) }
      BY <2>2, <2>3 DEF Aimed, Meant
    <2>5. ASSUME NEW e \in Aimed(k) PROVE e \in Named
      <3>1. e \in Plugged /\ e \in Devices /\ Serial[e] = Hexadecimal(Strtol(Serial[d]))
        BY <2>4 DEF Plugged
      <3>2. Serial[e] = Strtol(Serial[d])
        BY <3>1, CacheAssumption DEF Hexadecimal
      <3>3. e = d
        BY <3>1, <3>2 DEF NumbersApart
      <3> QED  BY <2>2, <3>1, <3>3
    <2> QED  BY <2>5
  <1>5. CASE ids.kind = "list" /\ ids.list \in IdLists
    <2> DEFINE l == ids.list
    <2>1. Len(l) \in Nat \ {0} /\ l \in [1..Len(l) -> 0..255] /\ NumDevicesToUse = Len(l)
      BY <1>5, WordBytes DEF NumDevicesToUse
    <2>2. Named = UNION { InSlot(l[j]) : j \in DOMAIN l }
      BY <1>5 DEF Named, InSlot
    <2>3. ASSUME NEW m \in Nat, m < Len(l), Aimed(m) # {}
          PROVE  Word(l, m) < 256 /\ Aimed(m) = InSlot(Word(l, m))
      <3>1. DeviceId(m) = Word(l, m) /\ Word(l, m) \in Nat /\ m + 1 \in DOMAIN l /\ (m + 1) - 1 = m
        BY <1>5, <2>1, <2>3, WordBytes DEF DeviceId
      <3>2. \A d \in Devices : Hexadecimal(Word(l, m)) # Serial[d]
        BY <1>5, <3>1 DEF NumbersApart
      <3>3. ~(Word(l, m) > cache_max)
        BY <2>3, <3>1, <3>2 DEF Aimed, Meant, Plugged
      <3> QED  BY <1>1, <3>1, <3>3 DEF Aimed, Meant
    <2> HIDE DEF l
    <2>4. Word(l, 0) < 256
      BY <2>1, <2>3
    <2>5. CASE Aimed(k) = {}
      BY <2>5
    <2>6. CASE Aimed(k) # {}
      <3>1. Word(l, k) = Byte(l, 4*k) /\ Aimed(k) = InSlot(Word(l, k))
        BY <1>5, <2>1, <2>3, <2>6, WordBytes DEF l
      <3>2. CASE 4*k < Len(l)
        <4>1. Byte(l, 4*k) = l[4*k + 1] /\ 4*k + 1 \in DOMAIN l
          BY <2>1, <3>2 DEF Byte
        <4> QED  BY <2>2, <3>1, <4>1
      <3>3. CASE ~(4*k < Len(l))
        <4>1. Byte(l, 4*k) = 0 /\ 1 < Len(l)
          BY <2>1, <3>3 DEF Byte
        <4>2. Byte(l, 4*0 + 1) = 0
          BY <1>5, <2>4, WordBytes DEF l
        <4>3. l[2] = 0 /\ 2 \in DOMAIN l
          BY <2>1, <4>1, <4>2 DEF Byte
        <4> QED  BY <2>2, <3>1, <4>1, <4>3
      <3> QED  BY <3>2, <3>3
    <2> QED  BY <2>5, <2>6
  <1> QED  BY <1>2, <1>3, <1>4, <1>5, Kinds

\* ... and there is none named that no number names, if it could open all.
LEMMA NamedAreAimed ==
    ASSUME NumbersApart, ids \in Options, InSlots, cstbase_cached_count \in 0..cache_max,
           \A k \in 0..(NumDevicesToUse - 1) : Aimed(k) # {},
           NEW d \in Named
    PROVE  \E k \in 0..(NumDevicesToUse - 1) : d \in Aimed(k)
  <1>1. cache_max \in Nat \ {0} /\ cache_max < 256 /\ LongMax \in Nat /\ LongMax > cache_max
    BY CacheAssumption, ProgramAssumption DEF NumbersApart
  <1>2. CASE ids.kind = "none"
    <2>1. NumDevicesToUse = 1 /\ Named = InSlot(0) /\ DeviceId(0) = 0
      BY <1>2 DEF NumDevicesToUse, Named, InSlot, DeviceId
    <2> QED  BY <1>1, <2>1 DEF Aimed, Meant
  <1>3. CASE ids.kind = "all"
    <2>1. PICK k \in 0..(cstbase_cached_count - 1) : d \in InSlot(k)
      BY <1>3 DEF Named, InSlot
    <2>2. DeviceId(k) = k /\ ~(k > cache_max) /\ NumDevicesToUse = cstbase_cached_count
      BY <1>1, <1>3 DEF NumDevicesToUse, DeviceId
    <2> QED  BY <2>1, <2>2 DEF Aimed, Meant
  <1>4. CASE ids.kind = "serial" /\ \E e \in Devices : ids.serial = Serial[e]
    <2>1. PICK e \in Devices : ids.serial = Serial[e]
      BY <1>4
    <2>2. NumDevicesToUse = 1 /\ DeviceId(0) = Strtol(Serial[e]) /\ d \in Plugged /\ d \in Devices /\ Serial[d] = Serial[e]
      BY <1>4, <2>1 DEF NumDevicesToUse, DeviceId, Named, Plugged
    <2>3. Serial[e] \in Nat /\ Strtol(Serial[e]) > cache_max
      BY <1>1, CacheAssumption DEF NumbersApart, Strtol
    <2>4. Aimed(0) = { f \in Plugged : Serial[f] = Hexadecimal(Strtol(Serial[e])) }
      BY <2>2, <2>3 DEF Aimed, Meant
    <2>5. PICK f \in Aimed(0) : TRUE
      BY <2>2
    <2>6. f \in Devices /\ Serial[f] = Hexadecimal(Strtol(Serial[e]))
      BY <2>4 DEF Plugged
    <2>7. Serial[f] = Strtol(Serial[e])
      BY <2>6, CacheAssumption DEF Hexadecimal
    <2>8. f = e /\ d = e
      BY <2>2, <2>6, <2>7 DEF NumbersApart
    <2> QED  BY <2>2, <2>5, <2>8
  <1>5. CASE ids.kind = "list" /\ ids.list \in IdLists
    <2> DEFINE l == ids.list
    <2>1. Len(l) \in Nat \ {0} /\ l \in [1..Len(l) -> 0..255] /\ NumDevicesToUse = Len(l)
      BY <1>5, WordBytes DEF NumDevicesToUse
    <2>2. PICK j \in 1..Len(l) : d \in InSlot(l[j])
      BY <1>5, <2>1 DEF Named, InSlot
    <2>3. ASSUME NEW m \in Nat, m < Len(l)
          PROVE  Word(l, m) < 256 /\ Aimed(m) = InSlot(Word(l, m))
      <3>1. DeviceId(m) = Word(l, m) /\ Word(l, m) \in Nat /\ m + 1 \in DOMAIN l /\ (m + 1) - 1 = m /\ m \in 0..(Len(l) - 1)
        BY <1>5, <2>1, <2>3, WordBytes DEF DeviceId
      <3>2. \A e \in Devices : Hexadecimal(Word(l, m)) # Serial[e]
        BY <1>5, <3>1 DEF NumbersApart
      <3>3. Aimed(m) # {}
        BY <2>1, <3>1
      <3>4. ~(Word(l, m) > cache_max)
        BY <3>1, <3>2, <3>3 DEF Aimed, Meant, Plugged
      <3> QED  BY <1>1, <3>1, <3>4 DEF Aimed, Meant
    <2> HIDE DEF l
    <2>4. PICK k \in Nat, r \in 0..3 : j - 1 = 4*k + r
      <3>1. ASSUME NEW n \in Nat PROVE \E k \in Nat, r \in 0..3 : n = 4*k + r
        <4>1. n \div 4 \in Nat /\ n % 4 \in 0..3 /\ n = 4 * (n \div 4) + (n % 4)
          BY ONLY n \in Nat
        <4> QED  BY <4>1
      <3>2. j - 1 \in Nat
        BY <2>1
      <3> QED  BY <3>1, <3>2
    <2>5. k < Len(l) /\ k \in 0..(Len(l) - 1) /\ Word(l, k) = Byte(l, 4*k)
          /\ Byte(l, 4*k + 1) = 0 /\ Byte(l, 4*k + 2) = 0 /\ Byte(l, 4*k + 3) = 0
      <3>1. k < Len(l) /\ k \in 0..(Len(l) - 1)
        BY <2>1, <2>4
      <3> QED  BY <1>5, <2>3, <3>1, WordBytes DEF l
    <2>6. CASE r = 0
      <3>1. Byte(l, 4*k) = l[j]
        BY <2>1, <2>4, <2>6 DEF Byte
      <3> QED  BY <2>1, <2>2, <2>3, <2>5, <3>1
    <2>7. CASE r # 0
      <3>1. Byte(l, 4*k + r) = l[j] /\ l[j] = 0
        <4>1. Byte(l, 4*k + r) = l[j]
          BY <2>1, <2>4 DEF Byte
        <4> QED  BY <2>5, <2>7, <4>1
      <3>2. 1 < Len(l)
        BY <2>1, <2>4, <2>7
      <3> DEFINE m == Len(l) - 1
      <3>3. m \in 0..(Len(l) - 1) /\ m \in Nat /\ m < Len(l) /\ ~(4*m < Len(l))
        <4>1. ASSUME NEW n \in Nat, 1 < n
              PROVE  n - 1 \in 0..(n - 1) /\ n - 1 \in Nat /\ n - 1 < n /\ ~(4 * (n - 1) < n)
          BY ONLY n \in Nat, <4>1
        <4> QED  BY <2>1, <3>2, <4>1
      <3> HIDE DEF m
      <3>4. Byte(l, 4*m) = 0 /\ Word(l, m) = Byte(l, 4*m)
        BY <1>5, <2>1, <2>3, <3>3, WordBytes DEF Byte, l
      <3> QED  BY <2>1, <2>2, <2>3, <3>1, <3>3, <3>4
    <2> QED  BY <2>6, <2>7
  <1> QED  BY <1>2, <1>3, <1>4, <1>5, Kinds
-----------------------------------------------------------------------------
\* What cstbase_enumerate does not fill stays as it was, without a path.
LEMMA EnumerateLeaves ==
    ASSUME CacheInv, Enumerate, \A k \in Slots : cstbase_infos[k].path = None
    PROVE  \A k \in Slots : k >= cstbase_cached_count' => cstbase_infos'[k].path = None
  <1>1. PICK nodes \in Nodes :
           /\ cstbase_cached_count' = Len(Found(nodes))
           /\ cstbase_infos' \in Sorted(Filled(Found(nodes)), Len(Found(nodes)))
    BY DEF Enumerate
  <1> DEFINE n == Len(Found(nodes))
  <1>2. n \in Nat
    BY FoundIsTrue DEF CacheInv
  <1>3. PICK q : cstbase_infos' = [k \in Slots |-> IF k < n THEN Filled(Found(nodes))[q[k + 1]] ELSE Filled(Found(nodes))[k]]
    BY <1>1 DEF Sorted
  <1>4. ASSUME NEW k \in Slots, k >= n PROVE cstbase_infos'[k] = cstbase_infos[k]
    <2>1. ~(k < n)
      BY <1>2, <1>4, CacheAssumption DEF Slots
    <2> HIDE DEF n
    <2>2. cstbase_infos'[k] = Filled(Found(nodes))[k]
      BY <1>3, <2>1
    <2> QED  BY <2>1, <2>2 DEF Filled, n
  <1> QED  BY <1>1, <1>4

\* A slot keeps its path when it takes a handle.
LEMMA RemembersPath ==
    ASSUME cstbase_infos \in [Slots -> SlotType], NEW k \in Slots \cup {None}, NEW h, Remembers(k, h)
    PROVE  SamePaths
  BY Indices DEF Remembers, SamePaths, SlotType

\* hid_open_path: what is opened is at that path, or a path of a Mac was empty.
LEMMA OpensAt ==
    ASSUME CacheInv, NEW p, NEW k \in Slots \cup {None}, Opens(p, k) \/ Fails(k)
    PROVE  /\ SamePaths /\ (current' => current)
           /\ \A h \in Open' \ Open : /\ of'[h] \in Plugged
                                      /\ p # None => at[of'[h]] = p
                                      /\ p = None => platform = "mac"
           /\ current' => \A h \in Open' \ Open : p # None
  <1>1. /\ cstbase_infos \in [Slots -> SlotType] /\ of \in [Handles -> Devices \cup {None}]
        /\ None \notin Handles /\ None \notin Devices /\ current \in BOOLEAN /\ Placed
    BY CacheAssumption DEF CacheInv, CacheTypes
  <1>2. CASE Fails(k)
    BY <1>1, <1>2, RemembersPath DEF Fails, Open
  <1>3. CASE Opens(p, k)
    <2>1. PICK nodes \in Nodes, h \in Handles \ Open : \E n \in HidOpenPath(platform, nodes, p) :
            of' = [of EXCEPT ![h] = n.dev] /\ Remembers(k, h) /\ current' = (current /\ p # None)
      BY <1>3 DEF Opens
    <2>2. PICK n \in HidOpenPath(platform, nodes, p) :
            of' = [of EXCEPT ![h] = n.dev] /\ Remembers(k, h) /\ current' = (current /\ p # None)
      BY <2>1
    <2>3. n \in Node /\ (p # None => at[n.dev] = p) /\ (p = None => platform = "mac")
      BY <1>1, OpensWhatIsThere
    <2>4. n.dev \in Plugged
      BY <2>3 DEF Node
    <2>5. current' => current /\ p # None
      BY <2>2, Zenon
    <2>6. \A g \in Open' \ Open : g = h /\ of'[g] = n.dev
      BY <1>1, <2>2, <2>4 DEF Open, Plugged
    <2> QED  BY <1>1, <2>2, <2>3, <2>4, <2>5, <2>6, RemembersPath
  <1> QED  BY <1>2, <1>3

\* A handle that is new while hid_open has yet to open comes from its second half.
LEMMA NewHandles ==
    ASSUME IInv, [ProgramNext]_allVars, NEW h \in Open' \ Open, call # NoCall
    PROVE  OpensBySerial
  <1>1. platform # "hiddata"
    BY DEF IInv, LibInv
  <1>2. h \in Handles /\ of[h] = None /\ of'[h] # None
    BY DEF Open
  <1>3. ~UNCHANGED of
    BY <1>2
  <1>4. ~Restart /\ \A g \in Handles \cup {None} : ~Close(g)
    BY <1>2 DEF Restart, Close
  <1>5. CASE cmd = "library" /\ (Client \/ (~alive /\ Restart))
    BY <1>4, <1>5 DEF Client
  <1>6. CASE Stations \/ UNCHANGED allVars
    BY <1>3, <1>6 DEF Stations, Plug, Unplug, Replugs, allVars, vars
  <1>7. CASE cmd # "library" /\ Runs
    BY <1>4, <1>7 DEF Runs
  <1>8. CASE cmd # "library" /\ Program
    <2>1. pc \in {"opening", "reopening"}
      BY <1>8 DEF IInv, Holds
    <2> QED  BY <1>1, <1>8, <2>1
             DEF Program, Enumerates, OpensFirst, Asks, Closes, Reopens, Sets, Recloses, LibOpensBySerial
  <1> QED  BY <1>5, <1>6, <1>7, <1>8 DEF ProgramNext

\* A station opened by serial number is the one asked for, but when another was plugged
\* in at its path between the two steps, or by the empty path of a Mac.
THEOREM RightStationOpened == ProgramSpec => OpensTheOneAskedFor
  <1> DEFINE Asked(h) == \/ Serial[of'[h]] = call.serial
                         \/ ~call.undisturbed
                         \/ platform = "mac" /\ call.path = None
  <1>1. IInv /\ [ProgramNext]_allVars => [\A h \in Open' \ Open : call # NoCall => Asked(h)]_vars
    <2> SUFFICES ASSUME IInv, [ProgramNext]_allVars, NEW h \in Open' \ Open, call # NoCall PROVE Asked(h)
      OBVIOUS
    <2>1. OpensBySerial /\ CacheInv /\ CallOK
      BY NewHandles DEF IInv, LibInv
    <2>2. \/ Opens(call.path, IndexBySerial(call.serial))
          \/ Fails(IndexBySerial(call.serial))
      BY <2>1 DEF OpensBySerial
    <2>3. IndexBySerial(call.serial) \in Slots \cup {None}
      BY Indices
    <2>4. /\ of'[h] \in Plugged
          /\ call.path # None => at[of'[h]] = call.path
          /\ call.path = None => platform = "mac"
      BY <2>1, <2>2, <2>3, OpensAt
    <2> QED  BY <2>1, <2>4 DEF CallOK
  <1> QED  BY <1>1, Invariance, PTL DEF ProgramSpec, OpensTheOneAskedFor

\* The open by a number, in one step or two: while nothing is plugged, it opens only
\* a station the number names.
LEMMA OpensWhatIsMeant ==
    ASSUME LibInv, platform # "hiddata", NEW n \in Nat,
           \A k \in Slots : k >= cstbase_cached_count => cstbase_infos[k].path = None,
           \/ call = NoCall /\ OpenById(n)
           \/ n > cache_max /\ call.serial = Hexadecimal(n) /\ OpensBySerial
    PROVE  /\ SamePaths /\ (current' => current) /\ UNCHANGED <<at, platform, cstbase_cached_count>>
           /\ call' # NoCall => n > cache_max /\ call'.serial = Hexadecimal(n)
           /\ current' /\ n # cache_max => \A h \in Open' \ Open : of'[h] \in Meant(n)
  <1>1. /\ CacheInv /\ CallOK /\ Placed /\ None \notin Slots /\ None \notin Devices /\ cache_max \in Nat \ {0}
        /\ cstbase_cached_count \in 0..cache_max /\ cstbase_infos \in [Slots -> SlotType] /\ current \in BOOLEAN
    BY CacheAssumption, Indices DEF LibInv, CacheInv, CacheTypes
  <1>2. CASE call = NoCall /\ OpenById(n) /\ n > cache_max
    <2> DEFINE s == Hexadecimal(n)
    <2>1. SearchesBySerial(s)
      BY <1>2 DEF OpenById
    <2>2. UNCHANGED <<at, platform, cstbase_cached_count>> /\ (call' = call \/ call'.serial = s)
          /\ (Fails(IndexBySerial(s)) \/ UNCHANGED <<cstbase_infos, of, current>>)
      BY <2>1 DEF SearchesBySerial, system
    <2>3. SamePaths /\ current' = current /\ of' = of
      <3>1. CASE Fails(IndexBySerial(s))
        <4>1. IndexBySerial(s) \in Slots \cup {None}
          BY Indices
        <4> QED  BY <1>1, <3>1, <4>1, RemembersPath DEF Fails
      <3>2. CASE UNCHANGED <<cstbase_infos, of, current>>
        BY <3>2 DEF SamePaths
      <3> QED  BY <2>2, <3>1, <3>2
    <2>4. Open' = Open
      BY <2>3 DEF Open
    <2> QED  BY <1>2, <2>2, <2>3, <2>4
  <1>3. CASE call = NoCall /\ OpenById(n) /\ ~(n > cache_max)
    <2>1. PICK p \in CachedPath(n) : OpenByPath(p)
      BY <1>3 DEF OpenById
    <2>2. UNCHANGED <<at, platform, call, cstbase_cached_count>>
      BY <2>1 DEF OpenByPath, system, cache
    <2>3. CASE p = None
      <3>1. UNCHANGED <<cstbase_infos, of, current>>
        BY <2>1, <2>3 DEF OpenByPath, cache
      <3> QED  BY <1>3, <2>2, <3>1 DEF SamePaths, Open
    <2>4. CASE p # None
      <3> DEFINE k == IndexByPath(p)
      <3>1. Opens(p, k) \/ Fails(k)
        BY <2>1, <2>4 DEF OpenByPath
      <3>2. k \in Slots \cup {None}
        BY Indices
      <3> HIDE DEF k
      <3>3. /\ SamePaths /\ (current' => current)
            /\ current' => \A h \in Open' \ Open : p # None /\ of'[h] \in Plugged /\ at[of'[h]] = p
        BY <1>1, <3>1, <3>2, OpensAt
      <3>4. n # cache_max => n \in Slots /\ n < cstbase_cached_count /\ p = cstbase_infos[n].path
        <4>1. n # cache_max => n \in Slots
          BY <1>1, <1>3 DEF Slots
        <4>2. n # cache_max => p = cstbase_infos[n].path
          BY <2>1, <4>1 DEF CachedPath
        <4> QED  BY <1>1, <2>4, <4>1, <4>2 DEF Slots
      <3>5. current' /\ n # cache_max => \A h \in Open' \ Open : of'[h] \in InSlot(n)
        BY <3>3, <3>4 DEF InSlot
      <3> QED  BY <1>3, <2>2, <3>3, <3>5 DEF Meant
    <2> QED  BY <2>3, <2>4
  <1>4. CASE n > cache_max /\ call.serial = Hexadecimal(n) /\ OpensBySerial
    <2> DEFINE k == IndexBySerial(call.serial)
    <2>1. call' = NoCall /\ (Opens(call.path, k) \/ Fails(k)) /\ UNCHANGED <<at, platform, cstbase_cached_count>>
      BY <1>4 DEF OpensBySerial, system
    <2>2. k \in Slots \cup {None}
      BY Indices
    <2> HIDE DEF k
    <2>3. /\ SamePaths /\ (current' => current)
          /\ current' => \A h \in Open' \ Open : call.path # None /\ of'[h] \in Plugged /\ at[of'[h]] = call.path
      BY <1>1, <2>1, <2>2, OpensAt
    <2>4. Hexadecimal(n) # EmptyStr
      BY <1>1, <1>4, CacheAssumption DEF Hexadecimal, EmptyStr
    <2>5. ASSUME current', NEW h \in Open' \ Open PROVE of'[h] \in Meant(n)
      <3>1. of'[h] \in Plugged /\ of'[h] \in Devices /\ at[of'[h]] = call.path /\ call.path # None /\ current
        BY <2>3, <2>5 DEF Plugged
      <3>2. call.serial \in {EmptyStr, Serial[of'[h]]}
        BY <1>1, <3>1 DEF CallOK
      <3> QED  BY <1>4, <2>4, <3>1, <3>2 DEF Meant
    <2> QED  BY <2>1, <2>3, <2>5
  <1> QED  BY <1>2, <1>3, <1>4
-----------------------------------------------------------------------------
\* Slots that no enumeration of this program has filled have no path.
Blank == platform # "hiddata" /\ cmd # "library" =>
            \A k \in Slots : pc = "enumerates" \/ k >= cstbase_cached_count => cstbase_infos[k].path = None

\* How main gets where it is
Ways == /\ pc = "asks" => cmd # "settime"
        /\ pc = "closes" => cmd \in {"settime", "version"}
        /\ pc \in {"sets", "recloses"} => cmd \in {"settime", "timeset"}
        /\ pc \in {"enumerates", "opens", "opening", "closes"} \/ cmd # "settime" => i = 0
        /\ pc = "enumerates" => done = {}
        /\ cmd = "timeset" => ids.kind = "none"

\* hid_open searches for the serial number that is device i.
Searching == pc \in {"opening", "reopening"} => DeviceId(i) > cache_max /\ call.serial = Hexadecimal(DeviceId(i))

\* What is said of the stations set is said while none is plugged in or out.
Judged == current /\ platform # "hiddata" /\ cmd # "library" /\ InSlots

\* The first n numbers each name a station, and it is set.
SetUpTo(n) == \A k \in 0..(n - 1) : \E d \in done : Aimed(k) = {d}

\* The loop of main: it sets what the numbers name, and has set all of those before i.
AimsRight == Judged =>
   /\ pc = "sets" => dev \in Open /\ of[dev] \in Aimed(i)
   /\ \A d \in done : \E k \in 0..(NumDevicesToUse - 1) : d \in Aimed(k)
   /\ done # {} \/ pc \in {"reopens", "reopening", "sets", "recloses"} \/ (pc = "closes" /\ cmd = "settime") => Aimed(0) # {}
   /\ cmd = "settime" /\ ~refused =>
        /\ pc \in {"reopens", "reopening", "sets"} => SetUpTo(i)
        /\ pc = "recloses" => SetUpTo(i + 1)
        /\ pc = "ended" /\ cstbase_cached_count > 0 => SetUpTo(NumDevicesToUse)

AimInv == Blank /\ Ways /\ Searching /\ AimsRight

\* While paths and option stay, the numbers go on naming the same stations.
LEMMA StillAimed ==
    ASSUME IInv, UNCHANGED <<cmd, ids, at, platform, cstbase_cached_count>>, SamePaths, current' => current
    PROVE  /\ \A k \in Nat : Aimed(k)' = Aimed(k) /\ DeviceId(k)' = DeviceId(k) /\ DeviceId(k) \in Nat
           /\ NumDevicesToUse' = NumDevicesToUse /\ NumDevicesToUse \in Nat /\ i \in Nat
           /\ Judged' => Judged
           /\ Blank /\ pc' # "enumerates" => Blank'
  <1>1. /\ NumDevicesToUse \in Nat /\ \A k \in Nat : DeviceId(k) \in Nat
        /\ cache_max \in Nat /\ cstbase_cached_count \in 0..cache_max /\ i \in Nat
    BY Numbers, CacheAssumption DEF IInv, LibInv, CacheInv, CacheTypes, Loops
  <1>2. NumDevicesToUse' = NumDevicesToUse
    BY SameNumber
  <1>3. ASSUME NEW k \in Nat PROVE Aimed(k)' = Aimed(k) /\ DeviceId(k)' = DeviceId(k)
    <2>1. DeviceId(k)' = DeviceId(k) /\ Plugged' = Plugged
      BY DEF DeviceId, Plugged
    <2>2. PICK n \in Nat : n = DeviceId(k)
      BY <1>1
    <2>3. InSlot(n)' = InSlot(n)
      <3>1. n < cstbase_cached_count => n \in Slots
        BY <1>1 DEF Slots
      <3> QED  BY <2>1, <3>1 DEF InSlot, SamePaths
    <2>4. Meant(n)' = Meant(n)
      BY <2>1, <2>3 DEF Meant
    <2>5. Aimed(k) = Meant(n) /\ Aimed(k)' = Meant(n)'
      BY <2>1, <2>2 DEF Aimed, Meant, InSlot
    <2> QED  BY <2>1, <2>4, <2>5
  <1>4. Judged' => Judged
    BY DEF Judged, InSlots
  <1>5. Blank /\ pc' # "enumerates" => Blank'
    BY DEF Blank, SamePaths
  <1> QED  BY <1>1, <1>2, <1>3, <1>4, <1>5

\* main opens by number i: what it opens, the number names.
LEMMA OpenAims ==
    ASSUME IInv, AimInv, cmd # "library", platform # "hiddata",
           \/ pc \in {"opens", "reopens"} /\ LibOpenById(DeviceId(i))
           \/ pc \in {"opening", "reopening"} /\ LibOpensBySerial
    PROVE  /\ SamePaths /\ (current' => current) /\ UNCHANGED <<at, platform, cstbase_cached_count>>
           /\ call' # NoCall => DeviceId(i) > cache_max /\ call'.serial = Hexadecimal(DeviceId(i))
           /\ call' = NoCall /\ dev' = Returned =>
                 /\ dev' = None => Open' = Open
                 /\ dev' # None => dev' \in Open' /\ (current' /\ DeviceId(i) # cache_max => of'[dev'] \in Aimed(i))
  <1>1. LibInv /\ Open = {} /\ (pc \in {"opens", "reopens"} => call = NoCall) /\ i \in Nat /\ pc # "enumerates"
    BY CacheAssumption DEF IInv, Holds, Loops
  <1>2. DeviceId(i) \in Nat /\ \A k \in Slots : k >= cstbase_cached_count => cstbase_infos[k].path = None
    BY <1>1, Numbers DEF IInv, LibInv, CacheInv, CacheTypes, AimInv, Blank
  <1>3. PICK n \in Nat : n = DeviceId(i)
    BY <1>2
  <1>4. \/ call = NoCall /\ OpenById(n)
        \/ n > cache_max /\ call.serial = Hexadecimal(n) /\ OpensBySerial
    BY <1>1, <1>3 DEF AimInv, Searching, LibOpenById, LibOpensBySerial
  <1>5. /\ SamePaths /\ (current' => current) /\ UNCHANGED <<at, platform, cstbase_cached_count>>
        /\ call' # NoCall => n > cache_max /\ call'.serial = Hexadecimal(n)
        /\ current' /\ n # cache_max => \A h \in Open' \ Open : of'[h] \in Meant(n)
    BY <1>1, <1>2, <1>4, OpensWhatIsMeant
  <1>6. Returned = IF Open' = {} THEN None ELSE CHOOSE h \in Open' : h \notin {}
    BY <1>1 DEF Returned
  <1>7. None \notin Open'
    BY CacheAssumption DEF Open
  <1>8. Aimed(i) = Meant(n)
    BY <1>3 DEF Aimed
  <1> QED  BY <1>1, <1>3, <1>5, <1>6, <1>7, <1>8

\* A close and an enumeration, over hidapi
LEMMA CloseAims ==
    ASSUME IInv, platform # "hiddata", NEW h \in Handles \cup {None}, LibClose(h)
    PROVE  SamePaths /\ UNCHANGED <<at, platform, cstbase_cached_count, current, call>>
  <1>1. Close(h) /\ cstbase_infos \in [Slots -> SlotType]
    BY DEF LibClose, IInv, LibInv, CacheInv, CacheTypes
  <1>2. UNCHANGED <<at, platform, cstbase_cached_count, current, call>>
        /\ (UNCHANGED cstbase_infos \/ Remembers(IndexByDev(h), None))
    BY <1>1 DEF Close, system
  <1>3. CASE UNCHANGED cstbase_infos
    BY <1>2, <1>3 DEF SamePaths
  <1>4. CASE Remembers(IndexByDev(h), None)
    <2>1. IndexByDev(h) \in Slots \cup {None}
      BY Indices
    <2> QED  BY <1>1, <1>2, <1>4, <2>1, RemembersPath
  <1> QED  BY <1>2, <1>3, <1>4

\* Over hiddata nothing is said, and no search is made.
LEMMA HiddataAims ==
    ASSUME platform' = "hiddata", Ways', pc' \notin {"opening", "reopening"}
    PROVE  AimInv'
  BY DEF AimInv, Blank, Searching, AimsRight, Judged

\* main goes on to number k, with all before it set.
LEMMA GoesAims ==
    ASSUME IInv, AimInv, cmd = "settime", platform # "hiddata",
           UNCHANGED <<cmd, ids, at, platform, cstbase_cached_count, done>>, SamePaths, current' => current,
           NEW k \in Nat, Goes(k), Judged => Aimed(0) # {},
           Judged /\ ~refused' => SetUpTo(k) /\ k <= NumDevicesToUse
    PROVE  AimInv'
  <1>1. /\ \A m \in Nat : Aimed(m)' = Aimed(m)
        /\ NumDevicesToUse' = NumDevicesToUse /\ NumDevicesToUse \in Nat
        /\ Judged' => Judged
        /\ Blank /\ pc' # "enumerates" => Blank'
    BY StillAimed
  <1>2. i' = k /\ pc' = IF k < NumDevicesToUse THEN "reopens" ELSE "ended"
    BY DEF Goes
  <1>3. Blank' /\ Ways' /\ Searching'
    BY <1>1, <1>2 DEF AimInv, Ways, Searching
  <1>4. ASSUME Judged' PROVE AimsRight'
    <2>1. Judged /\ Aimed(0)' # {}
      BY <1>1, <1>4
    <2>2. \A d \in done' : \E m \in 0..(NumDevicesToUse' - 1) : d \in Aimed(m)'
      BY <1>1, <2>1 DEF AimInv, AimsRight
    <2>3. ASSUME ~refused'
          PROVE  (pc' = "reopens" => SetUpTo(i)') /\ (pc' = "ended" => SetUpTo(NumDevicesToUse)')
      <3>1. \A m \in 0..(k - 1) : \E d \in done' : Aimed(m)' = {d}
        BY <1>1, <2>1, <2>3 DEF SetUpTo
      <3>2. pc' = "ended" => NumDevicesToUse' = k
        BY <1>1, <1>2, <2>1, <2>3
      <3> QED  BY <1>2, <3>1, <3>2 DEF SetUpTo
    <2> QED  BY <1>2, <2>1, <2>2, <2>3 DEF AimsRight
  <1> QED  BY <1>3, <1>4 DEF AimInv, AimsRight

\* A program starts with no slot filled and nothing set.
LEMMA AimStarts == ProgramInit => AimInv
  BY DEF ProgramInit, Start, Unfilled, AimInv, Blank, Ways, Searching, AimsRight, Judged

\* The program enumerates.
LEMMA EnumeratesAims == ASSUME IInv, AimInv, cmd # "library", Enumerates PROVE AimInv'
  <1>1. /\ pc = "enumerates" /\ LibEnumerate /\ UNCHANGED <<cmd, ids, dev, i, done, refused>>
        /\ pc' = IF cstbase_cached_count' = 0 /\ cmd # "timeset" THEN "ended" ELSE "opens"
        /\ i = 0 /\ done = {}
    BY DEF Enumerates, program, AimInv, Ways
  <1>2. UNCHANGED platform
    BY <1>1 DEF LibEnumerate, HiddataEnumerates, Enumerate, system
  <1>3. Ways'
    BY <1>1 DEF AimInv, Ways
  <1>4. CASE platform = "hiddata"
    BY <1>1, <1>2, <1>3, <1>4, HiddataAims
  <1>5. CASE platform # "hiddata"
    <2>1. Enumerate /\ CacheInv /\ \A k \in Slots : cstbase_infos[k].path = None
      BY <1>1, <1>5 DEF LibEnumerate, IInv, LibInv, AimInv, Blank
    <2>2. Blank'
      BY <1>1, <2>1, EnumerateLeaves DEF Blank
    <2>3. Searching'
      BY <1>1 DEF Searching
    <2>4. cmd' = "timeset" \/ pc' # "ended" \/ ~(cstbase_cached_count' > 0)
      BY <1>1
    <2>5. AimsRight'
      BY <1>1, <2>4 DEF AimsRight
    <2> QED  BY <1>3, <2>2, <2>3, <2>5 DEF AimInv
  <1> QED  BY <1>4, <1>5

\* The program opens the first device.
LEMMA OpensFirstAims == ASSUME NumbersApart, IInv, AimInv, IInv', cmd # "library", OpensFirst PROVE AimInv'
  <1>1. /\ pc \in {"opens", "opening"} /\ UNCHANGED <<cmd, ids, i, done>> /\ i = 0
        /\ OpenEnds("opening", Opened)
        /\ \/ pc \in {"opens", "reopens"} /\ LibOpenById(DeviceId(i))
           \/ pc \in {"opening", "reopening"} /\ LibOpensBySerial
    BY DEF OpensFirst, program, AimInv, Ways
  <1>2. \/ call' # NoCall /\ pc' = "opening" /\ UNCHANGED <<dev, refused>>
        \/ call' = NoCall /\ dev' = Returned /\ pc' = Opened /\ refused' = (refused \/ Open' = Open)
    BY <1>1 DEF OpenEnds
  <1>3. pc' = Opened =>
           /\ pc' \in {"asks", "ended", "closes", "sets"}
           /\ pc' = "asks" => cmd # "settime"
           /\ pc' = "closes" => cmd = "settime" /\ dev' # None
           /\ pc' = "sets" => cmd = "timeset" /\ dev' # None
           /\ pc' = "ended" => dev' = None
    BY DEF Opened
  <1>4. Ways'
    BY <1>1, <1>2, <1>3 DEF AimInv, Ways
  <1>5. CASE platform = "hiddata"
    <2>1. platform' = "hiddata"
      BY <1>1, <1>5, OpensBySerialStep DEF LibOpenById, LibOpensBySerial, HiddataOpens, system, IInv
    <2>2. call' = NoCall
      BY <2>1 DEF IInv, LibInv
    <2> QED  BY <1>2, <1>3, <1>4, <2>1, <2>2, HiddataAims
  <1>6. CASE platform # "hiddata"
    <2>1. /\ SamePaths /\ (current' => current) /\ UNCHANGED <<at, platform, cstbase_cached_count>>
          /\ call' # NoCall => DeviceId(i) > cache_max /\ call'.serial = Hexadecimal(DeviceId(i))
          /\ call' = NoCall /\ dev' = Returned =>
                /\ dev' = None => Open' = Open
                /\ dev' # None => dev' \in Open' /\ (current' /\ DeviceId(i) # cache_max => of'[dev'] \in Aimed(i))
      BY <1>1, <1>6, OpenAims
    <2>2. /\ \A k \in Nat : Aimed(k)' = Aimed(k) /\ DeviceId(k)' = DeviceId(k)
          /\ NumDevicesToUse' = NumDevicesToUse /\ i \in Nat
          /\ Judged' => Judged
          /\ Blank /\ pc' # "enumerates" => Blank'
      BY <1>1, <2>1, StillAimed
    <2>3. Blank'
      BY <1>2, <1>3, <2>2 DEF AimInv
    <2>4. Searching'
      <3>1. DeviceId(i)' = DeviceId(i)
        BY <1>1, <2>2 DEF DeviceId
      <3> QED  BY <1>2, <1>3, <2>1, <3>1 DEF Searching
    <2>5. ASSUME Judged' PROVE AimsRight'
      <3>1. Judged /\ \A d \in done' : \E m \in 0..(NumDevicesToUse' - 1) : d \in Aimed(m)'
        BY <1>1, <2>2, <2>5 DEF AimInv, AimsRight
      <3>2. DeviceId(i) # cache_max
        BY <1>1, <3>1, Apt DEF Judged, IInv, LibInv, CacheInv, CacheTypes
      <3>3. pc' \in {"sets", "closes"} => dev' \in Open' /\ of'[dev'] \in Aimed(i)
        BY <1>2, <1>3, <2>1, <2>5, <3>2 DEF Judged
      <3>4. pc' = "sets" => dev' \in Open' /\ of'[dev'] \in Aimed(i)'
        <4>1. Aimed(i)' = Aimed(i)
          BY <1>1, <2>2
        <4> QED  BY <3>3, <4>1
      <3>5. done' # {} \/ pc' \in {"reopens", "reopening", "sets", "recloses"} \/ (pc' = "closes" /\ cmd' = "settime")
               => Aimed(0)' # {}
        <4>1. done' # {} => Aimed(0) # {}
          BY <1>1, <3>1 DEF AimInv, AimsRight
        <4>2. pc' \in {"opening", "asks", "ended", "closes", "sets"}
          BY <1>2, <1>3
        <4> QED  BY <1>1, <2>2, <3>3, <4>1, <4>2
      <3>6. cmd' = "settime" /\ ~refused' => pc' \notin {"reopens", "reopening", "sets", "recloses", "ended"}
        <4>1. pc' = "ended" => call' = NoCall /\ Open' = Open
          BY <1>2, <1>3, <2>1
        <4>2. pc' = "ended" => refused'
          BY <1>2, <4>1, Zenon
        <4> QED  BY <1>1, <1>2, <1>3, <4>2
      <3> QED  BY <3>1, <3>4, <3>5, <3>6 DEF AimsRight
    <2> QED  BY <1>4, <2>3, <2>4, <2>5 DEF AimInv, AimsRight
  <1> QED  BY <1>5, <1>6

\* The loop opens the next device.
LEMMA ReopensAims == ASSUME NumbersApart, IInv, AimInv, IInv', cmd # "library", Reopens PROVE AimInv'
  <1>1. /\ pc \in {"reopens", "reopening"} /\ cmd = "settime" /\ UNCHANGED <<cmd, ids, done>>
        /\ i \in Nat /\ i < NumDevicesToUse
        /\ \/ pc \in {"opens", "reopens"} /\ LibOpenById(DeviceId(i))
           \/ pc \in {"opening", "reopening"} /\ LibOpensBySerial
    BY CacheAssumption DEF Reopens, IInv, Loops, program
  <1>2. \/ call' # NoCall /\ pc' = "reopening" /\ UNCHANGED <<dev, i, refused>>
        \/ /\ call' = NoCall /\ dev' = Returned /\ refused' = (refused \/ Open' = Open)
           /\ \/ dev' = None /\ Goes(i + 1)
              \/ dev' # None /\ pc' = "sets" /\ UNCHANGED i
    BY DEF Reopens
  <1>3. Goes(i + 1) => pc' \in {"reopens", "ended"}
    BY DEF Goes
  <1>4. CASE platform = "hiddata"
    <2>1. platform' = "hiddata"
      BY <1>1, <1>4, OpensBySerialStep DEF LibOpenById, LibOpensBySerial, HiddataOpens, system, IInv
    <2>2. call' = NoCall
      BY <2>1 DEF IInv, LibInv
    <2>3. Ways'
      BY <1>1, <1>2, <1>3 DEF Ways
    <2> QED  BY <1>2, <1>3, <2>1, <2>2, <2>3, HiddataAims
  <1>5. CASE platform # "hiddata"
    <2>1. /\ SamePaths /\ (current' => current) /\ UNCHANGED <<at, platform, cstbase_cached_count>>
          /\ call' # NoCall => DeviceId(i) > cache_max /\ call'.serial = Hexadecimal(DeviceId(i))
          /\ call' = NoCall /\ dev' = Returned =>
                /\ dev' = None => Open' = Open
                /\ dev' # None => dev' \in Open' /\ (current' /\ DeviceId(i) # cache_max => of'[dev'] \in Aimed(i))
      BY <1>1, <1>5, OpenAims
    <2>2. /\ \A k \in Nat : Aimed(k)' = Aimed(k) /\ DeviceId(k)' = DeviceId(k)
          /\ NumDevicesToUse' = NumDevicesToUse
          /\ Judged' => Judged
          /\ Blank /\ pc' # "enumerates" => Blank'
      BY <1>1, <2>1, StillAimed
    <2>3. Judged => Aimed(0) # {}
      BY <1>1 DEF AimInv, AimsRight
    <2>4. CASE dev' = None /\ refused' = (refused \/ Open' = Open) /\ call' = NoCall /\ dev' = Returned /\ Goes(i + 1)
      <3>1. Open' = Open
        BY <2>1, <2>4
      <3>2. refused'
        BY <2>4, <3>1, Zenon
      <3>3. i + 1 \in Nat
        BY <1>1
      <3> QED  BY <1>1, <1>5, <2>1, <2>3, <2>4, <3>2, <3>3, GoesAims
    <2>5. CASE \/ call' # NoCall /\ pc' = "reopening" /\ UNCHANGED <<dev, i, refused>>
               \/ /\ call' = NoCall /\ dev' = Returned /\ refused' = (refused \/ Open' = Open)
                  /\ dev' # None /\ pc' = "sets" /\ UNCHANGED i
      <3>1. pc' \in {"sets", "reopening"} /\ i' = i
        BY <2>5
      <3>2. Ways' /\ Blank'
        BY <1>1, <2>2, <3>1 DEF Ways, AimInv
      <3>3. Searching'
        <4>1. DeviceId(i)' = DeviceId(i)
          BY <1>1, <3>1 DEF DeviceId
        <4> QED  BY <2>1, <2>5, <4>1 DEF Searching
      <3>4. ASSUME Judged' PROVE AimsRight'
        <4>1. Judged /\ \A d \in done' : \E m \in 0..(NumDevicesToUse' - 1) : d \in Aimed(m)'
          BY <1>1, <2>2, <3>4 DEF AimInv, AimsRight
        <4>2. DeviceId(i) # cache_max
          BY <1>1, <4>1, Apt DEF Judged, IInv, LibInv, CacheInv, CacheTypes
        <4>3. pc' = "sets" => dev' \in Open' /\ of'[dev'] \in Aimed(i)'
          <5>1. Aimed(i)' = Aimed(i)
            BY <1>1, <2>2, <3>1 DEF Aimed
          <5> QED  BY <2>1, <2>5, <3>4, <4>2, <5>1 DEF Judged
        <4>4. Aimed(0)' # {}
          BY <2>2, <2>3, <4>1
        <4>5. ~refused' => SetUpTo(i)'
          <5>1. ~refused' => ~refused
            BY <2>5, Zenon
          <5>2. ~refused' => \A k \in 0..(i - 1) : \E d \in done : Aimed(k) = {d}
            BY <1>1, <4>1, <5>1 DEF AimInv, AimsRight, SetUpTo
          <5> QED  BY <1>1, <2>2, <3>1, <5>2 DEF SetUpTo
        <4> QED  BY <3>1, <4>1, <4>3, <4>4, <4>5 DEF AimsRight
      <3> QED  BY <3>2, <3>3, <3>4 DEF AimInv, AimsRight
    <2> QED  BY <1>2, <2>4, <2>5
  <1> QED  BY <1>4, <1>5

\* The program closes, before the loop or in it.
LEMMA ClosesAims == ASSUME IInv, AimInv, cmd # "library", Closes \/ Recloses PROVE AimInv'
  <1>1. /\ pc \in {"closes", "recloses"} /\ LibClose(dev) /\ UNCHANGED <<cmd, ids, dev, done, refused>>
        /\ cmd # "settime" => pc' = "ended" /\ UNCHANGED i
        /\ pc = "closes" /\ cmd = "settime" => Goes(0)
        /\ pc = "recloses" /\ cmd = "settime" => Goes(i + 1)
        /\ dev \in Handles \cup {None}
    BY DEF Closes, Recloses, program, IInv, Holds
  <1>2. \A k : Goes(k) => pc' \in {"reopens", "ended"}
    BY DEF Goes
  <1>3. pc' \in {"reopens", "ended"} /\ (cmd # "settime" => i' = 0)
    BY <1>1, <1>2 DEF AimInv, Ways
  <1>4. Ways'
    BY <1>1, <1>3 DEF AimInv, Ways
  <1>5. CASE platform = "hiddata"
    <2>1. platform' = "hiddata"
      BY <1>1, <1>5 DEF LibClose, HiddataCloses, system
    <2> QED  BY <1>3, <1>4, <2>1, HiddataAims
  <1>6. CASE platform # "hiddata"
    <2>1. SamePaths /\ UNCHANGED <<at, platform, cstbase_cached_count, current, call>>
      BY <1>1, <1>6, CloseAims
    <2>2. CASE cmd = "settime"
      <3>1. Judged => Aimed(0) # {}
        BY <1>1, <2>2 DEF AimInv, AimsRight
      <3>2. NumDevicesToUse \in Nat /\ i \in Nat /\ i + 1 \in Nat /\ 0 \in Nat
        BY Numbers, CacheAssumption DEF IInv, LibInv, CacheInv, CacheTypes, Loops
      <3>3. CASE pc = "closes"
        <4>1. SetUpTo(0) /\ 0 <= NumDevicesToUse
          BY <3>2 DEF SetUpTo
        <4> QED  BY <1>1, <1>6, <2>1, <2>2, <3>1, <3>2, <3>3, <4>1, GoesAims
      <3>4. CASE pc = "recloses"
        <4>1. i < NumDevicesToUse
          BY <2>2, <3>4 DEF IInv, Loops
        <4>2. Judged /\ ~refused' => SetUpTo(i + 1) /\ i + 1 <= NumDevicesToUse
          BY <1>1, <2>2, <3>2, <3>4, <4>1 DEF AimInv, AimsRight
        <4> QED  BY <1>1, <1>6, <2>1, <2>2, <3>1, <3>2, <3>4, <4>2, GoesAims
      <3> QED  BY <1>1, <3>3, <3>4
    <2>3. CASE cmd # "settime"
      <3>1. /\ \A k \in Nat : Aimed(k)' = Aimed(k)
            /\ NumDevicesToUse' = NumDevicesToUse
            /\ Judged' => Judged
            /\ Blank /\ pc' # "enumerates" => Blank'
        BY <1>1, <2>1, StillAimed
      <3>2. Blank' /\ Searching'
        BY <1>3, <3>1 DEF AimInv, Searching
      <3>3. AimsRight'
        BY <1>1, <1>3, <2>3, <3>1 DEF AimInv, AimsRight
      <3> QED  BY <1>4, <3>2, <3>3 DEF AimInv
    <2> QED  BY <2>2, <2>3
  <1> QED  BY <1>5, <1>6

\* The time is set, of a station that number i names.
LEMMA SetsAims == ASSUME NumbersApart, IInv, AimInv, cmd # "library", Sets PROVE AimInv'
  <1>1. /\ pc = "sets" /\ pc' = "recloses"
        /\ done' = IF current /\ dev \in Open THEN done \cup {of[dev]} ELSE done
        /\ UNCHANGED <<cache, system, at, platform, cstbase_infos, cstbase_cached_count, of, current, cmd, ids, dev, i, refused>>
    BY DEF Sets, vars, program, cache, system
  <1>2. SamePaths
    BY <1>1 DEF SamePaths
  <1>3. /\ \A k \in Nat : Aimed(k)' = Aimed(k)
        /\ NumDevicesToUse' = NumDevicesToUse /\ NumDevicesToUse \in Nat /\ i \in Nat
        /\ Judged' => Judged
        /\ Blank /\ pc' # "enumerates" => Blank'
    BY <1>1, <1>2, StillAimed
  <1>4. Blank' /\ Ways' /\ Searching'
    BY <1>1, <1>3 DEF AimInv, Ways, Searching
  <1>5. ASSUME Judged' PROVE AimsRight'
    <2>1. Judged /\ of[dev] \in Aimed(i) /\ done' = done \cup {of[dev]} /\ Aimed(0) # {}
      <3>1. Judged /\ dev \in Open /\ of[dev] \in Aimed(i) /\ Aimed(0) # {}
        BY <1>1, <1>3, <1>5 DEF AimInv, AimsRight
      <3> QED  BY <1>1, <3>1 DEF Judged
    <2>2. i \in 0..(NumDevicesToUse - 1)
      <3>1. CASE cmd = "settime"
        BY <1>1, <1>3, <3>1 DEF IInv, Loops
      <3>2. CASE cmd # "settime"
        <4>1. i = 0 /\ ids.kind = "none"
          BY <1>1, <3>2 DEF AimInv, Ways
        <4>2. NumDevicesToUse = 1
          BY <4>1 DEF NumDevicesToUse
        <4> QED  BY <4>1, <4>2
      <3> QED  BY <3>1, <3>2
    <2>3. \A d \in done' : \E m \in 0..(NumDevicesToUse' - 1) : d \in Aimed(m)'
      <3>1. \A d \in done : \E m \in 0..(NumDevicesToUse - 1) : d \in Aimed(m)
        BY <2>1 DEF AimInv, AimsRight
      <3>2. \A d \in done' : \E m \in 0..(NumDevicesToUse - 1) : d \in Aimed(m)
        BY <2>1, <2>2, <3>1
      <3> QED  BY <1>3, <3>2
    <2>4. Aimed(0)' # {}
      BY <1>3, <2>1
    <2>5. cmd' = "settime" /\ ~refused' => SetUpTo(i + 1)'
      <3>1. Aimed(i) = {of[dev]}
        BY <2>1, SingleAim DEF Aimed, IInv, LibInv, CacheInv
      <3>2. cmd' = "settime" /\ ~refused' => \A k \in 0..(i - 1) : \E d \in done : Aimed(k) = {d}
        BY <1>1, <2>1 DEF AimInv, AimsRight, SetUpTo
      <3>3. \A k \in 0..((i + 1) - 1) : k \in 0..(i - 1) \/ k = i
        BY <1>3
      <3>4. cmd' = "settime" /\ ~refused' => \A k \in 0..((i + 1) - 1) : \E d \in done' : Aimed(k) = {d}
        BY <2>1, <3>1, <3>2, <3>3
      <3>5. i' = i
        BY <1>1
      <3> QED  BY <1>3, <3>4, <3>5 DEF SetUpTo
    <2> QED  BY <1>1, <2>3, <2>4, <2>5 DEF AimsRight
  <1> QED  BY <1>4, <1>5 DEF AimInv, AimsRight

\* A command that writes or reads sets no time.
LEMMA AsksAims == ASSUME IInv, AimInv, cmd # "library", Asks PROVE AimInv'
  <1>1. /\ pc = "asks" /\ pc' = IF cmd = "version" THEN "closes" ELSE "ended"
        /\ UNCHANGED <<at, platform, cstbase_infos, cstbase_cached_count, current, cmd, ids, dev, i, done, refused>>
    BY DEF Asks, vars, program, cache, system
  <1>2. SamePaths
    BY <1>1 DEF SamePaths
  <1>3. /\ \A k \in Nat : Aimed(k)' = Aimed(k)
        /\ NumDevicesToUse' = NumDevicesToUse
        /\ Judged' => Judged
        /\ Blank /\ pc' # "enumerates" => Blank'
    BY <1>1, <1>2, StillAimed
  <1>4. cmd' # "settime" /\ pc' \in {"closes", "ended"} /\ (pc' = "closes" => cmd = "version") /\ i' = 0
    BY <1>1 DEF AimInv, Ways
  <1>5. Blank' /\ Ways' /\ Searching'
    BY <1>1, <1>3, <1>4 DEF AimInv, Ways, Searching
  <1>6. AimsRight'
    BY <1>1, <1>3, <1>4 DEF AimInv, AimsRight
  <1> QED  BY <1>5, <1>6 DEF AimInv

\* The next program
LEMMA RunsAims == ASSUME Runs PROVE AimInv'
  <1>1. /\ cstbase_infos' = [k \in Slots |-> Unfilled] /\ current' = FALSE
        /\ cmd' = "timeset" => ids'.kind = "none"
        /\ pc' = "enumerates" /\ i' = 0 /\ done' = {}
    BY DEF Runs, Restart
  <1>2. Blank'
    BY <1>1 DEF Blank, Unfilled
  <1>3. Ways' /\ Searching' /\ AimsRight'
    BY <1>1 DEF Ways, Searching, AimsRight, Judged
  <1> QED  BY <1>2, <1>3 DEF AimInv

\* Stations are plugged in and out, or a program uses the library, or nothing happens.
LEMMA OthersAims ==
    ASSUME IInv, AimInv,
           \/ /\ \/ Stations
                 \/ cmd = "library"
              /\ UNCHANGED <<static_dev, program, pc, dev, i, orphans, done, refused>>
           \/ UNCHANGED allVars
    PROVE  AimInv'
  <1>1. UNCHANGED <<cmd, ids, pc, dev, i, done, refused>>
    BY DEF allVars, program
  <1>2. Ways'
    BY <1>1 DEF AimInv, Ways
  <1>3. CASE cmd = "library"
    BY <1>1, <1>2, <1>3 DEF AimInv, Blank, Searching, AimsRight, Judged, IInv, Holds
  <1>4. CASE UNCHANGED allVars
    <2>1. UNCHANGED <<at, platform, cstbase_infos, cstbase_cached_count, of, current, call>> /\ Open' = Open
      BY <1>4 DEF allVars, vars, cache, system, Open
    <2>2. SamePaths
      BY <2>1 DEF SamePaths
    <2>3. /\ \A k \in Nat : Aimed(k)' = Aimed(k) /\ DeviceId(k)' = DeviceId(k)
          /\ NumDevicesToUse' = NumDevicesToUse /\ i \in Nat
          /\ Judged' => Judged
      BY <1>1, <2>1, <2>2, StillAimed
    <2>4. DeviceId(i)' = DeviceId(i) /\ Aimed(i)' = Aimed(i)
      BY <1>1, <2>3 DEF DeviceId, Aimed
    <2>5. Blank' /\ Searching'
      BY <1>1, <2>1, <2>4 DEF AimInv, Blank, Searching
    <2>6. AimsRight'
      BY <1>1, <2>1, <2>3, <2>4 DEF AimInv, AimsRight, SetUpTo
    <2> QED  BY <1>2, <2>5, <2>6 DEF AimInv
  <1>5. CASE Stations
    <2>1. current' = FALSE
      BY <1>5 DEF Stations, Plug, Unplug, Replugs
    <2>2. call'.serial = call.serial
      BY <1>5 DEF Stations, Plug, Unplug, Replugs, IInv, LibInv, CallOK
    <2>3. UNCHANGED <<platform, cstbase_infos, cstbase_cached_count>>
      BY <1>5 DEF Stations, Plug, Unplug, Replugs, cache
    <2>4. DeviceId(i)' = DeviceId(i)
      BY <1>1 DEF DeviceId
    <2> QED  BY <1>1, <1>2, <2>1, <2>2, <2>3, <2>4 DEF AimInv, Blank, Searching, AimsRight, Judged
  <1> QED  BY <1>3, <1>4, <1>5

\* Every step
LEMMA AimStep == ASSUME NumbersApart PROVE IInv /\ IInv' /\ AimInv /\ [ProgramNext]_allVars => AimInv'
  <1> SUFFICES ASSUME IInv, IInv', AimInv, [ProgramNext]_allVars PROVE AimInv'
    OBVIOUS
  <1>1. CASE \/ Stations /\ UNCHANGED <<static_dev, program, pc, dev, i, orphans, done, refused>>
             \/ cmd = "library" /\ UNCHANGED <<static_dev, program, pc, dev, i, orphans, done, refused>>
             \/ UNCHANGED allVars
    BY <1>1, OthersAims
  <1>2. CASE cmd # "library" /\ (Program \/ Runs)
    BY <1>2, EnumeratesAims, OpensFirstAims, AsksAims, ClosesAims, ReopensAims, SetsAims, RunsAims DEF Program
  <1> QED  BY <1>1, <1>2 DEF ProgramNext

\* The stations set are those that the numbers name, for any constants.
THEOREM AimInvariance == ASSUME NumbersApart PROVE ProgramSpec => []AimInv
  <1>1. IInv /\ IInv' /\ AimInv /\ [ProgramNext]_allVars => AimInv'
    BY AimStep
  <1> QED  BY AimStarts, Invariance, <1>1, PTL DEF ProgramSpec

\* --settime sets stations the user named and no others, and all of them once every
\* open has succeeded, whatever strtol and hexread make of the numbers.
THEOREM SetsThoseNamed == ASSUME NumbersApart PROVE ProgramSpec => []SetsTheNamed
  <1>1. ASSUME IInv, AimInv PROVE SetsTheNamed
    <2> SUFFICES ASSUME current, platform # "hiddata", InSlots
                 PROVE  /\ done \subseteq Named
                        /\ pc = "ended" /\ cmd = "settime" /\ cstbase_cached_count > 0 /\ ~refused => done = Named
      BY DEF SetsTheNamed, InSlots
    <2>1. /\ ids \in Options /\ cstbase_cached_count \in 0..cache_max
          /\ NumDevicesToUse \in Nat
      BY <1>1, Numbers DEF IInv, LibInv, CacheInv, CacheTypes
    <2>2. CASE cmd = "library"
      <3>1. done = {}
        BY <1>1, <2>2 DEF IInv, Holds, AimInv, Ways
      <3> QED  BY <2>2, <3>1
    <2>3. CASE cmd # "library"
      <3>1. /\ \A d \in done : \E k \in 0..(NumDevicesToUse - 1) : d \in Aimed(k)
            /\ done # {} => Aimed(0) # {}
            /\ pc = "ended" /\ cmd = "settime" /\ cstbase_cached_count > 0 /\ ~refused => SetUpTo(NumDevicesToUse)
        BY <1>1, <2>3 DEF AimInv, AimsRight, Judged
      <3>2. done \subseteq Named
        <4>1. ASSUME NEW d \in done PROVE d \in Named
          <5>1. PICK k \in 0..(NumDevicesToUse - 1) : d \in Aimed(k)
            BY <3>1
          <5>2. k \in Nat /\ k < NumDevicesToUse
            BY <2>1
          <5>3. Aimed(k) \subseteq Named
            BY <2>1, <3>1, <5>2, AimedAreNamed
          <5> QED  BY <5>1, <5>3
        <4> QED  BY <4>1
      <3>3. ASSUME SetUpTo(NumDevicesToUse), NEW d \in Named PROVE d \in done
        <4>1. \A k \in 0..(NumDevicesToUse - 1) : \E e \in done : Aimed(k) = {e}
          BY <3>3 DEF SetUpTo
        <4>2. PICK k \in 0..(NumDevicesToUse - 1) : d \in Aimed(k)
          BY <2>1, <3>3, <4>1, NamedAreAimed
        <4> QED  BY <4>1, <4>2
      <3> QED  BY <3>1, <3>2, <3>3
    <2> QED  BY <2>2, <2>3
  <1> QED  BY <1>1, Invariance, AimInvariance, PTL
=============================================================================
