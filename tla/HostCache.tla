------------------------------ MODULE HostCache ------------------------------
(***************************************************************************)
(* The device cache of the host library, cstbase-lib.c and                 *)
(* cstbase-lib-lowlevel-hidapi.h, over the enumeration of hidapi: stations *)
(* are listed, opened by path, serial number or id, and closed, while they *)
(* are plugged in and out.  A slot of the cache survives the enumeration   *)
(* that no longer fills it.  Paths and handles (addresses of freed memory) *)
(* are used again by the system.  hid_open enumerates first and opens      *)
(* then, in two steps; it crashes on a listed station that has no string.  *)
(*                                                                         *)
(* The client makes any calls, but none with a handle it has closed.  What *)
(* hid_exit does to the handles still open is in HostPrograms.             *)
(***************************************************************************)
EXTENDS HidapiEnumerate

CONSTANTS Devices,      \* the stations
          Serial,       \* their serial numbers
          Paths,        \* the paths the system gives out
          Handles,      \* the addresses a cstbase_device may have
          cache_max,    \* cstbase_max_devices too
          FullWidth     \* the least number of eight hexadecimal digits

ASSUME CacheAssumption ==
    /\ Serial \in [Devices -> Nat \ {0}]
    /\ None \notin Devices \cup Paths \cup Handles \cup Nat
    /\ cache_max \in Nat \ {0} /\ IsFiniteSet(Devices) /\ Cardinality(Devices) <= cache_max
    /\ FullWidth \in Nat /\ FullWidth > cache_max

VARIABLES platform,              \* the backend; it does not change
          alive,                 \* the process has not crashed
          cstbase_infos,         \* the slots: dev, path and serial of each
          cstbase_cached_count,
          call,                  \* a hid_open that has searched and not opened: serial and path; history
                                 \*   undisturbed: no station has been plugged in at that path since
          at,                    \* the path each station is plugged in at
          of,                    \* the station each open handle was opened on
          current,               \* history: since the last enumeration nothing was plugged in or out,
                                 \*   and no station opened by the empty path
          listed                 \* history: handles opened since then, while it was current, from the slots it filled

cache  == <<cstbase_infos, cstbase_cached_count>>
system == <<platform, at>>
vars   == <<cache, system, alive, call, of, current, listed>>

Slots   == 0..(cache_max - 1)
Open    == { h \in Handles : of[h] # None }
Plugged == { d \in Devices : at[d] # None }
NoCall  == [serial |-> EmptyStr, path |-> None, undisturbed |-> TRUE]
Unfilled == [dev |-> None, path |-> None, serial |-> EmptyStr]

TypeOK == /\ platform \in Platforms \cup {"hiddata"} /\ alive \in BOOLEAN
          /\ cstbase_infos \in [Slots -> [dev : Handles \cup {None}, path : Paths \cup {None}, serial : Nat]]
          /\ cstbase_cached_count \in 0..cache_max
          /\ call \in [serial : Nat \cup {None}, path : Paths \cup {None}, undisturbed : BOOLEAN]
          /\ at \in [Devices -> Paths \cup {None}]
          /\ of \in [Handles -> Devices \cup {None}]
          /\ current \in BOOLEAN /\ listed \subseteq Open

Start == /\ at = [d \in Devices |-> None]
         /\ alive = TRUE /\ cstbase_infos = [i \in Slots |-> Unfilled] /\ cstbase_cached_count = 0
         /\ call = NoCall
         /\ of = [h \in Handles |-> None]
         /\ current = FALSE /\ listed = {}

Init == platform \in Platforms /\ Start
-----------------------------------------------------------------------------
\* The system: a path is free again when its station is gone.
Replugs(d, p) == /\ at' = [at EXCEPT ![d] = p] /\ current' = FALSE
                 /\ call' = [call EXCEPT !.undisturbed = @ /\ (call = NoCall \/ p # call.path)]
                 /\ UNCHANGED <<platform, alive, cache, of, listed>>

Plug(d, p) == at[d] = None /\ (\A e \in Devices : at[e] # p) /\ Replugs(d, p)
Unplug(d)  == at[d] # None /\ Replugs(d, None)

\* What the system shows of the stations at a moment
Nodes == { [i \in DOMAIN q |-> [dev |-> q[i], path |-> at[q[i]], serial |-> Serial[q[i]], sight |-> v[q[i]]]] :
             q \in SetToSeqs(Plugged), v \in [Plugged -> Sights] }

\* A process that has crashed or ended is started again; the system has closed its handles.
Restart == /\ alive' = TRUE /\ cstbase_infos' = [i \in Slots |-> Unfilled] /\ cstbase_cached_count' = 0
           /\ call' = NoCall
           /\ of' = [h \in Handles |-> None]
           /\ current' = FALSE /\ listed' = {}
           /\ UNCHANGED system
-----------------------------------------------------------------------------
\* The stations found, in the order of the system, overwrite the first slots.
Filled(found) == [i \in Slots |->
    IF i < Len(found) THEN [cstbase_infos[i] EXCEPT !.path = found[i + 1].path, !.serial = found[i + 1].serial]
                      ELSE cstbase_infos[i]]

\* Faulty: the slots that are not filled are sorted with the others.
SortsAll(slots, n) ==
    { s \in { [i \in Slots |-> slots[q[i + 1]]] : q \in SetToSeqs(Slots) } :
        \A i, j \in Slots : i < j => s[i].serial <= s[j].serial }

\* qsort of the first n slots by serial number, in any order where they are equal
Sorted(slots, n) ==
    { s \in { [i \in Slots |-> IF i < n THEN slots[q[i + 1]] ELSE slots[i]] : q \in SetToSeqs(0..(n - 1)) } :
        \A i, j \in 0..(n - 1) : i < j => s[i].serial <= s[j].serial }

\* Stations with no string are passed over.
Found(nodes) == LET list == HidEnumerate(platform, nodes)
                IN  Linked(list, { i \in DOMAIN list : list[i].serial # None })

\* Faulty: the count is not set back to 0 first.
EnumerateAdding ==
    \E nodes \in Nodes :
       /\ cstbase_cached_count' = cstbase_cached_count + Len(Found(nodes))
       /\ cstbase_infos' \in Sorted(Filled(Found(nodes)), Len(Found(nodes)))
       /\ current' = TRUE /\ listed' = {}
       /\ UNCHANGED <<system, alive, call, of>>

\* cstbase_enumerate
Enumerate ==
    \E nodes \in Nodes :
       /\ cstbase_cached_count' = Len(Found(nodes))
       /\ cstbase_infos' \in Sorted(Filled(Found(nodes)), Len(Found(nodes)))
       /\ current' = TRUE /\ listed' = {}
       /\ UNCHANGED <<system, alive, call, of>>

\* The first slot with a value; -1, here None, if there is none.
First(P(_)) == IF \E i \in Slots : P(i)
               THEN CHOOSE i \in Slots : P(i) /\ \A j \in Slots : P(j) => i <= j
               ELSE None

IndexByPath(p)   == LET Has(i) == cstbase_infos[i].path = p IN First(Has)
IndexBySerial(s) == LET Has(i) == cstbase_infos[i].serial = s IN First(Has)
IndexByDev(h)    == LET Has(i) == cstbase_infos[i].dev = h IN First(Has)

\* The slot takes what the open returned, also NULL.
Remembers(i, h) == cstbase_infos' = IF i = None THEN cstbase_infos
                                    ELSE [cstbase_infos EXCEPT ![i].dev = h]

\* hid_open_path of path p gives a handle that is not in use, or fails.
Opens(p, i) ==
    \E nodes \in Nodes, h \in Handles \ Open : \E n \in HidOpenPath(platform, nodes, p) :
        /\ of' = [of EXCEPT ![h] = n.dev]
        /\ Remembers(i, h)
        /\ current' = (current /\ p # None)
        /\ listed' = IF current' /\ i \in 0..(cstbase_cached_count - 1) THEN listed \cup {h} ELSE listed

Fails(i) == Remembers(i, None) /\ UNCHANGED <<of, current, listed>>

OpenByPath(p) ==
    /\ IF p = None THEN UNCHANGED <<cache, of, current, listed>>
       ELSE /\ Opens(p, IndexByPath(p)) \/ Fails(IndexByPath(p))
            /\ UNCHANGED cstbase_cached_count
    /\ UNCHANGED <<system, alive, call>>

\* cstbase_openBySerial up to where hid_open has searched what is listed now
SearchesBySerial(s) ==
    /\ call = NoCall
    /\ \E nodes \in Nodes : LET found == Search(HidEnumerate(platform, nodes), s) IN
         /\ alive' = (found # "crash")
         /\ IF found \in {"absent", "crash"}
            THEN Fails(IndexBySerial(s)) /\ UNCHANGED call
            ELSE /\ call' = [serial |-> s, path |-> found, undisturbed |-> TRUE]
                 /\ UNCHANGED <<cstbase_infos, of, current, listed>>
    /\ UNCHANGED <<system, cstbase_cached_count>>

\* ... and then opens the path that it found
OpensBySerial ==
    /\ call # NoCall /\ call' = NoCall
    /\ Opens(call.path, IndexBySerial(call.serial)) \/ Fails(IndexBySerial(call.serial))
    /\ UNCHANGED <<system, alive, cstbase_cached_count>>

\* "%X" of a serial number: with no leading zeros, it is the string of no station.
Hexadecimal(i) == IF i >= FullWidth THEN i ELSE None

\* The slot after the last is memory the compiler chose.
CachedPath(i) == IF i \in Slots THEN {cstbase_infos[i].path} ELSE Paths \cup {None}

OpenById(i) == IF i > cache_max THEN SearchesBySerial(Hexadecimal(i))
                                ELSE \E p \in CachedPath(i) : OpenByPath(p)

\* Faulty: the slot keeps the handle that hid_close frees.
ClosesKeeping(h) == /\ of' = [g \in Handles |-> IF g = h THEN None ELSE of[g]]
                    /\ listed' = listed \ {h}
                    /\ UNCHANGED <<system, alive, cache, call, current>>

\* cstbase_close, also of NULL
Close(h) == /\ of' = [g \in Handles |-> IF g = h THEN None ELSE of[g]]
            /\ IF h = None THEN UNCHANGED cstbase_infos ELSE Remembers(IndexByDev(h), None)
            /\ listed' = listed \ {h}
            /\ UNCHANGED <<system, alive, cstbase_cached_count, call, current>>

Stations == (\E d \in Devices : Unplug(d)) \/ (\E d \in Devices, p \in Paths : Plug(d, p))

Client == /\ alive
          /\ \/ OpensBySerial
             \/ /\ call = NoCall
                /\ \/ Enumerate
                   \/ \E i \in 0..cache_max : OpenById(i)
                   \/ \E d \in Devices : OpenById(Serial[d])
                   \/ \E h \in Open \cup {None} : Close(h)

Next == Stations \/ Client \/ (~alive /\ Restart)

Spec == Init /\ [][Next]_vars
-----------------------------------------------------------------------------
\* The cache never points at freed memory, and at no handle twice, although slots
\* are overwritten, moved by the sort and left behind, and a freed address comes
\* back as another handle.
NoDanglingHandle ==
    /\ \A i \in Slots : cstbase_infos[i].dev # None => cstbase_infos[i].dev \in Open
    /\ \A i, j \in Slots : cstbase_infos[i].dev = cstbase_infos[j].dev /\ i # j => cstbase_infos[i].dev = None

\* cstbase_getSerialForDev gives the serial number of the station a handle was
\* opened on, or none, until stations are enumerated again, if between the enumeration
\* and the opening nothing was plugged in or out and, on a Mac, no station was opened
\* by the empty path, which several may have.
SerialForDevRight ==
    \A h \in listed : IndexByDev(h) # None => cstbase_infos[IndexByDev(h)].serial \in {Serial[of[h]], EmptyStr}

\* cstbase_openBySerial opens a station with the serial number asked for, whatever the
\* system shows of it and of the others in the two looks hid_open takes at them, but
\* in two cases: a station was plugged in between the two at the path found, or, on a
\* Mac, the station found was listed without its transport, so that its path is empty
\* and the first station with no transport is opened.
OpensTheOneAskedFor ==
    [][ \A h \in Open' \ Open : call # NoCall =>
           \/ Serial[of'[h]] = call.serial
           \/ ~call.undisturbed
           \/ platform = "mac" /\ call.path = None ]_vars
=============================================================================
