---------------------------- MODULE HostPrograms ----------------------------
(***************************************************************************)
(* The programs over the host library: cstbase-tool.c (--settime, another  *)
(* command, --version) and cstbase-timeset.c, built with any backend of    *)
(* hidapi or with hiddata, while stations are plugged in and out.  They    *)
(* share the calls of HostCache, whose client, any program, runs here too. *)
(*                                                                         *)
(* hid_exit, which every cstbase_close ends with, takes libusb or the HID  *)
(* manager away from the handles still open, or unloads hid.dll until it   *)
(* is loaded by the next hid_init.                                         *)
(***************************************************************************)
EXTENDS HostHiddata

CONSTANTS LongMax,      \* the largest long that strtol returns
          IdLists       \* the lists --id is given; one of eight characters is read as a serial number

ASSUME ProgramAssumption ==
    LongMax \in Nat /\ LongMax > cache_max /\ \A l \in IdLists : l # <<>> /\ Len(l) <= cache_max /\ l \in Seq(0..255)

VARIABLES cmd,          \* what the user wants; "library" is the client of HostCache
          ids,          \* the option --id: none, all, a serial number or a list
          pc, dev, i,
          orphans,      \* open handles whose library hid_exit has taken away
          done,         \* history: stations set while nothing had been plugged since the enumeration
          refused       \* history: an open of this process failed

program == <<cmd, ids>>
allVars == <<vars, static_dev, program, pc, dev, i, orphans, done, refused>>

Commands == {"settime", "ask", "version", "timeset"}
Options  == [kind : {"none", "all"}] \cup [kind : {"serial"}, serial : { Serial[d] : d \in Devices }]
                                     \cup [kind : {"list"}, list : IdLists]

Places == {"enumerates", "opens", "opening", "asks", "closes", "reopens", "reopening", "sets", "recloses", "ended"}

ProgramTypeOK == /\ TypeOK
                 /\ cmd \in Commands \cup {"library"} /\ ids \in Options
                 /\ pc \in Places /\ dev \in Handles \cup {None} /\ i \in 0..cache_max
                 /\ static_dev \in Handles \cup {None} /\ orphans \subseteq Open
                 /\ done \subseteq Devices /\ refused \in BOOLEAN
-----------------------------------------------------------------------------
\* strtol: a number that does not fit is the largest that does.
Strtol(s) == IF s > LongMax THEN LongMax ELSE s

\* hexread fills deviceIds, which has words, byte by byte.
Byte(l, n) == IF n < Len(l) THEN l[n + 1] ELSE 0
Word(l, k) == Byte(l, 4*k) + 256 * (Byte(l, 4*k + 1) + 256 * (Byte(l, 4*k + 2) + 256 * Byte(l, 4*k + 3)))

DeviceId(k) == CASE ids.kind = "none"   -> 0
                 [] ids.kind = "all"    -> k
                 [] ids.kind = "serial" -> IF k = 0 THEN Strtol(ids.serial) ELSE 0
                 [] OTHER               -> Word(ids.list, k)

NumDevicesToUse == CASE ids.kind = "all"  -> cstbase_cached_count
                     [] ids.kind = "list" -> Len(ids.list)
                     [] OTHER             -> 1
-----------------------------------------------------------------------------
HidInit == orphans' = IF platform = "windows" THEN {} ELSE orphans
HidExit == orphans' = IF platform \in {"linux", "hiddata"} THEN {} ELSE Open'

\* The library, over one backend or the other
LibEnumerate == IF platform = "hiddata" THEN HiddataEnumerates /\ UNCHANGED orphans
                ELSE Enumerate /\ HidInit /\ UNCHANGED static_dev

LibOpenById(n) == IF platform = "hiddata" THEN HiddataOpens /\ UNCHANGED orphans
                  ELSE OpenById(n) /\ HidInit /\ UNCHANGED static_dev

LibOpensBySerial == OpensBySerial /\ HidInit /\ UNCHANGED static_dev

LibClose(h) == /\ IF platform = "hiddata" THEN HiddataCloses(h) ELSE Close(h) /\ UNCHANGED static_dev
               /\ HidExit

\* What an open returns: the new handle, or NULL, or what static_dev held before.
Returned == IF platform = "hiddata" THEN static_dev'
            ELSE IF Open' = Open THEN None ELSE CHOOSE h \in Open' : h \notin Open

\* The open is done unless it has searched and has yet to open.
OpenEnds(first, next) ==
    IF call' # NoCall THEN pc' = first /\ UNCHANGED <<dev, refused>>
    ELSE dev' = Returned /\ pc' = next /\ refused' = (refused \/ Open' = Open)

\* Where main goes with the device it has opened first
Opened == IF cmd = "version" THEN "asks" ELSE IF dev' = None THEN "ended"
          ELSE CASE cmd = "settime" -> "closes"
                 [] cmd = "timeset" -> "sets"
                 [] OTHER           -> "asks"
-----------------------------------------------------------------------------
Enumerates == /\ pc = "enumerates" /\ LibEnumerate
              /\ pc' = IF cstbase_cached_count' = 0 /\ cmd # "timeset" THEN "ended" ELSE "opens"
              /\ UNCHANGED <<program, dev, i, done, refused>>

OpensFirst == /\ \/ pc = "opens" /\ LibOpenById(DeviceId(0))
                 \/ pc = "opening" /\ LibOpensBySerial
              /\ OpenEnds("opening", Opened)
              /\ UNCHANGED <<program, i, done>>

\* A command that writes to the device, or reads; main does not close it, except for the version.
Asks == /\ pc = "asks" /\ pc' = IF cmd = "version" THEN "closes" ELSE "ended"
        /\ UNCHANGED <<vars, static_dev, program, dev, i, orphans, done, refused>>

\* Faulty: the loop goes once too often.
GoesOn(n) == i' = n /\ pc' = IF n <= NumDevicesToUse THEN "reopens" ELSE "ended"

\* The loop over the devices to use
Goes(n) == i' = n /\ pc' = IF n < NumDevicesToUse THEN "reopens" ELSE "ended"

\* Faulty: the loop sets the time through the handle that was opened first.
ClosesOnly == /\ pc = "closes" /\ LibClose(dev)
              /\ pc' = "sets" /\ i' = 0
              /\ UNCHANGED <<program, dev, done, refused>>

Closes == /\ pc = "closes" /\ LibClose(dev)
          /\ IF cmd = "settime" THEN Goes(0) ELSE pc' = "ended" /\ UNCHANGED i
          /\ UNCHANGED <<program, dev, done, refused>>

Reopens == /\ \/ pc = "reopens" /\ LibOpenById(DeviceId(i))
              \/ pc = "reopening" /\ LibOpensBySerial
           /\ IF call' # NoCall THEN pc' = "reopening" /\ UNCHANGED <<dev, i, refused>>
              ELSE /\ dev' = Returned /\ refused' = (refused \/ Open' = Open)
                   /\ IF dev' = None THEN Goes(i + 1) ELSE pc' = "sets" /\ UNCHANGED i
           /\ UNCHANGED <<program, done>>

\* cstbase_setTime
Sets == /\ pc = "sets" /\ pc' = "recloses"
        /\ done' = IF current /\ dev \in Open THEN done \cup {of[dev]} ELSE done
        /\ UNCHANGED <<vars, static_dev, program, dev, i, orphans, refused>>

Recloses == /\ pc = "recloses" /\ LibClose(dev)
            /\ IF cmd = "settime" THEN Goes(i + 1) ELSE pc' = "ended" /\ UNCHANGED i
            /\ UNCHANGED <<program, dev, done, refused>>

\* The user runs a program when the last has ended or crashed.
Runs == /\ pc = "ended" \/ ~alive
        /\ Restart /\ cmd' \in Commands /\ ids' \in Options
        /\ cmd' = "timeset" => ids'.kind = "none"
        /\ pc' = "enumerates" /\ dev' = None /\ i' = 0 /\ static_dev' = None
        /\ orphans' = {} /\ done' = {} /\ refused' = FALSE

Program == alive /\ (Enumerates \/ OpensFirst \/ Asks \/ Closes \/ Reopens \/ Sets \/ Recloses)

ProgramInit == /\ Start /\ platform \in Platforms \cup {"hiddata"}
               /\ cmd \in Commands \cup {"library"} /\ ids \in Options /\ pc = "enumerates"
               /\ cmd = "library" => platform # "hiddata"
               /\ cmd \in {"library", "timeset"} => ids.kind = "none"
               /\ dev = None /\ i = 0 /\ static_dev = None /\ orphans = {} /\ done = {} /\ refused = FALSE

ProgramNext == \/ /\ cmd = "library" /\ (Client \/ (~alive /\ Restart))
                  /\ UNCHANGED <<static_dev, program, pc, dev, i, orphans, done, refused>>
               \/ Stations /\ UNCHANGED <<static_dev, program, pc, dev, i, orphans, done, refused>>
               \/ cmd # "library" /\ (Program \/ Runs)

ProgramSpec == ProgramInit /\ [][ProgramNext]_allVars
-----------------------------------------------------------------------------
\* What the user named: with no --id the first of the list, also for --all
Named == LET Slot(k) == { d \in Plugged : k < cstbase_cached_count /\ at[d] = cstbase_infos[k].path } IN
         CASE ids.kind = "none"   -> Slot(0)
           [] ids.kind = "all"    -> UNION { Slot(k) : k \in 0..(cstbase_cached_count - 1) }
           [] ids.kind = "serial" -> { d \in Plugged : Serial[d] = ids.serial }
           [] OTHER               -> UNION { Slot(ids.list[k]) : k \in DOMAIN ids.list }

\* Numbers that are not mistaken for others: an index is a byte, and no serial number
\* is an index, that of two stations, what strtol makes of another's, or, as "%X"
\* writes it, what hexread makes of a list.
NumbersApart ==
    /\ cache_max < 256 /\ \A d \in Devices : Serial[d] > cache_max
    /\ \A d, e \in Devices : Serial[d] = Serial[e] \/ Strtol(Serial[d]) = Serial[e] => d = e
    /\ \A l \in IdLists, d \in Devices : \A k \in DOMAIN l : Hexadecimal(Word(l, k - 1)) # Serial[d]

\* --settime sets stations the user named and no others, and all of them once every
\* open has succeeded, whatever strtol and hexread make of the numbers, if meanwhile
\* stations are left alone and none is opened by the empty path of a Mac.
SetsTheNamed ==
    current /\ platform # "hiddata" /\ (ids.kind = "list" => \A k \in DOMAIN ids.list : ids.list[k] # cache_max) =>
        /\ done \subseteq Named
        /\ pc = "ended" /\ cmd = "settime" /\ cstbase_cached_count > 0 /\ ~refused => done = Named

\* The programs write, read and close only handles that are open and whose library
\* no hid_exit has taken away, although each close does that to all others.  Over
\* hiddata, an open that fails returns a handle closed before.
UsesLiveHandle ==
    pc \in {"asks", "sets", "closes", "recloses"} /\ dev # None /\ alive =>
        (dev \in Open \ orphans) \/ (platform = "hiddata" /\ refused)
=============================================================================
