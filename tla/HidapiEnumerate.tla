--------------------------- MODULE HidapiEnumerate ---------------------------
(***************************************************************************)
(* hid_enumerate, hid_open and hid_open_path of the four backends of       *)
(* hidapi, as functions of the stations the system shows at that moment: a *)
(* sequence of nodes, in the order of the system, each with its path, its  *)
(* serial number and how much of it the process gets to see:               *)
(*                                                                         *)
(*   whole     everything                                                  *)
(*   shut      the process may not open it                                 *)
(*   nameless  its serial number cannot be read                            *)
(*   partial   it is coming or going: its configuration, driver, transport *)
(*             or one of the nodes above it is missing                     *)
(*                                                                         *)
(* Devices of other vendors, which every backend passes over, and the      *)
(* strings that cstbase does not ask for are left out.                     *)
(***************************************************************************)
EXTENDS Naturals, SequencesExt

CONSTANT None           \* NULL, and the empty path

Platforms == {"libusb", "mac", "linux", "windows"}
Sights    == {"whole", "shut", "nameless", "partial"}
EmptyStr  == 0          \* a serial number of no characters

\* The members of a list at some of its places, linked in the order they have there
Linked(list, places) ==
    LET order == CHOOSE f \in [1..Cardinality(places) -> places] : \A i, j \in DOMAIN f : i < j => f[i] < f[j]
    IN  [i \in DOMAIN order |-> list[order[i]]]

\* The list of the nodes that are shown, with the string made of each
Entries(nodes, shown, String(_), Path(_)) ==
    LET seen == Linked(nodes, { i \in DOMAIN nodes : nodes[i].sight \in shown })
    IN  [i \in DOMAIN seen |-> [path |-> Path(seen[i]), serial |-> String(seen[i])]]

make_path(n) == n.path

\* libusb lists a device it cannot open, with no string.
LibusbString(n) == IF n.sight = "whole" THEN n.serial ELSE None
LibusbLists(nodes) == Entries(nodes, {"whole", "shut", "nameless"}, LibusbString, make_path)

\* mac: properties the system keeps; a missing one is the empty string, without the transport the path too.
PropertyString(n) == IF n.sight = "nameless" THEN EmptyStr ELSE n.serial
MacPath(n) == IF n.sight = "partial" THEN None ELSE n.path
MacLists(nodes) == Entries(nodes, Sights, PropertyString, MacPath)

\* linux: HID_ID, HID_NAME and HID_UNIQ must be there, and the USB device above; an entry without is taken off again.
LinuxLists(nodes) == Entries(nodes, {"whole", "shut", "nameless"}, PropertyString, make_path)

\* windows lists what has a driver and can be opened with no rights.
WindowsString(n) == IF n.sight = "nameless" THEN None ELSE n.serial
WindowsLists(nodes) == Entries(nodes, {"whole", "nameless"}, WindowsString, make_path)

HidEnumerate(platform, nodes) == CASE platform = "libusb" -> LibusbLists(nodes)
                                   [] platform = "mac"    -> MacLists(nodes)
                                   [] platform = "linux"  -> LinuxLists(nodes)
                                   [] OTHER               -> WindowsLists(nodes)
-----------------------------------------------------------------------------
\* Faulty: goes on past the entry that matches.
SearchesOn(list, s) ==
    LET i == SelectInSeq(list, LAMBDA e : e.serial \in {s, None})
    IN  IF i = 0 THEN "absent" ELSE IF list[i].serial = None THEN "crash" ELSE list[Len(list)].path

\* hid_open: the path of the first entry with this serial number; wcscmp takes no NULL.
Search(list, s) ==
    LET i == SelectInSeq(list, LAMBDA e : e.serial \in {s, None})
    IN  IF i = 0 THEN "absent" ELSE IF list[i].serial = None THEN "crash" ELSE list[i].path

LibusbOpens(nodes, p)  == { n \in ToSet(nodes) : n.path = p /\ n.sight \in {"whole", "nameless"} }
MacOpens(nodes, p)     == LET i == SelectInSeq(nodes, LAMBDA n : MacPath(n) = p)
                          IN  IF i = 0 THEN {} ELSE { n \in {nodes[i]} : n.sight # "shut" }
LinuxOpens(nodes, p)   == { n \in ToSet(nodes) : n.path = p /\ n.sight # "shut" }
WindowsOpens(nodes, p) == { n \in ToSet(nodes) : n.path = p /\ n.sight \in {"whole", "nameless"} }

\* hid_open_path: the node that is opened, if nothing else goes wrong
HidOpenPath(platform, nodes, p) == CASE platform = "libusb" -> LibusbOpens(nodes, p)
                                     [] platform = "mac"    -> MacOpens(nodes, p)
                                     [] platform = "linux"  -> LinuxOpens(nodes, p)
                                     [] OTHER               -> WindowsOpens(nodes, p)
=============================================================================
