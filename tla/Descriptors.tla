----------------------------- MODULE Descriptors -----------------------------
(***************************************************************************)
(* The walks over a configuration descriptor (host/usb/src/usb_helpers.c). *)
(* A configuration is the sequence of its descriptors, of which the first  *)
(* is the configuration's own; a position in it stands for a pointer and   *)
(* for the offset that goes with it, 0 for NULL.  A descriptor is a record *)
(* with the fields that the walks and the class drivers read.              *)
(***************************************************************************)
EXTENDS Naturals, Sequences, FiniteSets
LOCAL INSTANCE FiniteSetsExt

CONSTANT MaxEndpoints   \* USB_MAX_ENDPOINTS_PER_INTERFACE

ASSUME EndpointsAreBounded == MaxEndpoints \in Nat

\* size: bLength fits the type, is too short for it, or would not let a walk advance.
Plain == [type |-> "conf", size |-> "ok"]
Intf(num, alt, eps, class) ==
    [type |-> "intf", size |-> "ok", num |-> num, alt |-> alt, eps |-> eps, class |-> class]
Ep(addr, dir, xfer, mps) ==
    [type |-> "ep", size |-> "ok", addr |-> addr, dir |-> dir, xfer |-> xfer, mps |-> mps]
Iad(first, count, class) ==
    [type |-> "iad", size |-> "ok", first |-> first, count |-> count, class |-> class]
Class(sub) == [type |-> "class", size |-> "ok", sub |-> sub]

Typed == {"intf", "ep", "iad"}

\* usb_parse_next_descriptor()
NextDesc(c, at) == IF c[at].size = "zero" \/ at = Len(c) THEN 0 ELSE at + 1

\* The descriptors of a type that a walk from at comes to, one call of
\* usb_parse_next_descriptor_of_type() after the other: it ends at the first one that
\* is too short.
Reached(c, at, type) ==
    {j \in at + 1 .. Len(c) :
        /\ c[j].type = type
        /\ \A k \in at .. j - 1 : c[k].size # "zero"
        /\ type \in Typed => \A k \in at + 1 .. j : c[k].type = type => c[k].size = "ok"}

\* usb_parse_next_descriptor_of_type()
NextOfType(c, at, type) == IF Reached(c, at, type) = {} THEN 0 ELSE Min(Reached(c, at, type))

\* usb_parse_interface_descriptor(): from the first descriptor of interface n on, the
\* first with the alternate setting, of whichever interface, before interface n + 1.
Interface(c, n, alt) ==
    LET all   == Reached(c, 1, "intf")
        first == {j \in all : c[j].num = n}
        stop  == {j \in all : j >= Min(first) /\ (c[j].num = n + 1 \/ c[j].alt = alt)}
        found == Min(stop)
    IN  IF first = {} \/ stop = {} THEN 0
        ELSE IF c[found].num = n + 1 \/ c[found].eps > MaxEndpoints THEN 0 ELSE found

\* usb_parse_interface_number_of_alternate() plus one: 0 for an unknown interface.
Settings(c, n) ==
    LET first  == Interface(c, n, 0)
        later  == {j \in Reached(c, 1, "intf") : j > first}
        others == {j \in later : c[j].num # n}
    IN  IF first = 0 THEN 0
        ELSE 1 + Cardinality({j \in later : \A k \in others : j < k})

\* usb_parse_endpoint_descriptor_by_index(): the walk does not end with the interface.
Endpoint(c, at, index) ==
    LET eps == Reached(c, at, "ep")
        nth == {j \in eps : Cardinality({k \in eps : k < j}) = index}
    IN  IF index >= c[at].eps \/ nth = {} THEN 0 ELSE CHOOSE j \in nth : TRUE

\* usb_parse_endpoint_descriptor_by_address(): the last one when no address matches.
EndpointByAddress(c, n, alt, addr) ==
    LET at    == Interface(c, n, alt)
        all   == {Endpoint(c, at, i) : i \in 0 .. c[at].eps - 1}
        match == {j \in all \ {0} : c[j].addr = addr}
    IN  IF at = 0 \/ all = {} THEN 0
        ELSE IF match # {} THEN Min(match) ELSE IF 0 \in all THEN 0 ELSE Max(all)

\* Reference: the descriptors that belong to the interface descriptor at.
Inside(c, at) == {j \in at + 1 .. Len(c) : \A k \in at + 1 .. j : c[k].type \notin {"intf", "iad"}}
=============================================================================
